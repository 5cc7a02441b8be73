--------------------------- MODULE RunEngineProofs ---------------------------
(***************************************************************************)
(* First what the pure decisions of a Run return, for every candidate set: *)
(* the search plan of a turn is a sequence of candidates, no longer than   *)
(* the turn may measure, without a rejected candidate and without two      *)
(* spellings of one program; and a turn the stop rule lets begin has its   *)
(* Evaluations reserved.  Then, for every budget, protocol and candidate   *)
(* set: a Run's state is typed, and no Evaluation that a Run asks for is   *)
(* ever refused by the budget.  IInv follows a turn's reserved Evaluations *)
(* from the stop rule that let it begin to its last profile.  Then, on     *)
(* JInv, which keeps turns, nomination and ledger in step: search closes   *)
(* for a declared reason, no later turn rewrites a Run's curve, and its    *)
(* outcome rests on the one measurement of its nominee, within budget.     *)
(*                                                                         *)
(* Last KInv, what the ledger of a Run in progress says and how the state  *)
(* of the controller continues it, with the lemmas about ledgers that grow *)
(* and the steps that fail.  RunReplayProofs has the other steps and what  *)
(* follows for the replay.                                                 *)
(***************************************************************************)
EXTENDS RunEngine, FiniteSetTheorems, FunctionTheorems, SequenceTheorems,
        WellFoundedInduction, TLAPS

-------------------------------------------------------------------------------
(* Positions and their ranks *)

LEMMA EarlierType ==
    ASSUME NEW D, D \subseteq Nat, IsFiniteSet(D), NEW i
    PROVE  /\ IsFiniteSet({j \in D : j < i})
           /\ Earlier(D, i) \in Nat
<1>1. {j \in D : j < i} \in SUBSET D
  OBVIOUS
<1>2. IsFiniteSet({j \in D : j < i})
  BY <1>1, FS_Subset
<1> QED
  BY <1>2, FS_CardinalityType DEF Earlier

(* A position's rank is below that of any later one, and below the number *)
(* of positions.                                                          *)
LEMMA EarlierStrict ==
    ASSUME NEW D, D \subseteq Nat, IsFiniteSet(D), NEW i \in D, NEW j \in Nat, i < j
    PROVE  Earlier(D, i) < Earlier(D, j)
<1> DEFINE A == {k \in D : k < i}
           B == {k \in D : k < j}
<1>1. IsFiniteSet(A) /\ IsFiniteSet(B)
  BY EarlierType
<1>2. A \cup {i} \in SUBSET B
  <2> SUFFICES ASSUME NEW k \in A \cup {i} PROVE k \in D /\ k < j
    OBVIOUS
  <2>1. k \in D /\ k \in Nat /\ i \in Nat
    OBVIOUS
  <2>2. k < i \/ k = i
    OBVIOUS
  <2> QED
    BY <2>1, <2>2
<1>3. i \notin A
  OBVIOUS
<1>4. Cardinality(A \cup {i}) = Cardinality(A) + 1
  BY <1>1, <1>3, FS_AddElement
<1>5. Cardinality(A \cup {i}) <= Cardinality(B)
  BY <1>1, <1>2, FS_Subset
<1>6. Cardinality(A) \in Nat /\ Cardinality(B) \in Nat
  BY <1>1, FS_CardinalityType
<1> QED
  BY <1>4, <1>5, <1>6 DEF Earlier

LEMMA EarlierBelow ==
    ASSUME NEW D, D \subseteq Nat, IsFiniteSet(D), NEW i \in D
    PROVE  Earlier(D, i) < Cardinality(D)
<1> DEFINE A == {k \in D : k < i}
<1>1. IsFiniteSet(A)
  BY EarlierType
<1>2. A \cup {i} \in SUBSET D
  OBVIOUS
<1>3. i \notin A
  OBVIOUS
<1>4. Cardinality(A \cup {i}) = Cardinality(A) + 1
  BY <1>1, <1>3, FS_AddElement
<1>5. Cardinality(A \cup {i}) <= Cardinality(D)
  BY <1>2, FS_Subset
<1>6. Cardinality(A) \in Nat /\ Cardinality(D) \in Nat
  BY <1>1, FS_CardinalityType
<1> QED
  BY <1>4, <1>5, <1>6 DEF Earlier

LEMMA EarlierInjective ==
    ASSUME NEW D, D \subseteq Nat, IsFiniteSet(D), NEW i \in D, NEW j \in D,
           Earlier(D, i) = Earlier(D, j)
    PROVE  i = j
<1>1. Earlier(D, i) \in Nat /\ Earlier(D, j) \in Nat
  BY EarlierType
<1>2. ~(i < j)
  <2> SUFFICES ASSUME i < j PROVE FALSE
    OBVIOUS
  <2>1. Earlier(D, i) < Earlier(D, j)
    BY EarlierStrict
  <2> QED
    BY <2>1, <1>1
<1>3. ~(j < i)
  <2> SUFFICES ASSUME j < i PROVE FALSE
    OBVIOUS
  <2>1. Earlier(D, j) < Earlier(D, i)
    BY EarlierStrict
  <2> QED
    BY <2>1, <1>1
<1>4. i \in Nat /\ j \in Nat
  OBVIOUS
<1> QED
  BY <1>2, <1>3, <1>4

(* Every rank below the number of positions is some position's. *)
LEMMA EarlierSurjective ==
    ASSUME NEW D, D \subseteq Nat, IsFiniteSet(D), NEW n \in 1..Cardinality(D)
    PROVE  \E i \in D : Earlier(D, i) = n - 1
<1> DEFINE N == Cardinality(D)
           T == 0..(N - 1)
           f == [i \in D |-> Earlier(D, i)]
<1>1. N \in Nat
  BY FS_CardinalityType
<1>2. f \in [D -> T]
  <2> SUFFICES ASSUME NEW i \in D PROVE Earlier(D, i) \in T
    OBVIOUS
  <2>1. Earlier(D, i) \in Nat
    BY EarlierType
  <2>2. Earlier(D, i) < N
    BY EarlierBelow
  <2> QED
    BY <2>1, <2>2, <1>1
<1>3. f \in Injection(D, T)
  <2> SUFFICES ASSUME NEW i \in D, NEW j \in D, f[i] = f[j] PROVE i = j
    BY <1>2 DEF Injection, IsInjective
  <2>1. Earlier(D, i) = Earlier(D, j)
    OBVIOUS
  <2> QED
    BY <2>1, EarlierInjective
<1>4. IsFiniteSet(T) /\ Cardinality(T) = N
  <2>1. 0 \in Int /\ N - 1 \in Int
    BY <1>1
  <2>2. IsFiniteSet(T) /\ Cardinality(T) = IF 0 > N - 1 THEN 0 ELSE (N - 1) - 0 + 1
    BY <2>1, FS_Interval
  <2> QED
    BY <2>2, <1>1
<1>5. f \in Surjection(D, T)
  BY <1>3, <1>4, FS_Injection
<1>6. n - 1 \in T
  BY <1>1
<1> QED
  BY <1>5, <1>6 DEF Surjection

(* The rows at given positions are those rows, in the order of the sequence.*)
LEMMA AtPositionsType ==
    ASSUME NEW S, NEW rows \in Seq(S), NEW D \in SUBSET (1..Len(rows))
    PROVE  /\ IsFiniteSet(D) /\ Cardinality(D) \in Nat
           /\ AtPositions(rows, D) \in Seq(S)
           /\ Len(AtPositions(rows, D)) = Cardinality(D)
           /\ \A n \in 1..Cardinality(D) : \E i \in D :
                 Earlier(D, i) = n - 1 /\ AtPositions(rows, D)[n] = rows[i]
<1>1. IsFiniteSet(D)
  <2>1. IsFiniteSet(1..Len(rows))
    BY FS_Interval
  <2> QED
    BY <2>1, FS_Subset
<1>2. Cardinality(D) \in Nat
  BY <1>1, FS_CardinalityType
<1>3. D \subseteq Nat
  OBVIOUS
<1>4. ASSUME NEW n \in 1..Cardinality(D)
      PROVE  \E i \in D : Earlier(D, i) = n - 1 /\ AtPositions(rows, D)[n] = rows[i]
  <2>1. \E i \in D : Earlier(D, i) = n - 1
    BY <1>1, <1>3, EarlierSurjective
  <2> DEFINE at == CHOOSE i \in D : Earlier(D, i) = n - 1
  <2>2. at \in D /\ Earlier(D, at) = n - 1
    BY <2>1
  <2>3. AtPositions(rows, D)[n] = rows[at]
    BY DEF AtPositions
  <2> QED
    BY <2>2, <2>3
<1>5. AtPositions(rows, D) \in [1..Cardinality(D) -> S]
  <2>1. \A n \in 1..Cardinality(D) : AtPositions(rows, D)[n] \in S
    BY <1>4
  <2>2. AtPositions(rows, D) = [n \in 1..Cardinality(D) |-> AtPositions(rows, D)[n]]
    BY DEF AtPositions
  <2> QED
    BY <2>1, <2>2
<1>6. AtPositions(rows, D) \in Seq(S)
  BY <1>2, <1>5
<1>7. Len(AtPositions(rows, D)) = Cardinality(D)
  BY <1>2, <1>5, <1>6
<1> QED
  BY <1>1, <1>2, <1>4, <1>6, <1>7

-------------------------------------------------------------------------------
(* The search plan *)

LEMMA SearchedRowsType ==
    ASSUME NEW order \in Seq(Row)
    PROVE  /\ Distinct(order) \in SUBSET (1..Len(order))
           /\ IsFiniteSet(Distinct(order))
           /\ SearchedRows(order) \in SUBSET (1..Len(order))
<1>1. Distinct(order) \in SUBSET (1..Len(order))
  BY DEF Distinct, LaunchableRows
<1>2. IsFiniteSet(1..Len(order))
  BY FS_Interval
<1>3. IsFiniteSet(Distinct(order))
  BY <1>1, <1>2, FS_Subset
<1> QED
  BY <1>1, <1>3 DEF SearchedRows

LEMMA SearchedRowsBound ==
    ASSUME NEW order \in Seq(Row)
    PROVE  Cardinality(SearchedRows(order)) <= SearchesPerTurn
<1> DEFINE D == Distinct(order)
           R == SearchedRows(order)
           T == 0..(SearchesPerTurn - 1)
           f == [i \in R |-> Earlier(D, i)]
<1>1. D \subseteq Nat /\ IsFiniteSet(D) /\ R \subseteq D
  BY SearchedRowsType DEF SearchedRows
<1>2. SearchesPerTurn \in Nat \ {0}
  BY BudgetAssumption
<1>3. f \in [R -> T]
  <2> SUFFICES ASSUME NEW i \in R PROVE Earlier(D, i) \in T
    OBVIOUS
  <2>1. Earlier(D, i) \in Nat
    BY <1>1, EarlierType
  <2>2. Earlier(D, i) < SearchesPerTurn
    BY DEF SearchedRows
  <2> QED
    BY <2>1, <2>2, <1>2
<1>4. f \in Injection(R, T)
  <2> SUFFICES ASSUME NEW i \in R, NEW j \in R, f[i] = f[j] PROVE i = j
    BY <1>3 DEF Injection, IsInjective
  <2>1. i \in D /\ j \in D /\ Earlier(D, i) = Earlier(D, j)
    BY <1>1
  <2> HIDE DEF D
  <2> QED
    BY <2>1, <1>1, EarlierInjective
<1>5. IsFiniteSet(T) /\ Cardinality(T) = SearchesPerTurn
  <2>1. IsFiniteSet(T) /\ Cardinality(T) =
           IF 0 > SearchesPerTurn - 1 THEN 0 ELSE (SearchesPerTurn - 1) - 0 + 1
    BY <1>2, FS_Interval
  <2> QED
    BY <2>1, <1>2
<1> QED
  BY <1>4, <1>5, FS_Injection

(* A turn's plan is a sequence of candidates no longer than the turn may   *)
(* search (selection.py, _matched_search_plan).                            *)
THEOREM SearchPlanFits ==
    ASSUME NEW order \in Seq(Row)
    PROVE  /\ SearchPlan(order) \in Seq(Candidates)
           /\ Len(SearchPlan(order)) = Cardinality(SearchedRows(order))
           /\ Len(SearchPlan(order)) <= SearchesPerTurn
<1> DEFINE R == SearchedRows(order)
           rows == AtPositions(order, R)
<1>1. R \in SUBSET (1..Len(order))
  BY SearchedRowsType
<1>2. rows \in Seq(Row) /\ Len(rows) = Cardinality(R) /\ Cardinality(R) \in Nat
  BY <1>1, AtPositionsType
<1> HIDE DEF rows
<1>3. SearchPlan(order) = [n \in 1..Len(rows) |-> rows[n].candidate]
  BY DEF SearchPlan, CandidatesOf, rows
<1>4. \A n \in 1..Len(rows) : rows[n] \in Row
  BY <1>2
<1>5. SearchPlan(order) \in [1..Len(rows) -> Candidates]
  BY <1>3, <1>4 DEF Row
<1>6. SearchPlan(order) \in Seq(Candidates)
  BY <1>2, <1>5
<1>7. Len(SearchPlan(order)) = Cardinality(R)
  BY <1>2, <1>5, <1>6
<1> QED
  BY <1>6, <1>7, SearchedRowsBound

(* Only launchable candidates are measured, and no program twice.          *)
THEOREM SearchPlanMeasuresPrograms ==
    ASSUME NEW order \in Seq(Row)
    PROVE  /\ \A n \in 1..Len(SearchPlan(order)) : \E i \in 1..Len(order) :
                 order[i].launchable /\ SearchPlan(order)[n] = order[i].candidate
           /\ \A m, n \in 1..Len(SearchPlan(order)) :
                 m # n /\ Program[SearchPlan(order)[n]] # NoCandidate
                 => Program[SearchPlan(order)[m]] # Program[SearchPlan(order)[n]]
<1> DEFINE R == SearchedRows(order)
           rows == AtPositions(order, R)
           searches == SearchPlan(order)
<1>1. R \in SUBSET (1..Len(order))
  BY SearchedRowsType
<1>2. /\ rows \in Seq(Row) /\ Len(rows) = Cardinality(R)
      /\ \A n \in 1..Cardinality(R) : \E i \in R :
            Earlier(R, i) = n - 1 /\ rows[n] = order[i]
  BY <1>1, AtPositionsType
<1>3. Len(searches) = Cardinality(R)
  BY SearchPlanFits
<1>4. \A n \in 1..Len(searches) : \E i \in R :
         Earlier(R, i) = n - 1 /\ searches[n] = order[i].candidate
  <2> SUFFICES ASSUME NEW n \in 1..Len(searches)
               PROVE  \E i \in R : Earlier(R, i) = n - 1 /\ searches[n] = order[i].candidate
    OBVIOUS
  <2>1. PICK i \in R : Earlier(R, i) = n - 1 /\ rows[n] = order[i]
    BY <1>2, <1>3
  <2>2. searches[n] = rows[n].candidate
    BY <1>2, <1>3 DEF SearchPlan, CandidatesOf
  <2> QED
    BY <2>1, <2>2
<1>5. \A i \in R : order[i].launchable /\ ~Repeats(order, i)
  <2> SUFFICES ASSUME NEW i \in R PROVE order[i].launchable /\ ~Repeats(order, i)
    OBVIOUS
  <2>1. i \in LaunchableRows(order) /\ ~Repeats(order, i)
    BY DEF SearchedRows, Distinct
  <2>2. i \in 1..i
    BY <1>1
  <2> QED
    BY <2>1, <2>2 DEF LaunchableRows
<1>6. \A i, j \in R : i # j /\ Program[order[j].candidate] # NoCandidate
         => Program[order[i].candidate] # Program[order[j].candidate]
  <2> SUFFICES ASSUME NEW i \in R, NEW j \in R, i # j,
                      Program[order[j].candidate] # NoCandidate,
                      Program[order[i].candidate] = Program[order[j].candidate]
               PROVE  FALSE
    OBVIOUS
  <2>1. i \in Nat /\ j \in Nat /\ i >= 1 /\ j >= 1
    BY <1>1
  <2>2. CASE i < j
    BY <2>1, <2>2, <1>5 DEF Repeats
  <2>3. CASE j < i
    BY <2>1, <2>3, <1>5 DEF Repeats
  <2> QED
    BY <2>1, <2>2, <2>3
<1>7. ASSUME NEW m \in 1..Len(searches), NEW n \in 1..Len(searches), m # n,
             Program[searches[n]] # NoCandidate
      PROVE  Program[searches[m]] # Program[searches[n]]
  <2>1. PICK i \in R : Earlier(R, i) = m - 1 /\ searches[m] = order[i].candidate
    BY <1>4
  <2>2. PICK j \in R : Earlier(R, j) = n - 1 /\ searches[n] = order[j].candidate
    BY <1>4
  <2>3. i # j
    <3>1. m \in Int /\ n \in Int
      BY <1>3, SearchPlanFits
    <3> QED
      BY <2>1, <2>2, <3>1, <1>7
  <2> QED
    BY <2>1, <2>2, <2>3, <1>6, <1>7
<1> QED
  BY <1>1, <1>4, <1>5, <1>7

-------------------------------------------------------------------------------
(* The stop rule *)

(* A set of positions of the stop rule has a first one. *)
LEMMA FirstReason ==
    ASSUME NEW S \in SUBSET (1..6), S # {}
    PROVE  Min(S) \in S
<1>1. \E x \in S : \A y \in S : x <= y
  <2>1. CASE 1 \in S
    BY <2>1
  <2>2. CASE 1 \notin S /\ 2 \in S
    BY <2>2
  <2>3. CASE 1 \notin S /\ 2 \notin S /\ 3 \in S
    BY <2>3
  <2>4. CASE 1 \notin S /\ 2 \notin S /\ 3 \notin S /\ 4 \in S
    BY <2>4
  <2>5. CASE 1 \notin S /\ 2 \notin S /\ 3 \notin S /\ 4 \notin S /\ 5 \in S
    BY <2>5
  <2>6. CASE 1 \notin S /\ 2 \notin S /\ 3 \notin S /\ 4 \notin S /\ 5 \notin S
    <3>1. \A x \in S : x = 6
      <4> SUFFICES ASSUME NEW x \in S PROVE x = 6
        OBVIOUS
      <4>1. x \in 1..6 /\ x # 1 /\ x # 2 /\ x # 3 /\ x # 4 /\ x # 5
        BY <2>6
      <4> QED
        BY <4>1
    <3>2. 6 \in S
      BY <3>1
    <3> QED
      BY <3>1, <3>2
  <2> QED
    BY <2>1, <2>2, <2>3, <2>4, <2>5, <2>6
<1> QED
  BY <1>1 DEF Min

(* A turn the stop rule lets begin has every Evaluation it may ask for     *)
(* within the limits, whatever it turns out to need (ralph.py 105-120).    *)
THEOREM StopRuleReserves ==
    ASSUME NEW next, NEW spent, NEW now, NEW worked, NEW used,
           NEW compiled,
           used \in [Purposes -> Nat],
           StopReason(next, spent, now, worked, used, compiled) = "none"
    PROVE  \A purpose \in Purposes :
              used[purpose] + Required[purpose] <= EvaluationLimit[purpose]
<1> DEFINE holds == StopHolds(next, spent, now, worked, used, compiled)
           hit == {i \in 1..Len(StopReasons) : holds[StopReasons[i]]}
<1>1. Len(StopReasons) = 6
  BY DEF StopReasons
<1>2. \A i \in 1..6 : StopReasons[i] # "none"
  BY DEF StopReasons
<1>3. hit = {}
  <2> SUFFICES ASSUME hit # {} PROVE FALSE
    OBVIOUS
  <2>1. hit \in SUBSET (1..6)
    BY <1>1
  <2>2. Min(hit) \in 1..6
    BY <2>1, FirstReason
  <2>3. StopReason(next, spent, now, worked, used, compiled)
           = StopReasons[Min(hit)]
    BY DEF StopReason
  <2> QED
    BY <2>2, <2>3, <1>2
<1>4. ~holds["evaluation_budget"]
  <2>1. StopReasons[6] = "evaluation_budget"
    BY DEF StopReasons
  <2>2. 6 \in 1..Len(StopReasons)
    BY <1>1
  <2> HIDE DEF holds
  <2> QED
    BY <2>1, <2>2, <1>3
<1>5. ~\E purpose \in Purposes :
          used[purpose] + Required[purpose] > EvaluationLimit[purpose]
  BY <1>4 DEF StopHolds
<1>6. \A purpose \in Purposes : /\ used[purpose] \in Nat
                                /\ Required[purpose] \in Nat
                                /\ EvaluationLimit[purpose] \in Nat
  BY BudgetAssumption DEF Purposes, Required, EvaluationLimit, ProfileEach
<1> QED
  BY <1>5, <1>6

-------------------------------------------------------------------------------
(* Facts about the operators *)

LEMMA SmallestNat ==
    ASSUME NEW S, S \subseteq Nat, S # {}
    PROVE  Min(S) \in S /\ \A y \in S : Min(S) <= y
<1>1. \E x \in S : \A y \in S : x <= y
  <2>1. PICK x \in S : \A y \in S : ~(<<y, x>> \in OpToRel(<, Nat))
    BY NatLessThanWellFounded, WFMin
  <2>2. \A y \in S : ~(y < x)
    BY <2>1 DEF OpToRel
  <2> QED
    BY <2>2
<1> QED
  BY <1>1 DEF Min

LEMMA RoundedType ==
    ASSUME NEW time \in Nat
    PROVE  Rounded(time) \in Nat
<1>1. Grid \in Nat \ {0}
  BY BudgetAssumption
<1>2. 2 * time + Grid \in Nat /\ 2 * Grid \in Nat \ {0}
  BY <1>1
<1>3. (2 * time + Grid) \div (2 * Grid) \in Nat
  BY <1>2
<1>4. \A x, y \in Nat : x * y \in Nat
  OBVIOUS
<1> QED
  BY <1>1, <1>3, <1>4 DEF Rounded

LEMMA GrantedType ==
    ASSUME NEW asked \in Nat, compilations \in 0..MaximumCompilations
    PROVE  compilations + Granted(asked) \in 0..MaximumCompilations
<1> DEFINE S == {asked, MaximumCompilations - compilations}
<1>1. MaximumCompilations \in Nat
  BY BudgetAssumption
<1>2. S \subseteq Nat /\ S # {}
  BY <1>1
<1>3. Min(S) \in S /\ Min(S) <= MaximumCompilations - compilations
  BY <1>2, SmallestNat
<1>4. Min(S) \in Nat
  BY <1>2, <1>3
<1> QED
  BY <1>1, <1>3, <1>4 DEF Granted

LEMMA StopReasonType ==
    ASSUME NEW a, NEW b, NEW c, NEW d, NEW e, NEW f
    PROVE  StopReason(a, b, c, d, e, f) \in {"none"} \cup Range(StopReasons)
<1> DEFINE holds == StopHolds(a, b, c, d, e, f)
           hit == {i \in 1..Len(StopReasons) : holds[StopReasons[i]]}
<1>1. Len(StopReasons) = 6 /\ DOMAIN StopReasons = 1..6
  BY DEF StopReasons
<1>2. CASE hit = {}
  BY <1>2 DEF StopReason
<1>3. CASE hit # {}
  <2>1. hit \in SUBSET (1..6)
    BY <1>1
  <2>2. Min(hit) \in 1..6
    BY <1>3, <2>1, FirstReason
  <2>3. StopReason(a, b, c, d, e, f) = StopReasons[Min(hit)]
    BY <1>3 DEF StopReason
  <2> QED
    BY <2>2, <2>3, <1>1 DEF Range
<1> QED
  BY <1>2, <1>3

(* The selected search is one of the turn's. *)
LEMMA BestSearchType ==
    ASSUME NEW rows \in Seq(Searches), rows # << >>
    PROVE  BestSearch(rows) \in 1..Len(rows)
<1> DEFINE qualified == QualifiedSearches(rows)
           fastest == {i \in qualified : \A j \in qualified :
                          rows[i].receipt.latency <= rows[j].receipt.latency}
           latencies == {rows[i].receipt.latency : i \in qualified}
<1>1. qualified \subseteq 1..Len(rows)
  BY DEF QualifiedSearches
<1>2. CASE qualified = {}
  <2>1. Len(rows) >= 1
    BY DEF Searches
  <2> QED
    BY <1>2, <2>1 DEF BestSearch
<1>3. CASE qualified # {}
  <2>1. latencies \subseteq Nat
    <3> SUFFICES ASSUME NEW i \in qualified PROVE rows[i].receipt.latency \in Nat
      OBVIOUS
    <3>1. rows[i] \in Searches
      BY <1>1
    <3>2. rows[i].receipt \in Receipts
      BY <3>1 DEF Searches
    <3>3. rows[i].receipt.latency \in {0} \cup Latencies
      BY <3>2 DEF Receipts
    <3>4. {0} \cup Latencies \subseteq Nat
      BY CandidateAssumption
    <3> QED
      BY <3>3, <3>4
  <2>2. latencies # {}
    BY <1>3
  <2>3. Min(latencies) \in latencies /\ \A y \in latencies : Min(latencies) <= y
    BY <2>1, <2>2, SmallestNat
  <2>4. PICK i \in qualified : rows[i].receipt.latency = Min(latencies)
    BY <2>3
  <2>5. i \in fastest
    BY <2>3, <2>4
  <2>6. fastest \subseteq Nat /\ fastest # {}
    BY <1>1, <2>5
  <2>7. Min(fastest) \in fastest
    BY <2>6, SmallestNat
  <2>8. BestSearch(rows) = Min(fastest)
    BY <1>3 DEF BestSearch
  <2> QED
    BY <2>7, <2>8, <1>1
<1> QED
  BY <1>2, <1>3

LEMMA FilterOrderType ==
    ASSUME built \in Seq(Row)
    PROVE  /\ FilterOrder \in Seq(Row) /\ Rejects \in Seq(Row)
           /\ Survivors \in Seq(Row)
<1>1. Survivors \in Seq(Row)
  BY AtPositionsType, {n \in 1..Len(built) : built[n].launchable} \in SUBSET (1..Len(built))
     DEF Survivors
<1>2. Rejects \in Seq(Row)
  BY AtPositionsType, {n \in 1..Len(built) : ~built[n].launchable} \in SUBSET (1..Len(built))
     DEF Rejects
<1>3. Survivors \o Rejects \in Seq(Row)
  BY <1>1, <1>2
<1> QED
  BY <1>1, <1>2, <1>3 DEF FilterOrder

(* A turn with a launchable candidate measures one. *)
LEMMA SurvivorIsPlanned ==
    ASSUME built \in Seq(Row), NEW n \in 1..Len(built), built[n].launchable
    PROVE  SearchPlan(FilterOrder) # << >>
<1> DEFINE D == {k \in 1..Len(built) : built[k].launchable}
           front == Survivors
<1>1. built[n] \in Row
  OBVIOUS
<1>2. n \in D
  BY <1>1 DEF Row
<1>3. D \in SUBSET (1..Len(built))
  OBVIOUS
<1>4. /\ IsFiniteSet(D) /\ Cardinality(D) \in Nat /\ front \in Seq(Row)
      /\ Len(front) = Cardinality(D)
      /\ \A k \in 1..Cardinality(D) : \E i \in D : front[k] = built[i]
  <2>1. front = AtPositions(built, D)
    BY DEF Survivors
  <2> HIDE DEF D
  <2>2. /\ IsFiniteSet(D) /\ Cardinality(D) \in Nat /\ AtPositions(built, D) \in Seq(Row)
        /\ Len(AtPositions(built, D)) = Cardinality(D)
        /\ \A k \in 1..Cardinality(D) : \E i \in D :
              Earlier(D, i) = k - 1 /\ AtPositions(built, D)[k] = built[i]
    BY ONLY <1>3, built \in Seq(Row), AtPositionsType
  <2> QED
    BY <2>1, <2>2
<1>5. Cardinality(D) # 0
  BY <1>2, <1>4, FS_EmptySet
<1>6. 1 \in 1..Len(front) /\ front[1].launchable
  <2>1. 1 \in 1..Cardinality(D)
    BY <1>4, <1>5
  <2>2. PICK i \in D : front[1] = built[i]
    BY <1>4, <2>1
  <2>3. built[i].launchable
    OBVIOUS
  <2> HIDE DEF D, front
  <2> QED
    BY <1>4, <2>1, <2>2, <2>3
<1> DEFINE order == FilterOrder
<1>7. order \in Seq(Row) /\ 1 \in 1..Len(order) /\ order[1] = front[1]
  <2>1. Rejects \in Seq(Row)
    BY FilterOrderType
  <2> HIDE DEF D, front
  <2>2. /\ front \o Rejects \in Seq(Row)
        /\ Len(front \o Rejects) = Len(front) + Len(Rejects)
    BY <1>4, <2>1, SMTT(30)
  <2>5. (front \o Rejects)[1] = front[1]
    BY <1>4, <1>6, <2>1
  <2>3. order = front \o Rejects
    BY DEF FilterOrder, front
  <2> HIDE DEF order
  <2>4. Len(front) \in Nat /\ Len(Rejects) \in Nat
    BY <1>4, <2>1
  <2> QED
    BY <2>2, <2>3, <2>4, <2>5, <1>6
<1> HIDE DEF D, front, order
<1>8. 1 \in LaunchableRows(order)
  BY <1>6, <1>7 DEF LaunchableRows
<1>9. ~Repeats(order, 1)
  BY DEF Repeats
<1>10. 1 \in Distinct(order)
  BY <1>8, <1>9 DEF Distinct
<1>11. Earlier(Distinct(order), 1) = 0
  <2>1. Distinct(order) \subseteq 1..Len(order)
    BY <1>7, SearchedRowsType
  <2>2. \A j \in Distinct(order) : ~(j < 1)
    BY <2>1, <1>7
  <2>3. {j \in Distinct(order) : j < 1} = {}
    BY <2>2
  <2> QED
    BY <2>3, FS_EmptySet DEF Earlier
<1>12. 1 \in SearchedRows(order)
  BY <1>10, <1>11, BudgetAssumption DEF SearchedRows
<1>13. SearchedRows(order) \in SUBSET (1..Len(order))
  BY <1>7, SearchedRowsType
<1>14. IsFiniteSet(SearchedRows(order))
  <2>1. IsFiniteSet(1..Len(order))
    BY <1>7, FS_Interval
  <2> QED
    BY <1>13, <2>1, FS_Subset
<1>15. Cardinality(SearchedRows(order)) # 0
  BY <1>12, <1>14, FS_EmptySet
<1>16. Len(SearchPlan(order)) = Cardinality(SearchedRows(order))
  BY <1>7, SearchPlanFits
<1> QED
  BY <1>15, <1>16 DEF order

(* The nominee is an observation. *)
LEMMA NomineeType ==
    ASSUME observations \in Seq(ObservationType)
    PROVE  Nominee(observations) \subseteq ObservationType
BY DEF Nominee, Fastest

-------------------------------------------------------------------------------
(* The inductive invariant *)

LEMMA InitInvariant == Init => IInv
<1> SUFFICES ASSUME Init PROVE IInv
  OBVIOUS
<1>1. TypeOK
  BY BudgetAssumption DEF Init, TypeOK, AtMostOne
<1>2. TurnReserved /\ ConfirmationReserved /\ InPhase
  BY DEF Init, TurnReserved, ConfirmationReserved, InPhase, Purposes
<1>3. WithinLimits
  BY BudgetAssumption DEF Init, WithinLimits, EvaluationLimit, Purposes
<1> QED
  BY <1>1, <1>2, <1>3 DEF IInv

(* A fault, wherever it strikes, leads to the seal and spends nothing more.*)
LEMMA FaultStep ==
    ASSUME IInv, NEW written,
           NEW live \in {"provider", "environment", "evaluation"},
           NEW fault \in {"provider_fault", "harness_fault", "broker_fault"},
           NEW usage \in Nat,
           RecordFault(written, live, fault, usage),
           elapsed' \in Nat, authoring' \in Nat,
           compilations' \in 0..MaximumCompilations,
           UNCHANGED <<counts, closedAt, resolved, built, plan, searched>>
    PROVE  IInv'
<1>1. TypeOK'
  BY DEF IInv, TypeOK, RecordFault, resultVars, AtMostOne
<1>2. TurnReserved'
  BY DEF RecordFault, TurnReserved
<1>3. ConfirmationReserved'
  BY DEF IInv, RecordFault, ConfirmationReserved, resultVars
<1>4. InPhase'
  BY DEF IInv, RecordFault, InPhase, resultVars
<1>5. WithinLimits'
  BY DEF IInv, WithinLimits
<1> QED
  BY <1>1, <1>2, <1>3, <1>4, <1>5 DEF IInv

LEMMA FaultOfType ==
    ASSUME NEW live \in {"provider", "environment", "evaluation"}
    PROVE  FaultOf(live) \in {"provider_fault", "harness_fault", "broker_fault"}
BY DEF FaultOf

LEMMA StopSearchStep == IInv /\ StopSearch => IInv'
<1> SUFFICES ASSUME IInv, StopSearch PROVE IInv'
  OBVIOUS
<1> USE DEF StopSearch, clockVars, budgetVars, turnVars, resultVars, outcomeVars
<1>1. TypeOK'
  BY DEF IInv, TypeOK
<1>2. TurnReserved' /\ ConfirmationReserved'
  BY DEF IInv, TurnReserved, ConfirmationReserved, Room, InPhase
<1>3. InPhase' /\ WithinLimits'
  BY DEF IInv, InPhase, WithinLimits
<1> QED
  BY <1>1, <1>2, <1>3 DEF IInv

LEMMA AuthorStep == IInv /\ (AuthorTurn \/ AuthorFault) => IInv'
<1>1. ASSUME IInv, AuthorTurn PROVE IInv'
  <2>1. PICK duration \in Durations, spent \in TokenSpends :
           /\ Author(duration)
           /\ stage' = "provider"
           /\ tokens' = tokens + spent
           /\ pc' = "resolve"
           /\ UNCHANGED <<turn, active, resultVars, outcomeVars>>
    BY <1>1 DEF AuthorTurn
  <2> USE DEF Author, budgetVars, turnVars, resultVars, outcomeVars
  <2>2. duration \in Nat /\ spent \in Nat
    BY InputAssumption
  <2>3. TypeOK'
    BY <1>1, <2>1, <2>2 DEF IInv, TypeOK
  <2>4. Room(SearchesPerTurn, SearchesPerTurn)
    <3>1. StopReason(turn, tokens, elapsed, authoring, counts, compilations) = "none"
      BY <2>1 DEF StopNow
    <3>2. \A purpose \in Purposes :
             counts[purpose] + Required[purpose] <= EvaluationLimit[purpose]
      BY <1>1, <3>1, StopRuleReserves DEF IInv, TypeOK
    <3> QED
      BY <3>2 DEF Room, Required, EvaluationLimit, Purposes
  <2>5. TurnReserved'
    BY <1>1, <2>1, <2>4 DEF IInv, TurnReserved, Room, InPhase
  <2>6. ConfirmationReserved' /\ InPhase' /\ WithinLimits'
    BY <1>1, <2>1 DEF IInv, ConfirmationReserved, InPhase, WithinLimits
  <2> QED
    BY <2>3, <2>5, <2>6 DEF IInv
<1>2. ASSUME IInv, AuthorFault PROVE IInv'
  <2>1. PICK duration \in Durations, usage \in {0} \cup TokenSpends :
           /\ Author(duration)
           /\ RecordFault(<< >>, "provider", "provider_fault", usage)
    BY <1>2 DEF AuthorFault
  <2>2. duration \in Nat /\ usage \in Nat
    BY InputAssumption
  <2>3. elapsed' \in Nat /\ authoring' \in Nat /\ compilations' \in 0..MaximumCompilations
    BY <1>2, <2>1, <2>2 DEF Author, budgetVars, IInv, TypeOK
  <2> QED
    BY <1>2, <2>1, <2>2, <2>3, FaultStep DEF Author, budgetVars, turnVars
<1> QED
  BY <1>1, <1>2

LEMMA ResolveStep == IInv /\ (ResolveActions \/ ResolveFault) => IInv'
<1>1. ASSUME IInv, ResolveActions PROVE IInv'
  <2> USE DEF ResolveActions, clockVars, budgetVars, resultVars, outcomeVars
  <2>1. TypeOK'
    BY <1>1, InputAssumption DEF IInv, TypeOK
  <2>2. TurnReserved' /\ ConfirmationReserved'
    BY <1>1 DEF IInv, TurnReserved, ConfirmationReserved, Room, InPhase
  <2>3. InPhase' /\ WithinLimits'
    BY <1>1 DEF IInv, InPhase, WithinLimits
  <2> QED
    BY <2>1, <2>2, <2>3 DEF IInv
<1>2. ASSUME IInv, ResolveFault PROVE IInv'
  <2>1. elapsed' \in Nat /\ authoring' \in Nat /\ compilations' \in 0..MaximumCompilations
    BY <1>2 DEF ResolveFault, clockVars, budgetVars, IInv, TypeOK
  <2> QED
    BY <1>2, <2>1, FaultStep DEF ResolveFault, clockVars, budgetVars, turnVars
<1> QED
  BY <1>1, <1>2

LEMMA BuildStepStep == IInv /\ (BuildCandidate \/ BuildFault) => IInv'
<1>1. ASSUME IInv, BuildCandidate PROVE IInv'
  <2>1. PICK asked \in 0..MaxPermits, duration \in Durations, launchable \in BOOLEAN :
           /\ BuildStep(asked, duration)
           /\ built' = Append(built, [candidate |-> NextBuild, launchable |-> launchable])
           /\ UNCHANGED <<pc, turn, stage, tokens, active, resultVars, outcomeVars>>
    BY <1>1 DEF BuildCandidate
  <2>2. asked \in Nat /\ duration \in Nat
    BY InputAssumption
  <2>3. compilations' \in 0..MaximumCompilations
    BY <1>1, <2>1, <2>2, GrantedType DEF BuildStep, IInv, TypeOK
  <2>4. built' \in Seq(Row)
    <3>1. NextBuild \in Candidates
      BY <1>1, <2>1 DEF NextBuild, BuildStep, IInv, TypeOK
    <3>2. [candidate |-> NextBuild, launchable |-> launchable] \in Row
      BY <3>1 DEF Row
    <3> QED
      BY <1>1, <2>1, <3>2 DEF IInv, TypeOK
  <2> USE DEF BuildStep, resultVars, outcomeVars
  <2>5. TypeOK'
    BY <1>1, <2>1, <2>2, <2>3, <2>4 DEF IInv, TypeOK
  <2>6. TurnReserved' /\ ConfirmationReserved'
    BY <1>1, <2>1 DEF IInv, TurnReserved, ConfirmationReserved, Room, InPhase
  <2>7. InPhase' /\ WithinLimits'
    BY <1>1, <2>1 DEF IInv, InPhase, WithinLimits
  <2> QED
    BY <2>5, <2>6, <2>7 DEF IInv
<1>2. ASSUME IInv, BuildFault PROVE IInv'
  <2>1. PICK asked \in 0..MaxPermits, duration \in Durations :
           /\ BuildStep(asked, duration)
           /\ RecordFault(CompilationEvents(asked, elapsed'), "environment",
                          "harness_fault", 0)
           /\ UNCHANGED built
    BY <1>2 DEF BuildFault
  <2>2. asked \in Nat /\ duration \in Nat
    BY InputAssumption
  <2>3. compilations' \in 0..MaximumCompilations
    BY <1>2, <2>1, <2>2, GrantedType DEF BuildStep, IInv, TypeOK
  <2>4. elapsed' \in Nat /\ authoring' \in Nat
    BY <1>2, <2>1, <2>2 DEF BuildStep, IInv, TypeOK
  <2> QED
    BY <1>2, <2>1, <2>3, <2>4, FaultStep DEF BuildStep
<1> QED
  BY <1>1, <1>2

LEMMA EndTurnStep ==
    ASSUME turn \in Nat \ {0}, NEW stop, EndTurn(stop)
    PROVE  pc' \in {"loop", "close"} /\ turn' \in Nat \ {0}
BY DEF EndTurn

LEMMA AppendObservation ==
    ASSUME IInv, NEW candidate \in AnyCandidate, NEW latency \in AnyLatency
    PROVE  Append(observations, Observation(turn, tokens, candidate, latency))
              \in Seq(ObservationType)
<1>1. (latency > 0) \in BOOLEAN
  OBVIOUS
<1>2. Observation(turn, tokens, candidate, latency) \in ObservationType
  BY <1>1 DEF Observation, ObservationType, IInv, TypeOK
<1> QED
  BY <1>2 DEF IInv, TypeOK

(* A turn that ends before it measures anything. *)
LEMMA FilterNothingStep == IInv /\ (FilterEmpty \/ FilterAllRejected) => IInv'
<1> SUFFICES ASSUME IInv, FilterEmpty \/ FilterAllRejected PROVE IInv'
  OBVIOUS
<1>1. observations' \in Seq(ObservationType)
  <2>1. CASE FilterEmpty
    <3>1. NoCandidate \in AnyCandidate /\ 0 \in AnyLatency
      BY DEF AnyCandidate, AnyLatency
    <3> QED
      BY <2>1, <3>1, AppendObservation DEF FilterEmpty
  <2>2. CASE FilterAllRejected
    <3>1. built \in Seq(Row) /\ built # << >>
      BY <2>2 DEF FilterAllRejected, IInv, TypeOK
    <3>2. FilterOrder[1].candidate \in Candidates
      <4> DEFINE D == {n \in 1..Len(built) : ~built[n].launchable}
      <4>1. D = 1..Len(built)
        BY <2>2 DEF FilterAllRejected
      <4>2. D \in SUBSET (1..Len(built))
        OBVIOUS
      <4>3. Rejects \in Seq(Row) /\ Len(Rejects) = Cardinality(D)
        BY <3>1, <4>2, AtPositionsType DEF Rejects
      <4>4. Len(built) \in Nat \ {0}
        BY <3>1
      <4>5. Cardinality(D) = Len(built)
        <5>1. Cardinality(1..Len(built)) =
                 IF 1 > Len(built) THEN 0 ELSE Len(built) - 1 + 1
          BY <4>4, FS_Interval
        <5> HIDE DEF D
        <5> QED
          BY <4>1, <4>4, <5>1
      <4>6. Survivors = << >>
        <5> DEFINE E == {n \in 1..Len(built) : built[n].launchable}
        <5>1. E = {}
          BY <4>1
        <5>2. E \in SUBSET (1..Len(built))
          OBVIOUS
        <5>3. Survivors \in Seq(Row) /\ Len(Survivors) = Cardinality(E)
          BY <3>1, <5>2, AtPositionsType DEF Survivors
        <5>4. Len(Survivors) = 0
          BY <5>1, <5>3, FS_EmptySet
        <5> QED
          BY <5>3, <5>4
      <4>7. FilterOrder = Rejects
        BY <4>3, <4>6 DEF FilterOrder
      <4>8. 1 \in 1..Len(Rejects)
        <5> HIDE DEF D
        <5> QED
          BY <4>3, <4>4, <4>5
      <4>9. Rejects[1] \in Row
        BY <4>3, <4>8
      <4> QED
        BY <4>7, <4>9 DEF Row
    <3>3. FilterOrder[1].candidate \in AnyCandidate /\ 0 \in AnyLatency
      BY <3>2 DEF AnyCandidate, AnyLatency
    <3> QED
      BY <2>2, <3>3, AppendObservation DEF FilterAllRejected
  <2> QED
    BY <2>1, <2>2
<1>2. /\ pc = "build" /\ pc' \in {"loop", "close"} /\ turn' \in Nat \ {0}
      /\ UNCHANGED <<stage, clockVars, budgetVars, tokens, turnVars, active, source,
                     confirmation, outcomeVars>>
  BY EndTurnStep DEF FilterEmpty, FilterAllRejected, FilterReady, IInv, TypeOK
<1> USE <1>2 DEF clockVars, budgetVars, turnVars, outcomeVars
<1>3. TypeOK'
  BY <1>1 DEF IInv, TypeOK
<1>4. TurnReserved' /\ ConfirmationReserved'
  BY DEF IInv, TurnReserved, ConfirmationReserved, Room, InPhase
<1>5. InPhase' /\ WithinLimits'
  BY DEF IInv, InPhase, WithinLimits
<1> QED
  BY <1>3, <1>4, <1>5 DEF IInv

(* The turn's room shrinks to what its plan asks for. *)
LEMMA FilterSurvivorsStep == IInv /\ FilterSurvivors => IInv'
<1> SUFFICES ASSUME IInv, FilterSurvivors PROVE IInv'
  OBVIOUS
<1> USE DEF FilterSurvivors, FilterReady, clockVars, budgetVars, resultVars, outcomeVars
<1>1. built \in Seq(Row)
  BY DEF IInv, TypeOK
<1>2. /\ plan' \in Seq(Candidates) /\ Len(plan') <= SearchesPerTurn
      /\ plan' # << >>
  BY <1>1, FilterOrderType, SearchPlanFits, SurvivorIsPlanned
<1>3. TypeOK'
  BY <1>2 DEF IInv, TypeOK
<1>4. Room(Len(plan'), Len(plan'))
  <2>1. Room(SearchesPerTurn, SearchesPerTurn)
    BY DEF IInv, TurnReserved
  <2>2. Len(plan') \in Nat
    BY <1>2
  <2>3. /\ counts["search"] \in Nat /\ counts["attribution"] \in Nat
        /\ SearchesPerTurn \in Nat /\ SearchLimit \in Nat /\ AttributionLimit \in Nat
    BY BudgetAssumption DEF IInv, TypeOK, Purposes
  <2> QED
    BY <1>2, <2>1, <2>2, <2>3 DEF Room
<1>5. TurnReserved'
  BY <1>4 DEF IInv, TurnReserved, Room, InPhase
<1>6. ConfirmationReserved' /\ InPhase' /\ WithinLimits'
  BY <1>2 DEF IInv, ConfirmationReserved, InPhase, WithinLimits
<1> QED
  BY <1>3, <1>5, <1>6 DEF IInv

-------------------------------------------------------------------------------
(* Evaluations *)

(* What was reserved is enough: the invariant affords every Evaluation the *)
(* next step may begin.                                                    *)
LEMMA InvariantReserves == IInv => TurnReservation
<1> SUFFICES ASSUME IInv PROVE \A purpose \in NextPurpose : Affordable(purpose)
  BY DEF TurnReservation
<1>0. /\ \A purpose \in Purposes : counts[purpose] \in Nat
      /\ SearchLimit \in Nat \ {0} /\ ConfirmatoryLimit \in Nat \ {0}
      /\ AttributionLimit \in Nat \ {0}
      /\ "search" \in Purposes /\ "attribution" \in Purposes
      /\ "confirmatory" \in Purposes
  BY BudgetAssumption DEF IInv, TypeOK, Purposes
<1>1. CASE pc = "search" /\ plan # << >>
  <2>1. Len(plan) \in Nat \ {0}
    BY <1>1 DEF IInv, TypeOK
  <2>2. closedAt = {} /\ counts["search"] + Len(plan) <= SearchLimit
    BY <1>1 DEF IInv, InPhase, TurnReserved, Room
  <2>3. Affordable("search")
    BY <1>0, <2>1, <2>2 DEF Affordable, EvaluationLimit
  <2> QED
    BY <1>1, <2>3 DEF NextPurpose
<1>2. CASE pc = "profile"
  <2>1. Len(plan) \in Nat
    BY DEF IInv, TypeOK
  <2>2. counts["attribution"] < AttributionLimit
    <3>1. CASE source = 0
      BY <1>0, <1>2, <2>1, <3>1 DEF IInv, TurnReserved, Room
    <3>2. CASE source # 0
      BY <1>0, <1>2, <3>2 DEF IInv, ConfirmationReserved, ProfileEach
    <3> QED
      BY <3>1, <3>2
  <2>3. Affordable("attribution")
    BY <2>2 DEF Affordable, EvaluationLimit
  <2> QED
    BY <1>2, <2>3 DEF NextPurpose
<1>3. CASE pc = "confirm"
  <2>1. closedAt # {} /\ counts["confirmatory"] = 0
    BY <1>3 DEF IInv, InPhase, ConfirmationReserved
  <2>2. Affordable("confirmatory")
    BY <1>0, <2>1 DEF Affordable, EvaluationLimit
  <2> QED
    BY <1>3, <2>2 DEF NextPurpose
<1>4. CASE ~(pc = "search" /\ plan # << >>) /\ pc # "profile" /\ pc # "confirm"
  BY <1>4 DEF NextPurpose
<1> QED
  BY <1>1, <1>2, <1>3, <1>4

(* What beginning an affordable Evaluation leaves behind. *)
Began(purpose, candidate) ==
    /\ TypeOK' /\ WithinLimits'
    /\ counts' = [counts EXCEPT ![purpose] = @ + 1]
    /\ active' = {Invocation(purpose, candidate)}
    /\ Invocation(purpose, candidate).purpose = purpose
    /\ Invocation(purpose, candidate).candidate = candidate
    /\ pc' = "evaluate"
    /\ UNCHANGED <<turn, tokens, resultVars, outcomeVars, clockVars, compilations,
                   closedAt, turnVars>>

LEMMA BeginStep ==
    ASSUME IInv, NEW written, NEW purpose \in Purposes, NEW candidate \in AnyCandidate,
           Begin(written, purpose, candidate), Affordable(purpose)
    PROVE  Began(purpose, candidate)
<1> USE DEF clockVars, turnVars, resultVars, outcomeVars
<1>1. /\ counts' = [counts EXCEPT ![purpose] = @ + 1]
      /\ active' = {Invocation(purpose, candidate)}
      /\ stage' = "evaluation" /\ pc' = "evaluate"
      /\ UNCHANGED <<turn, tokens, resultVars, outcomeVars, clockVars,
                     compilations, closedAt, turnVars>>
  BY DEF Begin
<1>2. Invocation(purpose, candidate) \in Invocations
  <2>1. CASE source = 0
    BY <2>1 DEF IInv, TypeOK, Invocation, Origin, Invocations
  <2>2. CASE source # 0
    BY <2>2 DEF IInv, TypeOK, Invocation, Origin, Invocations
  <2> QED
    BY <2>1, <2>2
<1>3. counts' \in [Purposes -> Nat]
  BY <1>1 DEF IInv, TypeOK
<1>4. TypeOK'
  BY <1>1, <1>2, <1>3 DEF IInv, TypeOK, AtMostOne
<1>5. WithinLimits'
  <2> SUFFICES ASSUME NEW other \in Purposes
               PROVE  counts'[other] <= EvaluationLimit[other]
    BY DEF WithinLimits
  <2>1. CASE other = purpose
    <3>1. counts[purpose] \in Nat /\ EvaluationLimit[purpose] \in Nat
      BY BudgetAssumption, SMTT(30) DEF IInv, TypeOK, EvaluationLimit, Purposes
    <3>2. counts'[purpose] = counts[purpose] + 1
      BY <1>1 DEF IInv, TypeOK
    <3>3. counts[purpose] < EvaluationLimit[purpose]
      BY DEF Affordable
    <3> QED
      BY <2>1, <3>1, <3>2, <3>3
  <2>2. CASE other # purpose
    BY <1>1, <2>2 DEF IInv, TypeOK, WithinLimits
  <2> QED
    BY <2>1, <2>2
<1>6. /\ Invocation(purpose, candidate).purpose = purpose
      /\ Invocation(purpose, candidate).candidate = candidate
  BY DEF Invocation
<1> QED
  BY <1>1, <1>4, <1>5, <1>6 DEF Began

LEMMA StartSearchStep == IInv /\ StartSearch => IInv'
<1> SUFFICES ASSUME IInv, StartSearch PROVE IInv'
  OBVIOUS
<1>1. pc = "search" /\ plan # << >> /\ Begin(SealLaunchable, "search", plan[1])
  BY DEF StartSearch
<1>2. Affordable("search")
  BY <1>1, InvariantReserves DEF TurnReservation, NextPurpose
<1>3. plan[1] \in AnyCandidate /\ Len(plan) \in Nat \ {0}
  BY <1>1 DEF IInv, TypeOK, AnyCandidate
<1> DEFINE invocation == Invocation("search", plan[1])
<1>4. /\ TypeOK' /\ WithinLimits'
      /\ counts' = [counts EXCEPT !["search"] = @ + 1]
      /\ invocation.purpose = "search"
      /\ invocation.candidate = plan[1]
      /\ active' = {invocation} /\ pc' = "evaluate"
      /\ UNCHANGED <<turn, tokens, resultVars, outcomeVars, clockVars,
                     compilations, closedAt, turnVars>>
  <2>1. "search" \in Purposes
    BY DEF Purposes
  <2>2. Began("search", plan[1])
    BY <1>1, <1>2, <1>3, <2>1, BeginStep
  <2> QED
    BY <2>2 DEF Began
<1> HIDE DEF invocation
<1> USE DEF clockVars, turnVars, resultVars, outcomeVars
<1>5. /\ counts'["search"] = counts["search"] + 1
      /\ counts'["attribution"] = counts["attribution"]
      /\ counts'["confirmatory"] = counts["confirmatory"]
      /\ counts["search"] \in Nat /\ counts["attribution"] \in Nat
  BY <1>4 DEF IInv, TypeOK, Purposes
<1>6. TurnReserved'
  <2>1. Room(Len(plan), Len(plan))
    BY <1>1 DEF IInv, TurnReserved
  <2>2. Room(Len(plan) - 1, Len(plan))'
    BY <1>3, <1>4, <1>5, <2>1, BudgetAssumption DEF Room
  <2> QED
    BY <1>4, <2>2 DEF TurnReserved
<1>7. ConfirmationReserved'
  BY <1>1, <1>4, <1>5 DEF IInv, ConfirmationReserved, InPhase
<1>8. InPhase'
  BY <1>1, <1>4 DEF IInv, InPhase
<1> QED
  BY <1>4, <1>6, <1>7, <1>8 DEF IInv

LEMMA SealFaultStep == IInv /\ SealFault => IInv'
<1> SUFFICES ASSUME IInv, SealFault PROVE IInv'
  OBVIOUS
<1>1. /\ stage \in {"provider", "environment", "evaluation"}
      /\ elapsed' \in Nat /\ authoring' \in Nat /\ compilations' \in 0..MaximumCompilations
  BY DEF SealFault, clockVars, budgetVars, IInv, TypeOK
<1>2. FaultOf(stage) \in {"provider_fault", "harness_fault", "broker_fault"}
  BY <1>1, FaultOfType
<1> QED
  BY <1>1, <1>2, FaultStep DEF SealFault, clockVars, budgetVars, turnVars

LEMMA StartAttributionStep == IInv /\ StartAttribution => IInv'
<1> SUFFICES ASSUME IInv, StartAttribution PROVE IInv'
  OBVIOUS
<1>1. pc = "profile" /\ Begin(<< >>, "attribution", Profiled)
  BY DEF StartAttribution
<1>2. Affordable("attribution")
  BY <1>1, InvariantReserves DEF TurnReservation, NextPurpose
<1>3. Profiled \in AnyCandidate
  <2>1. CASE source = 0
    <3>1. searched \in Seq(Searches) /\ searched # << >>
      BY <1>1, <2>1 DEF IInv, TypeOK, InPhase
    <3>2. searched[Len(searched)] \in Searches
      BY <3>1
    <3> QED
      BY <2>1, <3>2 DEF Profiled, Searches, AnyCandidate
  <2>2. CASE source # 0
    <3>1. confirmation # {} /\ confirmation \subseteq ConfirmationType
      BY <1>1, <2>2 DEF IInv, TypeOK, ConfirmationReserved
    <3>2. (CHOOSE o \in confirmation : TRUE) \in ConfirmationType
      BY <3>1
    <3> QED
      BY <2>2, <3>2 DEF Profiled, ConfirmationType
  <2> QED
    BY <2>1, <2>2
<1> DEFINE invocation == Invocation("attribution", Profiled)
<1>4. /\ TypeOK' /\ WithinLimits'
      /\ counts' = [counts EXCEPT !["attribution"] = @ + 1]
      /\ invocation.purpose = "attribution"
      /\ invocation.candidate = Profiled
      /\ active' = {invocation} /\ pc' = "evaluate"
      /\ UNCHANGED <<turn, tokens, resultVars, outcomeVars, clockVars,
                     compilations, closedAt, turnVars>>
  <2>1. "attribution" \in Purposes
    BY DEF Purposes
  <2>2. Began("attribution", Profiled)
    BY <1>1, <1>2, <1>3, <2>1, BeginStep
  <2> QED
    BY <2>2 DEF Began
<1> HIDE DEF invocation
<1> USE DEF clockVars, turnVars, resultVars, outcomeVars
<1>5. /\ counts'["attribution"] = counts["attribution"] + 1
      /\ counts'["search"] = counts["search"]
      /\ counts'["confirmatory"] = counts["confirmatory"]
      /\ counts["attribution"] \in Nat /\ Len(plan) \in Nat
  BY <1>4 DEF IInv, TypeOK, Purposes
<1>6. TurnReserved'
  <2>1. source = 0 => ProfileEach /\ Room(Len(plan), Len(plan) + 1)
    BY <1>1 DEF IInv, TurnReserved
  <2>2. source = 0 => Room(Len(plan), Len(plan))'
    BY <1>4, <1>5, <2>1, BudgetAssumption DEF Room
  <2> QED
    BY <1>4, <2>1, <2>2 DEF TurnReserved
<1>7. ConfirmationReserved'
  BY <1>1, <1>4, <1>5 DEF IInv, ConfirmationReserved, InPhase, TurnReserved
<1>8. InPhase'
  BY <1>1, <1>4 DEF IInv, InPhase
<1> QED
  BY <1>4, <1>6, <1>7, <1>8 DEF IInv

LEMMA StartConfirmationStep == IInv /\ StartConfirmation => IInv'
<1> SUFFICES ASSUME IInv, StartConfirmation PROVE IInv'
  OBVIOUS
<1>1. PICK i \in 1..Len(observations) :
         Begin(<< >>, "confirmatory", observations[i].candidate)
  BY DEF StartConfirmation
<1>2. pc = "confirm" /\ Affordable("confirmatory")
  BY InvariantReserves DEF StartConfirmation, TurnReservation, NextPurpose
<1>3. observations[i].candidate \in AnyCandidate
  <2>1. observations[i] \in ObservationType
    BY DEF IInv, TypeOK
  <2> QED
    BY <2>1 DEF ObservationType
<1> DEFINE invocation == Invocation("confirmatory", observations[i].candidate)
<1>4. /\ TypeOK' /\ WithinLimits'
      /\ counts' = [counts EXCEPT !["confirmatory"] = @ + 1]
      /\ invocation.purpose = "confirmatory"
      /\ invocation.candidate = observations[i].candidate
      /\ active' = {invocation} /\ pc' = "evaluate"
      /\ UNCHANGED <<turn, tokens, resultVars, outcomeVars, clockVars,
                     compilations, closedAt, turnVars>>
  <2>1. "confirmatory" \in Purposes
    BY DEF Purposes
  <2>2. Began("confirmatory", observations[i].candidate)
    BY <1>1, <1>2, <1>3, <2>1, BeginStep
  <2> QED
    BY <2>2 DEF Began
<1> HIDE DEF invocation
<1> USE DEF clockVars, turnVars, resultVars, outcomeVars
<1>5. counts'["attribution"] = counts["attribution"]
  BY <1>4 DEF IInv, TypeOK, Purposes
<1>6. TurnReserved' /\ ConfirmationReserved' /\ InPhase'
  BY <1>2, <1>4, <1>5 DEF IInv, TurnReserved, ConfirmationReserved, InPhase
<1> QED
  BY <1>4, <1>6 DEF IInv

(* An answered Evaluation changes the clock and the ledger, and what each  *)
(* purpose adds.                                                           *)
LEMMA AnswerFacts ==
    ASSUME IInv, NEW invocation, NEW receipt, Answer(invocation, receipt)
    PROVE  /\ pc = "evaluate" /\ active = {invocation} /\ active' = {}
           /\ elapsed' \in Nat
           /\ UNCHANGED <<turn, stage, authoring, budgetVars, tokens, resolved, built,
                          observations, source, outcomeVars>>
<1>1. PICK duration \in Durations :
         /\ pc = "evaluate" /\ active = {invocation} /\ active' = {}
         /\ elapsed' = elapsed + duration
         /\ UNCHANGED <<turn, stage, authoring, budgetVars, tokens, resolved, built,
                        observations, source, outcomeVars>>
  BY DEF Answer
<1>2. duration \in Nat
  BY InputAssumption
<1> QED
  BY <1>1, <1>2 DEF IInv, TypeOK

LEMMA AnswerSearchStep == IInv /\ AnswerSearch => IInv'
<1> SUFFICES ASSUME IInv, AnswerSearch PROVE IInv'
  OBVIOUS
<1>1. PICK invocation \in active, receipt \in Receipts :
         /\ invocation.purpose = "search"
         /\ Answer(invocation, receipt)
         /\ searched' = Append(searched, [candidate |-> invocation.candidate,
                                          receipt |-> receipt])
         /\ plan' = Tail(plan)
         /\ pc' = IF ProfileEach /\ receipt.correct THEN "profile" ELSE "search"
         /\ UNCHANGED confirmation
  BY DEF AnswerSearch
<1>2. /\ pc = "evaluate" /\ active = {invocation} /\ active' = {}
      /\ elapsed' \in Nat
      /\ UNCHANGED <<turn, stage, authoring, budgetVars, tokens, resolved, built,
                     observations, source, outcomeVars>>
  BY <1>1, AnswerFacts
<1> USE DEF budgetVars, outcomeVars
<1>3. source = 0 /\ plan # << >> /\ Room(Len(plan) - 1, Len(plan))
  BY <1>1 DEF IInv, InPhase, TurnReserved
<1>4. plan' \in Seq(Candidates) /\ Len(plan') = Len(plan) - 1 /\ Len(plan) \in Nat
  BY <1>1, <1>3 DEF IInv, TypeOK
<1>5. searched' \in Seq(Searches) /\ searched' # << >>
  <2>1. invocation.candidate \in Candidates
    <3>1. plan \in Seq(Candidates) /\ Len(plan) # 0
      BY <1>3 DEF IInv, TypeOK
    <3>2. plan[1] \in Candidates
      BY <3>1
    <3>3. invocation.candidate = plan[1]
      BY <1>1 DEF IInv, InPhase
    <3> QED
      BY <3>2, <3>3
  <2>2. [candidate |-> invocation.candidate, receipt |-> receipt] \in Searches
    BY <2>1 DEF Searches
  <2> QED
    BY <1>1, <2>2, SMTT(30) DEF IInv, TypeOK
<1>6. TypeOK'
  BY <1>1, <1>2, <1>4, <1>5 DEF IInv, TypeOK, AtMostOne
<1>7. TurnReserved'
  <2>1. Room(Len(plan), Len(plan))'
    <3>1. counts["search"] \in Nat /\ counts["attribution"] \in Nat
      BY DEF IInv, TypeOK, Purposes
    <3>2. SearchLimit \in Nat /\ AttributionLimit \in Nat
      BY BudgetAssumption
    <3>3. /\ counts["search"] + Len(plan') <= SearchLimit
          /\ ProfileEach => counts["attribution"] + Len(plan') <= AttributionLimit
      BY <1>3, <1>4, <3>1, <3>2 DEF Room
    <3> QED
      BY <1>2, <3>3 DEF Room
  <2>2. Room(Len(plan), Len(plan) + 1)'
    BY <1>2, <1>3, <1>4 DEF Room
  <2> QED
    BY <1>1, <1>2, <1>4, <2>1, <2>2 DEF TurnReserved
<1>8. ConfirmationReserved' /\ InPhase' /\ WithinLimits'
  BY <1>1, <1>2, <1>3, <1>5 DEF IInv, ConfirmationReserved, InPhase, WithinLimits
<1> QED
  BY <1>6, <1>7, <1>8 DEF IInv

LEMMA AnswerConfirmationStep == IInv /\ AnswerConfirmation => IInv'
<1> SUFFICES ASSUME IInv, AnswerConfirmation PROVE IInv'
  OBVIOUS
<1>1. PICK invocation \in active, receipt \in Receipts :
         /\ invocation.purpose = "confirmatory"
         /\ Answer(invocation, receipt)
         /\ confirmation' = {Confirmation(source, invocation.candidate, tokens,
                                          receipt.latency)}
         /\ pc' = IF Attribution = "selected" /\ Qualifies(receipt) THEN "profile"
                  ELSE "seal"
         /\ UNCHANGED <<plan, searched>>
  BY DEF AnswerConfirmation
<1>2. /\ pc = "evaluate" /\ active = {invocation} /\ active' = {}
      /\ elapsed' \in Nat
      /\ UNCHANGED <<turn, stage, authoring, budgetVars, tokens, resolved, built,
                     observations, source, outcomeVars>>
  BY <1>1, AnswerFacts
<1> USE DEF budgetVars, outcomeVars
<1>3. source # 0 /\ closedAt # {}
  BY <1>1 DEF IInv, InPhase
<1>4. Confirmation(source, invocation.candidate, tokens, receipt.latency)
         \in ConfirmationType
  <2>1. receipt.latency \in AnyLatency
    BY DEF Receipts, AnyLatency
  <2>2. invocation.candidate \in AnyCandidate
    BY <1>1 DEF IInv, TypeOK, Invocations
  <2> QED
    BY <1>3, <2>1, <2>2 DEF Confirmation, ConfirmationType, IInv, TypeOK
<1>5. TypeOK'
  BY <1>1, <1>2, <1>4 DEF IInv, TypeOK, AtMostOne
<1>6. TurnReserved' /\ ConfirmationReserved'
  BY <1>1, <1>2, <1>3 DEF IInv, TurnReserved, ConfirmationReserved, ProfileEach
<1>7. InPhase' /\ WithinLimits'
  BY <1>1, <1>2, <1>3 DEF IInv, InPhase, WithinLimits
<1> QED
  BY <1>5, <1>6, <1>7 DEF IInv

LEMMA AnswerAttributionStep == IInv /\ AnswerAttribution => IInv'
<1> SUFFICES ASSUME IInv, AnswerAttribution PROVE IInv'
  OBVIOUS
<1>1. PICK invocation \in active :
         /\ invocation.purpose = "attribution"
         /\ Answer(invocation, [correct |-> TRUE, latency |-> 0])
         /\ pc' = IF source = 0 THEN "search" ELSE "seal"
         /\ UNCHANGED <<plan, searched, confirmation>>
  BY DEF AnswerAttribution
<1>2. /\ pc = "evaluate" /\ active = {invocation} /\ active' = {}
      /\ elapsed' \in Nat
      /\ UNCHANGED <<turn, stage, authoring, budgetVars, tokens, resolved, built,
                     observations, source, outcomeVars>>
  BY <1>1, AnswerFacts
<1> USE DEF budgetVars, outcomeVars
<1>3. TypeOK'
  BY <1>1, <1>2 DEF IInv, TypeOK, AtMostOne
<1>4. TurnReserved' /\ ConfirmationReserved'
  BY <1>1, <1>2 DEF IInv, TurnReserved, ConfirmationReserved, Room, InPhase
<1>5. InPhase' /\ WithinLimits'
  BY <1>1, <1>2 DEF IInv, InPhase, WithinLimits
<1> QED
  BY <1>3, <1>4, <1>5 DEF IInv

LEMMA EvaluationFaultStep == IInv /\ EvaluationFault => IInv'
<1> SUFFICES ASSUME IInv, EvaluationFault PROVE IInv'
  OBVIOUS
<1>1. PICK invocation \in active, duration \in Durations :
         /\ elapsed' = elapsed + duration
         /\ \/ \E fault \in {"broker_fault", "harness_fault"} :
                  RecordFault(<< >>, "evaluation", fault, 0)
            \/ \E answered \in BOOLEAN :
                  RecordFault(<<CompletedEvent(invocation, answered)>>,
                              "evaluation", "broker_fault", 0)
  BY DEF EvaluationFault
<1>2. /\ elapsed' \in Nat /\ authoring' \in Nat /\ compilations' \in 0..MaximumCompilations
      /\ UNCHANGED <<counts, closedAt, resolved, built, plan, searched>>
  BY <1>1, InputAssumption DEF EvaluationFault, budgetVars, turnVars, IInv, TypeOK
<1> QED
  BY <1>1, <1>2, FaultStep

LEMMA SelectCandidateStep == IInv /\ SelectCandidate => IInv'
<1> SUFFICES ASSUME IInv, SelectCandidate PROVE IInv'
  OBVIOUS
<1>1. /\ pc = "search" /\ plan = << >>
      /\ observations' = Append(observations,
            Observation(turn, tokens, searched[BestSearch(searched)].candidate,
                        searched[BestSearch(searched)].receipt.latency))
      /\ EndTurn(TokensSpent)
      /\ UNCHANGED <<stage, clockVars, budgetVars, tokens, turnVars, active, source,
                     confirmation, outcomeVars>>
  BY DEF SelectCandidate
<1>2. searched \in Seq(Searches) /\ searched # << >>
  BY <1>1 DEF IInv, TypeOK, InPhase
<1>3. searched[BestSearch(searched)] \in Searches
  BY <1>2, BestSearchType
<1>4. /\ searched[BestSearch(searched)].candidate \in AnyCandidate
      /\ searched[BestSearch(searched)].receipt \in Receipts
  BY <1>3 DEF Searches, AnyCandidate
<1>5. searched[BestSearch(searched)].receipt.latency \in AnyLatency
  BY <1>4 DEF Receipts, AnyLatency
<1>6. observations' \in Seq(ObservationType)
  BY <1>1, <1>4, <1>5, AppendObservation
<1>7. pc' \in {"loop", "close"} /\ turn' \in Nat \ {0}
  BY <1>1, EndTurnStep DEF IInv, TypeOK
<1> USE DEF clockVars, budgetVars, turnVars, outcomeVars
<1>8. TypeOK'
  BY <1>1, <1>6, <1>7 DEF IInv, TypeOK
<1>9. TurnReserved' /\ ConfirmationReserved'
  BY <1>1, <1>7 DEF IInv, TurnReserved, ConfirmationReserved, Room, InPhase
<1>10. InPhase' /\ WithinLimits'
  BY <1>1, <1>7 DEF IInv, InPhase, WithinLimits
<1> QED
  BY <1>8, <1>9, <1>10 DEF IInv

-------------------------------------------------------------------------------
(* Closing *)

LEMMA CloseSearchStep == IInv /\ CloseSearch => IInv'
<1> SUFFICES ASSUME IInv, CloseSearch PROVE IInv'
  OBVIOUS
<1>1. PICK duration \in Durations :
        /\ pc = "close"
        /\ elapsed' = elapsed + duration
        /\ UNCHANGED <<authoring, counts, compilations, turnVars>>
        /\ IF CloseReason(elapsed') = "none"
           THEN RecordFault(<< >>, stage, FaultOf(stage), 0) /\ UNCHANGED closedAt
           ELSE /\ reason' = CloseReason(elapsed')
                /\ closedAt' = {Rounded(elapsed')}
                /\ \/ /\ Nominee(observations) = {}
                      /\ source' = 0 /\ pc' = "seal"
                   \/ \E nominee \in Nominee(observations) :
                         source' = nominee.turn /\ pc' = "confirm"
                /\ UNCHANGED <<turn, stage, tokens, active, observations,
                               confirmation, adherence>>
  BY DEF CloseSearch
<1>2. /\ elapsed' \in Nat /\ authoring' \in Nat /\ compilations' \in 0..MaximumCompilations
      /\ stage \in {"provider", "environment", "evaluation"}
  BY <1>1, InputAssumption DEF IInv, TypeOK
<1>3. CASE CloseReason(elapsed') = "none"
  <2>1. FaultOf(stage) \in {"provider_fault", "harness_fault", "broker_fault"}
    BY <1>2, FaultOfType
  <2> QED
    BY <1>1, <1>2, <1>3, <2>1, FaultStep DEF turnVars
<1>4. CASE CloseReason(elapsed') # "none"
  <2>1. Rounded(elapsed') \in Nat
    BY <1>2, RoundedType
  <2>2. CloseReason(elapsed') \in {"none"} \cup Range(StopReasons)
    BY StopReasonType DEF CloseReason
  <2>3. \/ source' = 0 /\ pc' = "seal"
        \/ source' \in Nat \ {0} /\ pc' = "confirm"
    <3>1. \A nominee \in Nominee(observations) : nominee.turn \in Nat \ {0}
      BY NomineeType DEF IInv, TypeOK, ObservationType
    <3> QED
      BY <1>1, <1>4, <3>1
  <2> USE DEF turnVars
  <2>4. TypeOK'
    BY <1>1, <1>2, <1>4, <2>1, <2>2, <2>3 DEF IInv, TypeOK, AtMostOne
  <2>5. closedAt = {} /\ active = {}
    BY <1>1 DEF IInv, InPhase
  <2>6. TurnReserved' /\ ConfirmationReserved'
    BY <1>1, <1>4, <2>3, <2>5 DEF IInv, TurnReserved, ConfirmationReserved
  <2>7. InPhase' /\ WithinLimits'
    BY <1>1, <1>4, <2>3, <2>5 DEF IInv, InPhase, WithinLimits
  <2> QED
    BY <2>4, <2>6, <2>7 DEF IInv
<1> QED
  BY <1>3, <1>4

LEMMA SealRunStep == IInv /\ SealRun => IInv'
<1> SUFFICES ASSUME IInv, SealRun PROVE IInv'
  OBVIOUS
<1>1. PICK duration \in Durations :
        /\ pc = "seal" /\ elapsed' = elapsed + duration /\ pc' = "sealed"
        /\ UNCHANGED <<turn, stage, authoring, budgetVars, tokens, turnVars, active,
                       resultVars, outcomeVars>>
  BY DEF SealRun
<1> USE DEF budgetVars, turnVars, resultVars, outcomeVars
<1>2. TypeOK'
  BY <1>1, InputAssumption DEF IInv, TypeOK
<1>3. TurnReserved' /\ ConfirmationReserved'
  BY <1>1 DEF IInv, TurnReserved, ConfirmationReserved, InPhase
<1>4. InPhase' /\ WithinLimits'
  BY <1>1 DEF IInv, InPhase, WithinLimits
<1> QED
  BY <1>2, <1>3, <1>4 DEF IInv

LEMMA StutterStep == IInv /\ UNCHANGED vars => IInv'
<1> USE DEF vars, clockVars, budgetVars, turnVars, resultVars, outcomeVars
<1>1. TypeOK /\ UNCHANGED vars => TypeOK'
  BY DEF TypeOK
<1>2. TurnReserved /\ ConfirmationReserved /\ UNCHANGED vars
         => TurnReserved' /\ ConfirmationReserved'
  BY DEF TurnReserved, ConfirmationReserved, Room
<1>3. InPhase /\ WithinLimits /\ UNCHANGED vars => InPhase' /\ WithinLimits'
  BY DEF InPhase, WithinLimits
<1> QED
  BY <1>1, <1>2, <1>3 DEF IInv

LEMMA NextInvariant == IInv /\ [Next]_vars => IInv'
<1> SUFFICES ASSUME IInv, [Next]_vars PROVE IInv'
  OBVIOUS
<1>1. CASE Authoring
  BY <1>1, AuthorStep, ResolveStep DEF Authoring
<1>2. CASE Building
  BY <1>2, BuildStepStep, FilterNothingStep, FilterSurvivorsStep DEF Building
<1>3. CASE Evaluating
  BY <1>3, StartSearchStep, SealFaultStep, StartAttributionStep, StartConfirmationStep,
     AnswerSearchStep, AnswerConfirmationStep, AnswerAttributionStep,
     EvaluationFaultStep, SelectCandidateStep
     DEF Evaluating
<1>4. CASE Closing
  BY <1>4, StopSearchStep, CloseSearchStep, SealRunStep DEF Closing
<1>5. CASE UNCHANGED vars
  BY <1>5, StutterStep
<1> QED
  BY <1>1, <1>2, <1>3, <1>4, <1>5 DEF Next

(* The state of a Run is typed at every step, for every frozen budget and  *)
(* protocol (execution.py, _execute_run).                                  *)
THEOREM RunTyped == Spec => []TypeOK
<1>1. IInv => TypeOK
  BY DEF IInv
<1> QED
  BY InitInvariant, NextInvariant, <1>1, PTL DEF Spec

(* No Evaluation a Run asks for is refused by its budget: the stop rule    *)
(* reserves what a turn may use, and the nominee's confirmation is always  *)
(* left (ralph.py 105-120 and 212-221).                                    *)
THEOREM RunReserves == Spec => []TurnReservation
BY InitInvariant, NextInvariant, InvariantReserves, PTL DEF Spec

(* Hence no limit on Evaluations is ever passed.                           *)
THEOREM RunWithinLimits == Spec => []WithinLimits
<1>1. IInv => WithinLimits
  BY DEF IInv
<1> QED
  BY InitInvariant, NextInvariant, <1>1, PTL DEF Spec

-------------------------------------------------------------------------------
(* Turns, nomination and ledger *)

(* The author's turn is paid for and its observation not yet made. *)
Measuring == pc \in {"resolve", "build", "search"}
             \/ (source = 0 /\ pc \in {"evaluate", "profile"})

(* The nominee's measurement is in flight. *)
Confirming == \E invocation \in active : invocation.purpose = "confirmatory"

(* The observations are the completed turns, in order. *)
Turned ==
    /\ \A i \in 1..Len(observations) :
          /\ observations[i].turn = i /\ observations[i].tokens <= tokens
          /\ observations[i].qualified => observations[i].candidate \in Candidates
    /\ pc = "loop" \/ Measuring => Len(observations) = turn - 1
    /\ Measuring => \A i \in 1..Len(observations) : observations[i].tokens < tokens

(* The loop has left search on a clock that rounding takes below its limit.*)
Short == \/ RoundedShort(elapsed, SearchWall) \/ RoundedShort(authoring, AuthoringLimit)

Declared ==
    pc = "close" => \/ Short /\ Len(observations) + 1 = turn
                    \/ \A delay \in Nat : CloseReason(elapsed + delay) # "none"

(* Only the nominee is measured again, once, and a Run that adhered is not *)
(* sealed before it was.                                                   *)
Nominated ==
    /\ source # 0 => /\ source \in 1..Len(observations)
                     /\ observations[source] \in Nominee(observations)
    /\ pc = "confirm" \/ Confirming => confirmation = {}
    /\ \A c \in confirmation : source # 0 /\ c.candidate = observations[source].candidate
    /\ \A invocation \in active :
          /\ invocation.purpose = "confirmatory" =>
                invocation.candidate = observations[source].candidate
          /\ invocation.purpose = "attribution" /\ source # 0 => confirmation # {}
    /\ Confirming \/ confirmation # {} => counts["confirmatory"] = 1
    /\ pc = "seal" /\ adherence = "adhered" =>
          closedAt # {} /\ (source = 0 \/ confirmation # {})

IsSequence(s) == \E S : s \in Seq(S)

(* The ledger tells when search closed and what was confirmed. *)
Recorded ==
    /\ IsSequence(ledger)
    /\ closedAt = {} => At(ledger, "search_completed") = {}
    /\ closedAt # {} => \E i \in DOMAIN ledger :
          At(ledger, "search_completed") = {i} /\ ledger[i].state.elapsed \in closedAt
    /\ confirmation = {} => ConfirmationsAt(ledger) = {}
    /\ \A c \in confirmation : \E i \in DOMAIN ledger :
          /\ ConfirmationsAt(ledger) = {i} /\ ledger[i].candidate = c.candidate
          /\ ledger[i].receipt.latency = c.latency
    /\ pc = "sealed" => Terminal(ledger).endpoint =
          Endpoint(tokens, adherence, reason, confirmation,
                   RalphState(elapsed, closedAt, reason).exceeded)

JInv == Turned /\ Declared /\ Nominated /\ Recorded

-------------------------------------------------------------------------------
(* Rounding and the stop rule *)

LEMMA TimesMonotone ==
    ASSUME NEW a \in Nat, NEW b \in Nat, NEW c \in Nat, a <= b
    PROVE  c * a <= c * b
<1>1. PICK d \in Nat : b = a + d
  <2>1. b - a \in Nat /\ b = a + (b - a)
    OBVIOUS
  <2> QED
    BY <2>1
<1>2. c * (a + d) = c * a + c * d /\ c * d \in Nat /\ c * a \in Nat
  OBVIOUS
<1> QED
  BY <1>1, <1>2

(* A limit that is a whole number of grid units and is reached stays       *)
(* reached once rounded, however much later.                               *)
LEMMA RoundedReaches ==
    ASSUME NEW wall \in {SearchWall, ConfirmationWall, AuthoringLimit},
           wall % Grid = 0, NEW time \in Nat, time >= wall
    PROVE  Rounded(time) >= wall
<1>1. Grid \in Nat \ {0} /\ wall \in Nat /\ wall % Grid = 0
  BY BudgetAssumption, GridAssumption
<1>2. PICK k \in Nat : wall = Grid * k
  <2>1. wall = Grid * (wall \div Grid) + (wall % Grid) /\ wall \div Grid \in Nat
    BY <1>1
  <2> QED
    BY <1>1, <2>1
<1> DEFINE n == 2 * time + Grid
           m == 2 * Grid
           q == n \div m
<1>3. n \in Nat /\ m \in Nat \ {0}
  BY <1>1
<1>4. q \in Nat /\ n = m * q + (n % m) /\ n % m \in Nat /\ n % m < m
  <2> HIDE DEF n, m
  <2> QED
    BY <1>3
<1>5. m * k <= n
  BY <1>1, <1>2
<1> HIDE DEF n, m, q
<1>6. m * k < m * (q + 1)
  <2>1. m * (q + 1) = m * q + m
    BY <1>3, <1>4
  <2>2. m * q \in Nat /\ m * k \in Nat
    BY <1>3, <1>4
  <2> QED
    BY <1>3, <1>4, <1>5, <2>1, <2>2
<1>7. k <= q
  <2> SUFFICES ASSUME ~(k <= q) PROVE FALSE
    OBVIOUS
  <2>1. q + 1 \in Nat /\ q + 1 <= k
    BY <1>4
  <2>2. m * (q + 1) <= m * k
    BY <1>3, <2>1, TimesMonotone
  <2>3. m * (q + 1) \in Nat /\ m * k \in Nat
    BY <1>3, <1>4
  <2> QED
    BY <1>6, <2>2, <2>3
<1>8. Grid * k <= Grid * q
  BY <1>1, <1>4, <1>7, TimesMonotone
<1>9. Rounded(time) = Grid * q
  BY DEF Rounded, q, n, m
<1> QED
  BY <1>2, <1>8, <1>9

LEMMA RoundedGrows ==
    ASSUME NEW a \in Nat, NEW b \in Nat, a <= b
    PROVE  Rounded(a) \in Nat /\ Rounded(b) \in Nat /\ Rounded(a) <= Rounded(b)
<1>1. Grid \in Nat \ {0}
  BY BudgetAssumption
<1> DEFINE n == 2 * a + Grid
           k == 2 * b + Grid
           m == 2 * Grid
           q == n \div m
           r == k \div m
<1>2. n \in Nat /\ k \in Nat /\ m \in Nat \ {0} /\ n <= k
  BY <1>1
<1> HIDE DEF n, k, m
<1>3. q \in Nat /\ n = m * q + (n % m) /\ n % m \in Nat /\ n % m < m
  BY <1>2
<1>4. r \in Nat /\ k = m * r + (k % m) /\ k % m \in Nat /\ k % m < m
  BY <1>2
<1> HIDE DEF q, r
<1>5. q <= r
  <2> SUFFICES ASSUME ~(q <= r) PROVE FALSE
    OBVIOUS
  <2>1. r + 1 \in Nat /\ r + 1 <= q
    BY <1>3, <1>4
  <2>2. m * (r + 1) <= m * q
    BY <1>2, <1>3, <2>1, TimesMonotone
  <2>3. m * (r + 1) = m * r + m /\ m * r \in Nat /\ m * q \in Nat
    BY <1>2, <1>3, <1>4
  <2> QED
    BY <1>2, <1>3, <1>4, <2>2, <2>3
<1>6. Grid * q <= Grid * r
  BY <1>1, <1>3, <1>4, <1>5, TimesMonotone
<1>7. Rounded(a) = Grid * q /\ Rounded(b) = Grid * r
  BY DEF Rounded, q, r, n, k, m
<1> QED
  BY <1>6, <1>7, RoundedType

(* The rule answers "none" only when none of the six reasons holds. *)
LEMMA StopReasonNone ==
    ASSUME NEW turns, NEW spent, NEW at, NEW active_, NEW used, NEW permits,
           NEW i \in 1..6,
           StopHolds(turns, spent, at, active_, used, permits)[StopReasons[i]]
    PROVE  StopReason(turns, spent, at, active_, used, permits) # "none"
<1> DEFINE holds == StopHolds(turns, spent, at, active_, used, permits)
           hit == {j \in 1..Len(StopReasons) : holds[StopReasons[j]]}
<1>1. Len(StopReasons) = 6 /\ \A j \in 1..6 : StopReasons[j] # "none"
  BY DEF StopReasons
<1> HIDE DEF holds
<1>2. i \in hit /\ hit \in SUBSET (1..6)
  BY <1>1 DEF holds
<1>3. Min(hit) \in 1..6
  BY <1>2, FirstReason
<1>4. StopReason(turns, spent, at, active_, used, permits) = StopReasons[Min(hit)]
  BY <1>2 DEF StopReason, holds
<1> QED
  BY <1>1, <1>3, <1>4

LEMMA StopReasonGiven ==
    ASSUME NEW turns, NEW spent, NEW at, NEW active_, NEW used, NEW permits,
           StopReason(turns, spent, at, active_, used, permits) # "none"
    PROVE  \E i \in 1..6 :
              StopHolds(turns, spent, at, active_, used, permits)[StopReasons[i]]
<1>1. Len(StopReasons) = 6
  BY DEF StopReasons
<1> QED
  BY <1>1 DEF StopReason

LEMMA NextIterationType ==
    ASSUME NEW n \in Nat, NEW rows, Len(rows) = n
    PROVE  /\ NextIteration(rows) \in Nat /\ NextIteration(rows) <= n + 1
           /\ n >= MaximumTurns => NextIteration(rows) > MaximumTurns
<1> DEFINE S == {MaximumTurns + 1, n + 1}
<1>1. MaximumTurns \in Nat
  BY BudgetAssumption
<1>2. Min(S) \in S /\ \A y \in S : Min(S) <= y
  BY <1>1, SmallestNat
<1>3. NextIteration(rows) = Min(S)
  BY DEF NextIteration
<1> HIDE DEF S
<1>4. NextIteration(rows) \in {MaximumTurns + 1, n + 1} /\ NextIteration(rows) <= n + 1
  BY <1>2, <1>3 DEF S
<1> QED
  BY <1>1, <1>4

(* What held for the loop, on the raw clocks and its own turn number,      *)
(* holds for the close on rounded clocks and the number of observations.   *)
LEMMA StopStands ==
    ASSUME TypeOK, NEW i \in 1..6, NEW rows, Len(rows) \in Nat, Len(rows) + 1 = turn,
           StopHolds(turn, tokens, elapsed, authoring, counts, compilations)[StopReasons[i]],
           ~Short, NEW delay \in Nat
    PROVE  StopReason(NextIteration(rows), tokens, Rounded(elapsed + delay),
                      Rounded(authoring), counts, compilations) # "none"
<1> DEFINE early == StopHolds(turn, tokens, elapsed, authoring, counts, compilations)
           late == StopHolds(NextIteration(rows), tokens, Rounded(elapsed + delay),
                             Rounded(authoring), counts, compilations)
<1>1. late[StopReasons[i]]
  <2>1. elapsed \in Nat /\ authoring \in Nat /\ elapsed + delay \in Nat
    BY DEF TypeOK
  <2>2. SearchWall \in Nat /\ AuthoringLimit \in Nat /\ MaximumTurns \in Nat
    BY GridAssumption, BudgetAssumption
  <2>3. StopReasons[i] \in {"provider_token_limit", "maximum_turns", "wall_time_limit",
                            "active_authoring_time_limit", "compilation_budget",
                            "evaluation_budget"}
    BY DEF StopReasons
  <2>4. early["maximum_turns"] => late["maximum_turns"]
    <3>1. turn > MaximumTurns => NextIteration(rows) > MaximumTurns
      BY <2>2, NextIterationType
    <3> QED
      BY <3>1 DEF StopHolds
  <2>5. early["wall_time_limit"] => late["wall_time_limit"]
    <3>1. elapsed >= SearchWall => Rounded(elapsed + delay) >= SearchWall
      <4>1. elapsed <= elapsed + delay
        BY <2>1
      <4>2. Rounded(elapsed) <= Rounded(elapsed + delay)
            /\ Rounded(elapsed) \in Nat /\ Rounded(elapsed + delay) \in Nat
        BY <2>1, <4>1, RoundedGrows
      <4>3. elapsed >= SearchWall => ~(Rounded(elapsed) < SearchWall)
        BY DEF Short, RoundedShort
      <4> QED
        BY <2>2, <4>2, <4>3
    <3> QED
      BY <3>1 DEF StopHolds
  <2>6. early["active_authoring_time_limit"] => late["active_authoring_time_limit"]
    <3>1. authoring >= AuthoringLimit => Rounded(authoring) >= AuthoringLimit
      <4>1. authoring >= AuthoringLimit => ~(Rounded(authoring) < AuthoringLimit)
        BY DEF Short, RoundedShort
      <4> QED
        BY <2>1, <2>2, <4>1, RoundedGrows
    <3> QED
      BY <3>1 DEF StopHolds
  <2>7. /\ early["provider_token_limit"] => late["provider_token_limit"]
        /\ early["compilation_budget"] => late["compilation_budget"]
        /\ early["evaluation_budget"] => late["evaluation_budget"]
    BY DEF StopHolds
  <2> HIDE DEF early, late
  <2>8. early[StopReasons[i]]
    BY DEF early
  <2> QED
    BY <2>3, <2>4, <2>5, <2>6, <2>7, <2>8
<1> QED
  BY <1>1, StopReasonNone

-------------------------------------------------------------------------------
(* The ledger grows by sequences *)

LEMMA SequenceFacts ==
    ASSUME NEW s, IsSequence(s)
    PROVE  Len(s) \in Nat /\ DOMAIN s = 1..Len(s)
BY DEF IsSequence

LEMMA FunctionIsSequence ==
    ASSUME NEW n \in Nat, NEW f, f = [k \in 1..n |-> f[k]]
    PROVE  IsSequence(f) /\ Len(f) = n
<1> DEFINE S == {f[k] : k \in 1..n}
<1>1. f \in [1..n -> S]
  OBVIOUS
<1>2. f \in Seq(S)
  BY <1>1
<1>3. Len(f) = n
  BY <1>1, <1>2, LenProperties
<1> QED
  BY <1>2, <1>3 DEF IsSequence

LEMMA ConcatIsSequence ==
    ASSUME NEW s, NEW t, IsSequence(s), IsSequence(t)
    PROVE  /\ IsSequence(s \o t) /\ Len(s \o t) = Len(s) + Len(t)
           /\ DOMAIN (s \o t) = 1..(Len(s) + Len(t))
           /\ \A i \in 1..Len(s) : (s \o t)[i] = s[i]
           /\ \A i \in 1..Len(t) : (s \o t)[Len(s) + i] = t[i]
<1>1. PICK S : s \in Seq(S)
  BY DEF IsSequence
<1>2. PICK T : t \in Seq(T)
  BY DEF IsSequence
<1>3. s \in Seq(S \cup T) /\ t \in Seq(S \cup T)
  BY <1>1, <1>2, SeqMonotonic
<1>4. /\ s \o t \in Seq(S \cup T) /\ Len(s \o t) = Len(s) + Len(t)
      /\ \A i \in 1..(Len(s) + Len(t)) : (s \o t)[i] =
            IF i <= Len(s) THEN s[i] ELSE t[i - Len(s)]
  BY <1>3, ConcatProperties
<1>5. Len(s) \in Nat /\ Len(t) \in Nat
  BY <1>3
<1>6. DOMAIN (s \o t) = 1..(Len(s) + Len(t))
  BY <1>4
<1>7. ASSUME NEW i \in 1..Len(t) PROVE (s \o t)[Len(s) + i] = t[i]
  <2>1. /\ Len(s) + i \in 1..(Len(s) + Len(t)) /\ ~(Len(s) + i <= Len(s))
        /\ (Len(s) + i) - Len(s) = i
    BY <1>5
  <2> QED
    BY <1>4, <2>1
<1>8. ASSUME NEW i \in 1..Len(s) PROVE (s \o t)[i] = s[i]
  BY <1>4, <1>5
<1> QED
  BY <1>4, <1>6, <1>7, <1>8 DEF IsSequence

(* Events that neither close the search nor confirm anything. *)
Silent(event) ==
    /\ event.kind # "search_completed"
    /\ event.kind = "candidate_evaluated" => event.purpose # "confirmatory"
Plain(written) == IsSequence(written) /\ \A i \in DOMAIN written : Silent(written[i])

LEMMA PlainConcat ==
    ASSUME NEW s, NEW t, Plain(s), Plain(t)
    PROVE  Plain(s \o t)
<1>1. /\ IsSequence(s \o t) /\ DOMAIN (s \o t) = 1..(Len(s) + Len(t))
      /\ \A i \in 1..Len(s) : (s \o t)[i] = s[i]
      /\ \A i \in 1..Len(t) : (s \o t)[Len(s) + i] = t[i]
      /\ Len(s) \in Nat /\ Len(t) \in Nat /\ DOMAIN s = 1..Len(s) /\ DOMAIN t = 1..Len(t)
  BY ConcatIsSequence, SequenceFacts DEF Plain
<1> SUFFICES ASSUME NEW i \in 1..(Len(s) + Len(t))
             PROVE  Silent((s \o t)[i])
  BY <1>1 DEF Plain
<1>2. CASE i \in 1..Len(s)
  BY <1>1, <1>2 DEF Plain
<1>3. CASE i \notin 1..Len(s)
  <2>1. i - Len(s) \in 1..Len(t) /\ Len(s) + (i - Len(s)) = i
    BY <1>1, <1>3
  <2> QED
    BY <1>1, <2>1 DEF Plain
<1> QED
  BY <1>2, <1>3

LEMMA PlainOne ==
    ASSUME NEW event, Silent(event)
    PROVE  Plain(<<event>>)
<1>1. <<event>> \in Seq({event})
  OBVIOUS
<1>2. DOMAIN <<event>> = {1} /\ <<event>>[1] = event
  OBVIOUS
<1> QED
  BY <1>1, <1>2 DEF Plain, IsSequence

LEMMA PlainNone == Plain(<< >>)
<1>1. << >> \in Seq({})
  OBVIOUS
<1> QED
  BY <1>1 DEF Plain, IsSequence

(* What plain events leave of the ledger. *)
Keeps(log, longer) ==
    /\ IsSequence(longer)
    /\ At(longer, "search_completed") = At(log, "search_completed")
    /\ ConfirmationsAt(longer) = ConfirmationsAt(log)
    /\ \A i \in DOMAIN log : i \in DOMAIN longer /\ longer[i] = log[i]

LEMMA PlainGrowth ==
    ASSUME NEW log, NEW written, IsSequence(log), Plain(written)
    PROVE  Keeps(log, log \o written)
<1> DEFINE s == log \o written
<1>1. /\ IsSequence(s) /\ DOMAIN s = 1..(Len(log) + Len(written))
      /\ \A i \in 1..Len(log) : s[i] = log[i]
      /\ \A i \in 1..Len(written) : s[Len(log) + i] = written[i]
      /\ Len(log) \in Nat /\ Len(written) \in Nat
      /\ DOMAIN log = 1..Len(log) /\ DOMAIN written = 1..Len(written)
  BY ConcatIsSequence, SequenceFacts DEF Plain
<1> HIDE DEF s
<1>2. \A i \in DOMAIN log : i \in DOMAIN s /\ s[i] = log[i]
  BY <1>1
<1>3. ASSUME NEW i \in DOMAIN s, i \notin DOMAIN log
      PROVE  Silent(s[i])
  <2>1. i - Len(log) \in 1..Len(written) /\ Len(log) + (i - Len(log)) = i
    BY <1>1, <1>3
  <2> QED
    BY <1>1, <2>1 DEF Plain
<1>4. At(s, "search_completed") = At(log, "search_completed")
  BY <1>2, <1>3 DEF At, Silent
<1>5. ConfirmationsAt(s) = ConfirmationsAt(log)
  BY <1>2, <1>3 DEF At, Silent, ConfirmationsAt
<1> QED
  BY <1>1, <1>2, <1>4, <1>5 DEF s, Keeps

LEMMA PlainAppend ==
    ASSUME NEW log, IsSequence(log), NEW event, Silent(event)
    PROVE  Append(log, event) = log \o <<event>> /\ Keeps(log, Append(log, event))
<1>1. PICK S : log \in Seq(S)
  BY DEF IsSequence
<1>2. Append(log, event) = log \o <<event>>
  BY <1>1
<1> QED
  BY <1>2, PlainOne, PlainGrowth

LEMMA KeepsMore ==
    ASSUME NEW log, NEW longer, NEW longest, Keeps(log, longer), Keeps(longer, longest)
    PROVE  Keeps(log, longest)
BY DEF Keeps

LEMMA RecordedStep ==
    ASSUME Recorded, Keeps(ledger, ledger'), UNCHANGED <<closedAt, confirmation>>,
           pc' # "sealed"
    PROVE  Recorded'
<1>1. /\ IsSequence(ledger')
      /\ At(ledger', "search_completed") = At(ledger, "search_completed")
      /\ ConfirmationsAt(ledger') = ConfirmationsAt(ledger)
      /\ \A i \in DOMAIN ledger : i \in DOMAIN ledger' /\ ledger'[i] = ledger[i]
  BY DEF Keeps
<1> QED
  BY <1>1 DEF Recorded

LEMMA NominatedStep ==
    ASSUME Nominated, pc' \notin {"confirm", "seal"},
           UNCHANGED <<source, confirmation, observations, active, counts>>
    PROVE  Nominated'
BY DEF Nominated, Confirming

(* An observation's fields. *)
LEMMA ObservationTypes ==
    ASSUME IInv, NEW i \in 1..Len(observations)
    PROVE  /\ observations[i].turn \in Nat /\ observations[i].tokens \in Nat
           /\ observations[i].candidate \in AnyCandidate
           /\ observations[i].latency \in AnyLatency /\ observations[i].qualified \in BOOLEAN
<1>1. observations \in Seq(ObservationType)
  BY DEF IInv, TypeOK
<1>2. observations[i] \in ObservationType
  BY <1>1
<1>3. ASSUME NEW o \in ObservationType
      PROVE  /\ o.turn \in Nat /\ o.tokens \in Nat /\ o.candidate \in AnyCandidate
             /\ o.latency \in AnyLatency /\ o.qualified \in BOOLEAN
  BY DEF ObservationType
<1> QED
  BY <1>2, <1>3

(* Before search closes there is no nominee, and nothing confirmed. *)
LEMMA Searching ==
    ASSUME IInv, Nominated, pc \in {"loop", "resolve", "build", "search", "close"}
    PROVE  source = 0 /\ closedAt = {} /\ confirmation = {} /\ active = {}
BY DEF IInv, InPhase, Nominated

-------------------------------------------------------------------------------
(* Steps *)

LEMMA FaultKeeps ==
    ASSUME IInv, JInv, NEW written, Plain(written),
           NEW live, NEW fault \in {"provider_fault", "harness_fault", "broker_fault"},
           NEW usage \in Nat, RecordFault(written, live, fault, usage),
           UNCHANGED <<counts, closedAt>>
    PROVE  JInv'
<1> DEFINE event == [kind |-> "run_fault", origin |-> Origin.origin, turn |-> Origin.turn,
                     stage |-> live, fault |-> fault, tokens |-> tokens', usage |-> usage]
<1>1. /\ tokens' = tokens + usage /\ adherence' = fault /\ pc' = "seal" /\ active' = {}
      /\ ledger' = (ledger \o written) \o <<event>>
      /\ UNCHANGED <<turn, observations, source, confirmation>>
  BY DEF RecordFault, resultVars
<1>2. Silent(event)
  BY DEF Silent
<1> HIDE DEF event
<1>3. Keeps(ledger, ledger')
  <2>1. Keeps(ledger, ledger \o written)
    BY PlainGrowth DEF JInv, Recorded
  <2>2. Keeps(ledger \o written, (ledger \o written) \o <<event>>)
    BY <1>2, <2>1, PlainOne, PlainGrowth DEF Keeps
  <2> QED
    BY <1>1, <2>1, <2>2, KeepsMore
<1>4. Recorded'
  BY <1>1, <1>3, RecordedStep DEF JInv
<1>5. Turned'
  <2>1. \A i \in 1..Len(observations) : observations[i].tokens <= tokens + usage
    <3>1. tokens \in Nat /\ \A i \in 1..Len(observations) : observations[i].tokens \in Nat
      BY ObservationTypes DEF IInv, TypeOK
    <3> QED
      BY <3>1 DEF JInv, Turned
  <2> QED
    BY <1>1, <2>1 DEF JInv, Turned, Measuring
<1>6. Declared' /\ Nominated'
  BY <1>1 DEF JInv, Declared, Nominated, Confirming
<1> QED
  BY <1>4, <1>5, <1>6 DEF JInv

LEMMA StopSearchKeeps == IInv /\ JInv /\ StopSearch => JInv'
<1> SUFFICES ASSUME IInv, JInv, StopSearch PROVE JInv'
  OBVIOUS
<1>1. /\ pc = "loop" /\ StopNow # "none" /\ pc' = "close"
      /\ UNCHANGED <<turn, stage, clockVars, budgetVars, tokens, turnVars, active,
                     resultVars, outcomeVars, ledger>>
  BY DEF StopSearch
<1> USE DEF clockVars, budgetVars, resultVars
<1>2. Turned' /\ Nominated'
  BY <1>1, NominatedStep DEF JInv, Turned, Measuring
<1>3. Recorded'
  <2>1. Keeps(ledger, ledger)
    BY DEF Keeps, JInv, Recorded
  <2> QED
    BY <1>1, <2>1, RecordedStep DEF JInv
<1>4. Declared'
  <2>1. Len(observations) \in Nat /\ Len(observations) + 1 = turn
    BY <1>1 DEF JInv, Turned, IInv, TypeOK
  <2>2. PICK i \in 1..6 :
           StopHolds(turn, tokens, elapsed, authoring, counts, compilations)[StopReasons[i]]
    BY <1>1, StopReasonGiven DEF StopNow
  <2>3. ~Short => \A delay \in Nat : CloseReason(elapsed + delay) # "none"
    BY <2>1, <2>2, StopStands DEF IInv, CloseReason
  <2> QED
    BY <1>1, <2>1, <2>3 DEF Declared, CloseReason, Short, RoundedShort
<1> QED
  BY <1>2, <1>3, <1>4 DEF JInv

LEMMA AuthoringKeeps == IInv /\ JInv /\ Authoring => JInv'
<1> SUFFICES ASSUME IInv, JInv, Authoring PROVE JInv'
  OBVIOUS
<1> USE DEF clockVars, budgetVars, resultVars
<1>1. CASE AuthorTurn
  <2>1. PICK duration \in Durations, spent \in TokenSpends :
           /\ pc = "loop" /\ pc' = "resolve" /\ tokens' = tokens + spent
           /\ ledger' = Append(ledger, [kind |-> "provider_turn_completed",
                                 origin |-> "turn", turn |-> turn, tokens |-> tokens'])
           /\ UNCHANGED <<turn, active, observations, source, confirmation, counts, closedAt>>
    BY <1>1 DEF AuthorTurn, Author
  <2>2. spent \in Nat \ {0} /\ tokens \in Nat
    BY InputAssumption DEF IInv, TypeOK
  <2>3. Turned'
    <3>1. \A i \in 1..Len(observations) : observations[i].tokens \in Nat
      BY ObservationTypes
    <3>2. \A i \in 1..Len(observations) : observations[i].tokens < tokens + spent
      BY <2>2, <3>1 DEF JInv, Turned
    <3>3. \A i \in 1..Len(observations) : observations[i].tokens <= tokens + spent
      BY <2>2, <3>1 DEF JInv, Turned
    <3> QED
      BY <2>1, <3>2, <3>3 DEF JInv, Turned
  <2>4. Recorded'
    BY <2>1, PlainAppend, RecordedStep DEF JInv, Recorded, Silent
  <2>5. Nominated' /\ Declared'
    BY <2>1, NominatedStep DEF JInv, Declared
  <2> QED
    BY <2>3, <2>4, <2>5 DEF JInv
<1>2. CASE AuthorFault
  BY <1>2, InputAssumption, FaultKeeps, PlainNone DEF AuthorFault, Author
<1>3. CASE ResolveActions
  <2>1. /\ pc = "resolve" /\ pc' = "build"
        /\ ledger' = Append(ledger, [kind |-> "author_actions_resolved",
                              origin |-> "turn", turn |-> turn, candidates |-> resolved'])
        /\ UNCHANGED <<turn, tokens, active, observations, source, confirmation, counts,
                       closedAt>>
    BY <1>3 DEF ResolveActions
  <2>2. Turned'
    BY <2>1 DEF JInv, Turned, Measuring
  <2>3. Recorded'
    BY <2>1, PlainAppend, RecordedStep DEF JInv, Recorded, Silent
  <2>4. Nominated' /\ Declared'
    BY <2>1, NominatedStep DEF JInv, Declared
  <2> QED
    BY <2>2, <2>3, <2>4 DEF JInv
<1>4. CASE ResolveFault
  BY <1>4, FaultKeeps, PlainNone DEF ResolveFault
<1> QED
  BY <1>1, <1>2, <1>3, <1>4 DEF Authoring

-------------------------------------------------------------------------------
(* Building and filtering *)

LEMMA KeepsTwo ==
    ASSUME NEW log, NEW first, NEW second, IsSequence(log), Plain(first), Plain(second)
    PROVE  Keeps(log, log \o first \o second)
<1>1. Keeps(log, log \o first)
  BY PlainGrowth
<1>2. Keeps(log \o first, (log \o first) \o second)
  BY <1>1, PlainGrowth DEF Keeps
<1> QED
  BY <1>1, <1>2, KeepsMore

LEMMA PlainFunction ==
    ASSUME NEW n \in Nat, NEW f, f = [k \in 1..n |-> f[k]],
           \A k \in 1..n : Silent(f[k])
    PROVE  Plain(f)
<1>1. IsSequence(f) /\ DOMAIN f = 1..n
  BY FunctionIsSequence
<1> QED
  BY <1>1 DEF Plain

LEMMA CompilationIsPlain ==
    ASSUME IInv, NEW asked \in Nat, NEW now
    PROVE  Plain(CompilationEvents(asked, now))
<1> DEFINE n == 2 * Granted(asked) + (IF asked > Granted(asked) THEN 1 ELSE 0)
           f == CompilationEvents(asked, now)
<1>1. Granted(asked) \in Nat
  <2>1. {asked, MaximumCompilations - compilations} \subseteq Nat
    BY BudgetAssumption DEF IInv, TypeOK
  <2>2. Granted(asked) \in {asked, MaximumCompilations - compilations}
    BY <2>1, SmallestNat DEF Granted
  <2> QED
    BY <2>1, <2>2
<1>2. n \in Nat
  <2>1. \A k \in Nat : 2 * k + 1 \in Nat /\ 2 * k + 0 \in Nat
    OBVIOUS
  <2> QED
    BY <1>1, <2>1
<1> HIDE DEF n
<1>3. f = [k \in 1..n |-> f[k]]
  BY DEF CompilationEvents, n
<1>4. ASSUME NEW k \in 1..n
      PROVE  f[k].kind \in {"compilation_refused", "compilation_started",
                            "compilation_completed"}
  <2>1. f[k] = LET permit == (k + 1) \div 2
               IN IF permit > Granted(asked)
                  THEN CandidateEvent("compilation_refused", NextBuild)
                  ELSE [kind |-> IF k % 2 = 1 THEN "compilation_started"
                                 ELSE "compilation_completed",
                        origin |-> "turn", turn |-> turn, candidate |-> NextBuild,
                        number |-> compilations + permit,
                        clock |-> Rounded(IF k = 1 THEN elapsed ELSE now)]
    BY DEF CompilationEvents, n
  <2> QED
    BY <2>1 DEF CandidateEvent
<1> HIDE DEF f
<1>5. Plain(f)
  BY <1>2, <1>3, <1>4, PlainFunction DEF Silent
<1> QED
  BY <1>5 DEF f

LEMMA FilterIsPlain ==
    ASSUME IInv
    PROVE  Plain(FilterEvents)
<1> DEFINE n == Len(Rejects)
           filtered == [kind |-> "candidate_set_filtered", origin |-> "turn", turn |-> turn,
                        order |-> FilterOrder]
           rejected == [k \in 1..n |-> CandidateEvent("candidate_rejected",
                                                      Rejects[k].candidate)]
<1>1. n \in Nat
  BY FilterOrderType DEF IInv, TypeOK
<1>2. Plain(<<filtered>>)
  BY PlainOne DEF Silent
<1> HIDE DEF n, filtered
<1>3. \A k \in 1..n : Silent(rejected[k])
  BY DEF CandidateEvent, Silent
<1>4. rejected = [k \in 1..n |-> rejected[k]]
  OBVIOUS
<1> HIDE DEF rejected
<1>5. Plain(rejected)
  BY <1>1, <1>3, <1>4, PlainFunction
<1>6. Plain(<<filtered>> \o rejected)
  BY <1>2, <1>5, PlainConcat
<1> QED
  BY <1>6 DEF FilterEvents, filtered, rejected, n

(* A turn that leaves its observation and ends. *)
LEMMA ObserveStep ==
    ASSUME IInv, JInv, pc \in {"build", "search"}, NEW candidate, NEW latency \in AnyLatency,
           latency > 0 => candidate \in Candidates,
           NEW stop \in BOOLEAN, stop => TokensSpent, EndTurn(stop),
           observations' = Append(observations, Observation(turn, tokens, candidate, latency)),
           Keeps(ledger, ledger'),
           UNCHANGED <<elapsed, authoring, counts, compilations, closedAt, tokens, active,
                       source, confirmation>>
    PROVE  JInv'
<1> DEFINE o == Observation(turn, tokens, candidate, latency)
<1>0. /\ turn \in Nat \ {0} /\ tokens \in Nat /\ MaximumTurns \in Nat /\ Len(observations) \in Nat
      /\ observations \in Seq(ObservationType) /\ elapsed \in Nat
  BY BudgetAssumption DEF IInv, TypeOK
<1>1. /\ o.turn = turn /\ o.tokens = tokens /\ o.candidate = candidate
      /\ o.qualified => latency > 0
  BY DEF Observation
<1> HIDE DEF o
<1>2. Measuring /\ Len(observations) = turn - 1
  BY DEF JInv, Turned, Measuring
<1>3. /\ Len(observations') = turn
      /\ \A i \in 1..(turn - 1) : observations'[i] = observations[i]
      /\ observations'[turn] = o
  BY <1>0, <1>2 DEF o
<1>4. \/ pc' = "close" /\ turn' = turn /\ (TokensSpent \/ turn = MaximumTurns)
      \/ pc' = "loop" /\ turn' = turn + 1
  BY DEF EndTurn
<1>5. Turned'
  <2>1. \A i \in 1..turn : \/ i \in 1..(turn - 1) /\ i \in 1..Len(observations)
                           \/ i = turn
    BY <1>0, <1>2
  <2>2. \A i \in 1..Len(observations') :
           /\ observations'[i].turn = i /\ observations'[i].tokens <= tokens
           /\ observations'[i].qualified => observations'[i].candidate \in Candidates
    BY <1>0, <1>1, <1>3, <2>1 DEF JInv, Turned
  <2>3. ~Measuring'
    BY <1>4 DEF Measuring
  <2>4. pc' = "loop" => Len(observations') = turn' - 1
    BY <1>0, <1>3, <1>4
  <2> QED
    BY <2>2, <2>3, <2>4 DEF Turned
<1>6. Declared'
  <2> SUFFICES ASSUME pc' = "close", NEW delay \in Nat
               PROVE  StopReason(NextIteration(observations'), tokens, Rounded(elapsed + delay),
                                 Rounded(authoring), counts, compilations) # "none"
    BY DEF Declared, CloseReason
  <2> DEFINE holds == StopHolds(NextIteration(observations'), tokens, Rounded(elapsed + delay),
                                Rounded(authoring), counts, compilations)
  <2>1. CASE TokensSpent
    <3>1. holds["provider_token_limit"]
      BY <2>1 DEF TokensSpent, StopHolds
    <3>2. 1 \in 1..6 /\ StopReasons[1] = "provider_token_limit"
      BY DEF StopReasons
    <3> HIDE DEF holds
    <3>3. holds[StopReasons[1]]
      BY <3>1, <3>2
    <3> QED
      BY <3>2, <3>3, StopReasonNone DEF holds
  <2>2. CASE turn = MaximumTurns
    <3>1. NextIteration(observations') > MaximumTurns
      <4>1. turn \in Nat /\ Len(observations') = turn /\ turn >= MaximumTurns
        BY <1>0, <1>3, <2>2
      <4> QED
        BY <4>1, NextIterationType
    <3>2. holds["maximum_turns"]
      BY <3>1 DEF StopHolds
    <3>3. 2 \in 1..6 /\ StopReasons[2] = "maximum_turns"
      BY DEF StopReasons
    <3> HIDE DEF holds
    <3>4. holds[StopReasons[2]]
      BY <3>2, <3>3
    <3> QED
      BY <3>3, <3>4, StopReasonNone DEF holds
  <2> QED
    BY <1>4, <2>1, <2>2
<1>7. Nominated'
  <2>1. source = 0 /\ confirmation = {} /\ active = {}
    BY Searching DEF JInv
  <2> QED
    BY <1>4, <2>1 DEF Nominated, Confirming
<1>8. Recorded'
  BY <1>4, RecordedStep DEF JInv
<1> QED
  BY <1>5, <1>6, <1>7, <1>8 DEF JInv

LEMMA BuildKeeps == IInv /\ JInv /\ (BuildCandidate \/ BuildFault) => JInv'
<1> USE DEF budgetVars, resultVars
<1>1. ASSUME IInv, JInv, BuildCandidate PROVE JInv'
  <2>1. PICK asked \in 0..MaxPermits :
           /\ pc = "build" /\ ledger' = ledger \o CompilationEvents(asked, elapsed')
           /\ UNCHANGED <<pc, turn, tokens, active, observations, source, confirmation,
                          counts, closedAt>>
    BY <1>1 DEF BuildCandidate, BuildStep
  <2>2. asked \in Nat
    BY InputAssumption
  <2>3. Keeps(ledger, ledger')
    BY <1>1, <2>1, <2>2, CompilationIsPlain, PlainGrowth DEF JInv, Recorded
  <2>4. Recorded'
    BY <1>1, <2>1, <2>3, RecordedStep DEF JInv
  <2>5. Turned'
    BY <1>1, <2>1 DEF JInv, Turned, Measuring
  <2>6. Declared' /\ Nominated'
    BY <1>1, <2>1, NominatedStep DEF JInv, Declared
  <2> QED
    BY <2>4, <2>5, <2>6 DEF JInv
<1>2. ASSUME IInv, JInv, BuildFault PROVE JInv'
  <2>1. PICK asked \in 0..MaxPermits :
           /\ RecordFault(CompilationEvents(asked, elapsed'), "environment",
                          "harness_fault", 0)
           /\ UNCHANGED <<counts, closedAt>>
    BY <1>2 DEF BuildFault, BuildStep
  <2>2. asked \in Nat
    BY InputAssumption
  <2>3. Plain(CompilationEvents(asked, elapsed'))
    BY <1>2, <2>2, CompilationIsPlain
  <2> QED
    BY <1>2, <2>1, <2>3, FaultKeeps
<1> QED
  BY <1>1, <1>2

LEMMA FilterKeeps ==
    IInv /\ JInv /\ (FilterEmpty \/ FilterAllRejected \/ FilterSurvivors) => JInv'
<1> USE DEF clockVars, budgetVars, turnVars, resultVars
<1>0. ASSUME IInv, JInv, NEW event, Silent(event)
      PROVE  Keeps(ledger, ledger \o FilterEvents \o <<event>>)
  <2>1. Plain(FilterEvents) /\ Plain(<<event>>) /\ IsSequence(ledger)
    BY <1>0, FilterIsPlain, PlainOne DEF JInv, Recorded
  <2> QED
    BY <2>1, KeepsTwo
<1>1. ASSUME IInv, JInv, FilterEmpty PROVE JInv'
  <2>1. /\ pc = "build" /\ EndTurn(FALSE)
        /\ observations' = Append(observations, Observation(turn, tokens, NoCandidate, 0))
        /\ ledger' = ledger \o FilterEvents
                        \o <<SelectionEvent(NoCandidate, << >>, "no_candidate_produced")>>
        /\ UNCHANGED <<elapsed, authoring, counts, compilations, closedAt, tokens, active,
                       source, confirmation>>
    BY <1>1 DEF FilterEmpty, FilterReady
  <2>2. Keeps(ledger, ledger')
    BY <1>0, <1>1, <2>1 DEF SelectionEvent, Silent
  <2>3. 0 \in AnyLatency /\ ~(0 > 0)
    BY DEF AnyLatency
  <2> QED
    BY <1>1, <2>1, <2>2, <2>3, ObserveStep
<1>2. ASSUME IInv, JInv, FilterAllRejected PROVE JInv'
  <2> DEFINE candidate == FilterOrder[1].candidate
  <2>1. /\ pc = "build" /\ EndTurn(TokensSpent)
        /\ observations' = Append(observations, Observation(turn, tokens, candidate, 0))
        /\ ledger' = ledger \o FilterEvents
               \o <<SelectionEvent(candidate, << >>, "all_candidates_rejected")>>
        /\ UNCHANGED <<elapsed, authoring, counts, compilations, closedAt, tokens, active,
                       source, confirmation>>
    BY <1>2 DEF FilterAllRejected, FilterReady
  <2> HIDE DEF candidate
  <2>2. Keeps(ledger, ledger')
    BY <1>0, <1>2, <2>1 DEF SelectionEvent, Silent
  <2>3. 0 \in AnyLatency /\ ~(0 > 0) /\ TokensSpent \in BOOLEAN
    BY DEF AnyLatency, TokensSpent
  <2> QED
    BY <1>2, <2>1, <2>2, <2>3, ObserveStep
<1>3. ASSUME IInv, JInv, FilterSurvivors PROVE JInv'
  <2>1. /\ pc = "build" /\ pc' = "search" /\ ledger' = ledger \o FilterEvents
        /\ UNCHANGED <<turn, tokens, active, observations, source, confirmation,
                       counts, closedAt>>
    BY <1>3 DEF FilterSurvivors, FilterReady
  <2>2. Keeps(ledger, ledger')
    BY <1>3, <2>1, FilterIsPlain, PlainGrowth DEF JInv, Recorded
  <2>3. Recorded'
    BY <1>3, <2>1, <2>2, RecordedStep DEF JInv
  <2>4. Turned'
    BY <1>3, <2>1 DEF JInv, Turned, Measuring
  <2>5. Declared' /\ Nominated'
    BY <1>3, <2>1, NominatedStep DEF JInv, Declared
  <2> QED
    BY <2>3, <2>4, <2>5 DEF JInv
<1> QED
  BY <1>1, <1>2, <1>3

-------------------------------------------------------------------------------
(* Evaluating *)

LEMMA BeginKeeps ==
    ASSUME IInv, JInv, NEW written, Plain(written), NEW purpose \in Purposes, NEW candidate,
           Begin(written, purpose, candidate), Affordable(purpose),
           pc \in {"search", "profile", "confirm"},
           pc = "confirm" => source # 0,
           purpose = "confirmatory" =>
              pc = "confirm" /\ candidate = observations[source].candidate,
           purpose = "attribution" /\ source # 0 => confirmation # {}
    PROVE  JInv'
<1> USE DEF clockVars, resultVars
<1> DEFINE invocation == Invocation(purpose, candidate)
           started == EvaluationEvent("evaluation_attempt_started", invocation)
<1>1. /\ counts' = [counts EXCEPT ![purpose] = @ + 1] /\ active' = {invocation}
      /\ ledger' = ledger \o Append(written, started) /\ pc' = "evaluate"
      /\ UNCHANGED <<turn, tokens, observations, source, confirmation, closedAt>>
  BY DEF Begin
<1>2. invocation.purpose = purpose /\ invocation.candidate = candidate
  BY DEF Invocation
<1>3. Silent(started)
  BY DEF EvaluationEvent, Silent
<1> HIDE DEF invocation, started
<1>4. Keeps(ledger, ledger')
  <2>1. Append(written, started) = written \o <<started>>
    BY <1>3, PlainAppend DEF Plain
  <2>2. Plain(written \o <<started>>)
    BY <1>3, PlainOne, PlainConcat
  <2> QED
    BY <1>1, <2>1, <2>2, PlainGrowth DEF JInv, Recorded
<1>5. Recorded'
  BY <1>1, <1>4, RecordedStep DEF JInv
<1>6. Turned' /\ Declared'
  BY <1>1 DEF JInv, Turned, Measuring, Declared
<1>7. Nominated'
  <2>1. purpose = "confirmatory" => confirmation = {} /\ counts["confirmatory"] = 0
    BY DEF JInv, Nominated, IInv, ConfirmationReserved
  <2>2. /\ purpose = "confirmatory" => counts'["confirmatory"] = counts["confirmatory"] + 1
        /\ purpose # "confirmatory" => counts'["confirmatory"] = counts["confirmatory"]
    BY <1>1 DEF IInv, TypeOK, Purposes
  <2>3. Confirming' => purpose = "confirmatory"
    BY <1>1, <1>2 DEF Confirming
  <2>4. confirmation # {} => counts["confirmatory"] = 1
    BY DEF JInv, Nominated
  <2>5. Confirming' \/ confirmation' # {} => counts'["confirmatory"] = 1
    BY <1>1, <2>1, <2>2, <2>3, <2>4
  <2> QED
    BY <1>1, <1>2, <2>1, <2>3, <2>5 DEF JInv, Nominated
<1> QED
  BY <1>5, <1>6, <1>7 DEF JInv

LEMMA StartKeeps ==
    IInv /\ JInv /\ (StartSearch \/ StartAttribution \/ StartConfirmation) => JInv'
<1>0. "search" \in Purposes /\ "attribution" \in Purposes /\ "confirmatory" \in Purposes
  BY DEF Purposes
<1>1. ASSUME IInv, JInv, StartSearch PROVE JInv'
  <2>1. pc = "search" /\ plan # << >> /\ Begin(SealLaunchable, "search", plan[1])
    BY <1>1 DEF StartSearch
  <2>2. Affordable("search")
    BY <1>1, <2>1, InvariantReserves DEF TurnReservation, NextPurpose
  <2>3. Plain(SealLaunchable)
    BY PlainOne DEF SealLaunchable, CandidateEvent, Silent
  <2> QED
    BY <1>0, <1>1, <2>1, <2>2, <2>3, BeginKeeps
<1>2. ASSUME IInv, JInv, StartAttribution PROVE JInv'
  <2>1. pc = "profile" /\ Begin(<< >>, "attribution", Profiled)
    BY <1>2 DEF StartAttribution
  <2>2. Affordable("attribution")
    BY <1>2, <2>1, InvariantReserves DEF TurnReservation, NextPurpose
  <2>3. source # 0 => confirmation # {}
    BY <1>2, <2>1 DEF IInv, ConfirmationReserved
  <2> QED
    BY <1>0, <1>2, <2>1, <2>2, <2>3, PlainNone, BeginKeeps
<1>3. ASSUME IInv, JInv, StartConfirmation PROVE JInv'
  <2>1. PICK i \in 1..Len(observations) :
           /\ observations[i].turn = source
           /\ Begin(<< >>, "confirmatory", observations[i].candidate)
    BY <1>3 DEF StartConfirmation
  <2>2. pc = "confirm" /\ Affordable("confirmatory")
    BY <1>3, InvariantReserves DEF StartConfirmation, TurnReservation, NextPurpose
  <2>3. i = source /\ source # 0
    BY <1>3, <2>1, <2>2 DEF JInv, Turned, IInv, InPhase
  <2> QED
    BY <1>0, <1>3, <2>1, <2>2, <2>3, PlainNone, BeginKeeps
<1> QED
  BY <1>1, <1>2, <1>3

(* The two events that answer an Evaluation. *)
Completed(invocation) == CompletedEvent(invocation, TRUE)
AnswerOf(invocation, receipt) ==
    [kind |-> "candidate_evaluated", origin |-> invocation.origin,
     turn |-> invocation.turn, purpose |-> invocation.purpose,
     candidate |-> invocation.candidate, receipt |-> receipt, clock |-> Rounded(elapsed')]

LEMMA AnswerEvents ==
    ASSUME NEW invocation, NEW receipt, Answer(invocation, receipt)
    PROVE  /\ ledger' = ledger \o <<Completed(invocation), AnswerOf(invocation, receipt)>>
           /\ Silent(Completed(invocation))
           /\ AnswerOf(invocation, receipt).kind = "candidate_evaluated"
           /\ AnswerOf(invocation, receipt).purpose = invocation.purpose
           /\ AnswerOf(invocation, receipt).candidate = invocation.candidate
           /\ AnswerOf(invocation, receipt).receipt = receipt
<1>1. ledger' = ledger \o <<Completed(invocation), AnswerOf(invocation, receipt)>>
  BY DEF Answer, Completed, AnswerOf
<1>2. Silent(Completed(invocation))
  BY DEF CompletedEvent, Silent, Completed
<1> QED
  BY <1>1, <1>2 DEF AnswerOf

LEMMA PairIsSequence ==
    ASSUME NEW a, NEW b
    PROVE  IsSequence(<<a, b>>) /\ DOMAIN <<a, b>> = {1, 2} /\ Len(<<a, b>>) = 2
           /\ <<a, b>>[1] = a /\ <<a, b>>[2] = b
<1>1. <<a, b>> \in Seq({a, b})
  OBVIOUS
<1>2. Len(<<a, b>>) = 2 /\ DOMAIN <<a, b>> = 1..2
  OBVIOUS
<1>3. <<a, b>>[1] = a /\ <<a, b>>[2] = b
  OBVIOUS
<1>4. 1..2 = {1, 2}
  OBVIOUS
<1>5. IsSequence(<<a, b>>)
  BY <1>1 DEF IsSequence
<1> QED
  BY <1>2, <1>3, <1>4, <1>5

LEMMA OneThenOne ==
    ASSUME NEW a, NEW b
    PROVE  /\ IsSequence(<<a>> \o <<b>>) /\ Len(<<a>> \o <<b>>) = 2
           /\ (<<a>> \o <<b>>)[1] = a /\ (<<a>> \o <<b>>)[2] = b
<1>1. \A c : IsSequence(<<c>>) /\ Len(<<c>>) = 1 /\ <<c>>[1] = c
  <2> TAKE c
  <2>1. <<c>> \in Seq({c}) /\ Len(<<c>>) = 1 /\ <<c>>[1] = c
    OBVIOUS
  <2> QED
    BY <2>1 DEF IsSequence
<1> DEFINE s == <<a>>
           u == <<b>>
<1>2. /\ IsSequence(s) /\ Len(s) = 1 /\ s[1] = a
      /\ IsSequence(u) /\ Len(u) = 1 /\ u[1] = b
  BY <1>1
<1> HIDE DEF s, u
<1>3. /\ IsSequence(s \o u) /\ Len(s \o u) = Len(s) + Len(u)
      /\ \A i \in 1..Len(s) : (s \o u)[i] = s[i]
      /\ \A i \in 1..Len(u) : (s \o u)[Len(s) + i] = u[i]
  <2>1. IsSequence(s) /\ IsSequence(u)
    BY <1>2
  <2> QED
    BY <2>1, ConcatIsSequence
<1>4. Len(s \o u) = 2 /\ (s \o u)[1] = a /\ (s \o u)[2] = b
  BY <1>2, <1>3
<1> QED
  BY <1>3, <1>4 DEF s, u

LEMMA AnswerKeeps == IInv /\ JInv /\ (AnswerSearch \/ AnswerAttribution) => JInv'
<1> USE DEF budgetVars
<1>0. ASSUME IInv, JInv, NEW invocation, NEW receipt, Answer(invocation, receipt),
             invocation.purpose # "confirmatory"
      PROVE  Keeps(ledger, ledger')
  <2> DEFINE completed == Completed(invocation)
             evaluated == AnswerOf(invocation, receipt)
  <2>1. /\ ledger' = ledger \o <<completed, evaluated>> /\ Silent(completed)
        /\ evaluated.purpose = invocation.purpose
        /\ evaluated.kind = "candidate_evaluated"
    BY <1>0, AnswerEvents
  <2> HIDE DEF completed, evaluated
  <2>2. Silent(evaluated)
    BY <1>0, <2>1 DEF Silent
  <2>3. Plain(<<completed, evaluated>>)
    BY <2>1, <2>2, PairIsSequence DEF Plain
  <2> QED
    BY <1>0, <2>1, <2>3, PlainGrowth DEF JInv, Recorded
<1>1. ASSUME IInv, JInv, AnswerSearch PROVE JInv'
  <2>1. PICK invocation \in active, receipt \in Receipts :
           /\ invocation.purpose = "search" /\ Answer(invocation, receipt)
           /\ pc' \in {"profile", "search"} /\ UNCHANGED confirmation
    BY <1>1 DEF AnswerSearch
  <2>2. /\ pc = "evaluate" /\ active' = {} /\ source = 0
        /\ UNCHANGED <<turn, tokens, observations, source, counts, closedAt>>
    BY <1>1, <2>1, AnswerFacts DEF IInv, InPhase
  <2>3. Recorded'
    BY <1>0, <1>1, <2>1, <2>2, RecordedStep DEF JInv
  <2>4. Turned' /\ Declared'
    BY <1>1, <2>1, <2>2 DEF JInv, Turned, Measuring, Declared
  <2>5. Nominated'
    BY <1>1, <2>1, <2>2 DEF JInv, Nominated, Confirming
  <2> QED
    BY <2>3, <2>4, <2>5 DEF JInv
<1>2. ASSUME IInv, JInv, AnswerAttribution PROVE JInv'
  <2>1. PICK invocation \in active :
           /\ invocation.purpose = "attribution"
           /\ Answer(invocation, [correct |-> TRUE, latency |-> 0])
           /\ pc' = IF source = 0 THEN "search" ELSE "seal"
           /\ UNCHANGED confirmation
    BY <1>2 DEF AnswerAttribution
  <2>2. /\ pc = "evaluate" /\ active' = {} /\ (source # 0 => closedAt # {})
        /\ UNCHANGED <<turn, tokens, observations, source, counts, closedAt, adherence>>
    BY <1>2, <2>1, AnswerFacts DEF IInv, InPhase, outcomeVars
  <2>3. Recorded'
    BY <1>0, <1>2, <2>1, <2>2, RecordedStep DEF JInv
  <2>4. Turned' /\ Declared'
    BY <1>2, <2>1, <2>2 DEF JInv, Turned, Measuring, Declared
  <2>5. Nominated'
    BY <1>2, <2>1, <2>2 DEF JInv, Nominated, Confirming
  <2> QED
    BY <2>3, <2>4, <2>5 DEF JInv
<1> QED
  BY <1>1, <1>2

LEMMA AnswerConfirmationKeeps == IInv /\ JInv /\ AnswerConfirmation => JInv'
<1> SUFFICES ASSUME IInv, JInv, AnswerConfirmation PROVE JInv'
  OBVIOUS
<1> USE DEF budgetVars
<1>1. PICK invocation \in active, receipt \in Receipts :
         /\ invocation.purpose = "confirmatory" /\ Answer(invocation, receipt)
         /\ confirmation' = {Confirmation(source, invocation.candidate, tokens,
                                          receipt.latency)}
         /\ pc' \in {"profile", "seal"}
  BY DEF AnswerConfirmation
<1>2. /\ pc = "evaluate" /\ active' = {} /\ source # 0 /\ closedAt # {}
      /\ UNCHANGED <<turn, tokens, observations, source, counts, closedAt, adherence>>
  BY <1>1, AnswerFacts DEF IInv, InPhase, outcomeVars
<1>3. Confirming /\ confirmation = {} /\ invocation.candidate = observations[source].candidate
  BY <1>1 DEF Confirming, JInv, Nominated
<1>4. Turned' /\ Declared'
  BY <1>1, <1>2 DEF JInv, Turned, Measuring, Declared
<1> DEFINE made == Confirmation(source, invocation.candidate, tokens, receipt.latency)
<1>5. made.candidate = invocation.candidate /\ made.latency = receipt.latency
  BY DEF Confirmation
<1>6. confirmation' = {made}
  BY <1>1
<1> HIDE DEF made
<1>7. Nominated'
  <2>1. counts["confirmatory"] = 1
    BY <1>3 DEF JInv, Nominated
  <2>2. ~Confirming'
    BY <1>2 DEF Confirming
  <2> QED
    BY <1>1, <1>2, <1>3, <1>5, <1>6, <2>1, <2>2 DEF JInv, Nominated
<1>8. Recorded'
  <2> DEFINE completed == Completed(invocation)
             evaluated == AnswerOf(invocation, receipt)
  <2>1. /\ ledger' = ledger \o <<completed, evaluated>> /\ Silent(completed)
        /\ evaluated.kind = "candidate_evaluated" /\ evaluated.purpose = "confirmatory"
        /\ evaluated.candidate = invocation.candidate /\ evaluated.receipt = receipt
    BY <1>1, AnswerEvents
  <2> HIDE DEF completed, evaluated
  <2>2. Len(ledger) \in Nat /\ DOMAIN ledger = 1..Len(ledger) /\ IsSequence(ledger)
    BY SequenceFacts DEF JInv, Recorded
  <2> DEFINE n == Len(ledger)
  <2>3. /\ IsSequence(ledger') /\ DOMAIN ledger' = 1..(n + 2)
        /\ \A i \in 1..n : ledger'[i] = ledger[i]
        /\ ledger'[n + 1] = completed /\ ledger'[n + 2] = evaluated
    BY <2>1, <2>2, PairIsSequence, ConcatIsSequence
  <2>4. \A i \in 1..(n + 2) : i \in 1..n \/ i = n + 1 \/ i = n + 2
    BY <2>2
  <2>5. At(ledger', "search_completed") = At(ledger, "search_completed")
    BY <2>1, <2>2, <2>3, <2>4 DEF At, Silent
  <2>6. ConfirmationsAt(ledger) = {} /\ closedAt # {}
    BY <1>2, <1>3 DEF JInv, Recorded
  <2>7. ConfirmationsAt(ledger') = {n + 2} /\ n + 2 \in DOMAIN ledger'
    <3>1. \A i \in 1..n : ~(ledger[i].kind = "candidate_evaluated"
                            /\ ledger[i].purpose = "confirmatory")
      BY <2>2, <2>6 DEF At, ConfirmationsAt
    <3> QED
      BY <2>1, <2>2, <2>3, <2>4, <3>1 DEF At, ConfirmationsAt, Silent
  <2>8. \E i \in DOMAIN ledger' : At(ledger', "search_completed") = {i}
                                  /\ ledger'[i].state.elapsed \in closedAt
    <3>1. PICK i \in DOMAIN ledger : At(ledger, "search_completed") = {i}
                                     /\ ledger[i].state.elapsed \in closedAt
      BY <2>6 DEF JInv, Recorded
    <3>2. i \in DOMAIN ledger' /\ ledger'[i] = ledger[i]
      BY <2>2, <2>3, <3>1
    <3> QED
      BY <2>5, <3>1, <3>2
  <2>9. \A c \in confirmation' : \E i \in DOMAIN ledger' :
           /\ ConfirmationsAt(ledger') = {i} /\ ledger'[i].candidate = c.candidate
           /\ ledger'[i].receipt.latency = c.latency
    BY <1>5, <1>6, <2>1, <2>3, <2>7
  <2> HIDE DEF n
  <2> QED
    BY <1>1, <1>2, <1>6, <2>3, <2>6, <2>8, <2>9 DEF Recorded
<1> QED
  BY <1>4, <1>7, <1>8 DEF JInv

LEMMA EvaluationFaultKeeps == IInv /\ JInv /\ (EvaluationFault \/ SealFault) => JInv'
<1> USE DEF budgetVars
<1>1. ASSUME IInv, JInv, EvaluationFault PROVE JInv'
  <2>1. PICK invocation \in active :
           \/ \E fault \in {"broker_fault", "harness_fault"} :
                 RecordFault(<< >>, "evaluation", fault, 0)
           \/ \E answered \in BOOLEAN :
                 RecordFault(<<CompletedEvent(invocation, answered)>>,
                             "evaluation", "broker_fault", 0)
    BY <1>1 DEF EvaluationFault
  <2>2. UNCHANGED <<counts, closedAt>>
    BY <1>1 DEF EvaluationFault
  <2>3. \A answered \in BOOLEAN : Plain(<<CompletedEvent(invocation, answered)>>)
    BY PlainOne DEF CompletedEvent, Silent
  <2> QED
    BY <1>1, <2>1, <2>2, <2>3, PlainNone, FaultKeeps
<1>2. ASSUME IInv, JInv, SealFault PROVE JInv'
  <2>1. FaultOf(stage) \in {"provider_fault", "harness_fault", "broker_fault"}
    BY <1>2, FaultOfType DEF IInv, TypeOK
  <2> QED
    BY <1>2, <2>1, PlainNone, FaultKeeps DEF SealFault
<1> QED
  BY <1>1, <1>2

LEMMA SelectKeeps == IInv /\ JInv /\ SelectCandidate => JInv'
<1> SUFFICES ASSUME IInv, JInv, SelectCandidate PROVE JInv'
  OBVIOUS
<1> DEFINE best == searched[BestSearch(searched)]
           why == IF QualifiedSearches(searched) # {} THEN "lowest_qualified_search_latency"
                  ELSE "no_qualified_search_candidate"
<1>1. /\ pc = "search" /\ plan = << >> /\ EndTurn(TokensSpent)
      /\ observations' = Append(observations,
            Observation(turn, tokens, best.candidate, best.receipt.latency))
      /\ ledger' = ledger \o CollapseDiagnosis
            \o <<SelectionEvent(best.candidate, QualifiedInOrder, why)>>
      /\ UNCHANGED <<elapsed, authoring, counts, compilations, closedAt, tokens, active,
                     source, confirmation>>
  BY DEF SelectCandidate, clockVars, budgetVars
<1>2. searched \in Seq(Searches) /\ searched # << >>
  BY <1>1 DEF IInv, TypeOK, InPhase
<1>3. best \in Searches
  BY <1>2, BestSearchType
<1> HIDE DEF best, why
<1>4. best.candidate \in Candidates /\ best.receipt \in Receipts
  BY <1>3 DEF Searches
<1>5. best.receipt.latency \in AnyLatency
  BY <1>4 DEF Receipts, AnyLatency
<1>6. Plain(CollapseDiagnosis)
  <2>1. CASE Collapsed(FilterOrder) = {}
    BY <2>1, PlainNone DEF CollapseDiagnosis
  <2>2. CASE Collapsed(FilterOrder) # {}
    <3>1. Silent([kind |-> "diagnosis_routed", origin |-> "turn", turn |-> turn,
                  collapsed |-> Collapsed(FilterOrder)])
      BY DEF Silent
    <3> QED
      BY <2>2, <3>1, PlainOne DEF CollapseDiagnosis
  <2> QED
    BY <2>1, <2>2
<1>7. Keeps(ledger, ledger')
  <2>1. Silent(SelectionEvent(best.candidate, QualifiedInOrder, why))
    BY DEF SelectionEvent, Silent
  <2> QED
    BY <1>1, <1>6, <2>1, PlainOne, KeepsTwo DEF JInv, Recorded
<1>8. TokensSpent \in BOOLEAN
  BY DEF TokensSpent
<1> QED
  BY <1>1, <1>4, <1>5, <1>7, <1>8, ObserveStep

-------------------------------------------------------------------------------
(* Closing and sealing *)

LEMMA NomineeIsObservation ==
    ASSUME NEW rows, NEW nominee \in Nominee(rows)
    PROVE  \E k \in 1..Len(rows) :
              /\ nominee = rows[k] /\ rows[k].qualified
              /\ Limit # Unlimited => rows[k].tokens <= Limit
              /\ \A j \in 1..Len(rows) :
                    /\ rows[j].qualified
                    /\ Limit # Unlimited => rows[j].tokens <= Limit
                    => \/ rows[k].latency < rows[j].latency
                       \/ rows[k].latency = rows[j].latency /\ k <= j
BY DEF Nominee, Fastest

LEMMA CloseKeeps == IInv /\ JInv /\ CloseSearch => JInv'
<1> SUFFICES ASSUME IInv, JInv, CloseSearch PROVE JInv'
  OBVIOUS
<1>1. PICK duration \in Durations :
        /\ pc = "close" /\ elapsed' = elapsed + duration
        /\ UNCHANGED <<authoring, counts, compilations, turnVars>>
        /\ IF CloseReason(elapsed') = "none"
           THEN RecordFault(<< >>, stage, FaultOf(stage), 0) /\ UNCHANGED closedAt
           ELSE /\ closedAt' = {Rounded(elapsed')}
                /\ ledger' = ledger \o CloseEvents(elapsed')
                /\ \/ /\ Nominee(observations) = {}
                      /\ source' = 0 /\ pc' = "seal"
                   \/ \E nominee \in Nominee(observations) :
                         source' = nominee.turn /\ pc' = "confirm"
                /\ UNCHANGED <<turn, stage, tokens, active, observations,
                               confirmation, adherence>>
  BY DEF CloseSearch
<1>2. CASE CloseReason(elapsed') = "none"
  <2>1. FaultOf(stage) \in {"provider_fault", "harness_fault", "broker_fault"}
    BY FaultOfType DEF IInv, TypeOK
  <2>2. RecordFault(<< >>, stage, FaultOf(stage), 0) /\ UNCHANGED <<counts, closedAt>>
    BY <1>1, <1>2
  <2>3. stage \in {"provider", "environment", "evaluation"}
    BY DEF IInv, TypeOK
  <2> QED
    BY <2>1, <2>2, <2>3, PlainNone, FaultKeeps
<1>3. CASE CloseReason(elapsed') # "none"
  <2>1. source = 0 /\ closedAt = {} /\ confirmation = {} /\ active = {}
    BY <1>1, Searching DEF JInv
  <2>2. /\ closedAt' = {Rounded(elapsed')} /\ ledger' = ledger \o CloseEvents(elapsed')
        /\ pc' \in {"seal", "confirm"} /\ (pc' = "seal" => source' = 0)
        /\ UNCHANGED <<turn, tokens, active, observations, confirmation, adherence, counts>>
    BY <1>1, <1>3
  <2>3. source' # 0 => /\ source' \in 1..Len(observations)
                       /\ observations[source'] \in Nominee(observations)
    <3> SUFFICES ASSUME source' # 0 PROVE /\ source' \in 1..Len(observations)
                       /\ observations[source'] \in Nominee(observations)
      OBVIOUS
    <3>1. PICK nominee \in Nominee(observations) : source' = nominee.turn
      BY <1>1, <1>3
    <3>2. PICK k \in 1..Len(observations) : nominee = observations[k]
      BY NomineeIsObservation
    <3>3. source' = k
      BY <3>1, <3>2 DEF JInv, Turned
    <3> QED
      BY <3>2, <3>3
  <2>4. Turned' /\ Declared'
    BY <2>1, <2>2 DEF JInv, Turned, Measuring, Declared
  <2>5. Nominated'
    BY <2>1, <2>2, <2>3 DEF JInv, Nominated, Confirming
  <2>6. Recorded'
    <3> DEFINE close == [kind |-> "search_completed",
                         state |-> RalphState(elapsed', {}, CloseReason(elapsed'))]
               nominated == IF Nominee(observations) = {}
                  THEN [kind |-> "candidate_nominated", turn |-> 0, candidate |-> NoCandidate]
                  ELSE LET nominee == CHOOSE o \in Nominee(observations) : TRUE
                       IN [kind |-> "candidate_nominated", turn |-> nominee.turn,
                           candidate |-> nominee.candidate]
    <3>1. /\ close.kind = "search_completed" /\ close.state.elapsed = Rounded(elapsed')
          /\ nominated.kind = "candidate_nominated"
      BY DEF RalphState
    <3>2. CloseEvents(elapsed') = <<close>> \o <<nominated>>
      BY DEF CloseEvents
    <3> HIDE DEF close, nominated
    <3>3. /\ IsSequence(CloseEvents(elapsed')) /\ Len(CloseEvents(elapsed')) = 2
          /\ CloseEvents(elapsed')[1] = close /\ CloseEvents(elapsed')[2] = nominated
      BY <3>2, OneThenOne
    <3>4. Len(ledger) \in Nat /\ DOMAIN ledger = 1..Len(ledger) /\ IsSequence(ledger)
      BY SequenceFacts DEF JInv, Recorded
    <3> DEFINE n == Len(ledger)
    <3>5. /\ IsSequence(ledger') /\ DOMAIN ledger' = 1..(n + 2)
          /\ \A i \in 1..n : ledger'[i] = ledger[i]
          /\ ledger'[n + 1] = close /\ ledger'[n + 2] = nominated
      <4> DEFINE written == CloseEvents(elapsed')
      <4>1. IsSequence(ledger) /\ IsSequence(written)
        BY <3>3, <3>4
      <4> HIDE DEF written
      <4>2. /\ IsSequence(ledger \o written)
            /\ DOMAIN (ledger \o written) = 1..(Len(ledger) + Len(written))
            /\ \A i \in 1..Len(ledger) : (ledger \o written)[i] = ledger[i]
            /\ \A i \in 1..Len(written) : (ledger \o written)[Len(ledger) + i] = written[i]
        BY <4>1, ConcatIsSequence
      <4>3. Len(written) = 2 /\ written[1] = close /\ written[2] = nominated
        BY <3>3 DEF written
      <4>4. ledger' = ledger \o written
        BY <2>2 DEF written
      <4> QED
        BY <4>2, <4>3, <4>4
    <3>6. \A i \in 1..(n + 2) : i \in 1..n \/ i = n + 1 \/ i = n + 2
      BY <3>4
    <3>7. \A i \in 1..n : /\ ledger[i].kind # "search_completed"
                          /\ ~(/\ ledger[i].kind = "candidate_evaluated"
                               /\ ledger[i].purpose = "confirmatory")
      BY <2>1, <3>4 DEF JInv, Recorded, At, ConfirmationsAt
    <3>8. At(ledger', "search_completed") = {n + 1} /\ n + 1 \in DOMAIN ledger'
      BY <3>1, <3>4, <3>5, <3>6, <3>7 DEF At
    <3>9. ConfirmationsAt(ledger') = {}
      BY <3>1, <3>4, <3>5, <3>6, <3>7 DEF At, ConfirmationsAt
    <3> HIDE DEF n
    <3>10. \E i \in DOMAIN ledger' : /\ At(ledger', "search_completed") = {i}
                                     /\ ledger'[i].state.elapsed \in closedAt'
      BY <2>2, <3>1, <3>5, <3>8
    <3> QED
      BY <2>1, <2>2, <3>5, <3>9, <3>10 DEF Recorded
  <2> QED
    BY <2>4, <2>5, <2>6 DEF JInv
<1> QED
  BY <1>2, <1>3

LEMMA SealRunKeeps == IInv /\ JInv /\ SealRun => JInv'
<1> SUFFICES ASSUME IInv, JInv, SealRun PROVE JInv'
  OBVIOUS
<1> DEFINE exceeded == RalphState(elapsed', closedAt, reason).exceeded
           concluded == Endpoint(tokens, adherence, reason, confirmation, exceeded)
           projected == [kind |-> "checkpoints_projected",
                         state |-> RalphState(elapsed', closedAt, reason),
                         checkpoints |-> Projection(observations, tokens)]
           sealed == [kind |-> "run_terminal", adherence |-> adherence,
                      endpoint |-> concluded]
<1>1. /\ pc = "seal" /\ pc' = "sealed" /\ ledger' = ledger \o <<projected, sealed>>
      /\ UNCHANGED <<turn, authoring, counts, compilations, closedAt, tokens, active,
                     observations, source, confirmation, adherence, reason>>
  BY DEF SealRun, budgetVars, resultVars, outcomeVars
<1>2. Silent(projected) /\ Silent(sealed) /\ sealed.endpoint = concluded
  BY DEF Silent
<1>3. RalphState(elapsed, closedAt, reason)'.exceeded = exceeded
  BY <1>1 DEF RalphState
<1>4. Endpoint(tokens, adherence, reason, confirmation,
               RalphState(elapsed, closedAt, reason).exceeded)' = concluded
  BY <1>1, <1>3
<1> HIDE DEF exceeded, concluded, projected, sealed
<1>5. Keeps(ledger, ledger')
  <2>1. Plain(<<projected, sealed>>)
    BY <1>2, PairIsSequence DEF Plain
  <2> QED
    BY <1>1, <2>1, PlainGrowth DEF JInv, Recorded
<1>6. Terminal(ledger') = sealed
  <2>1. /\ Len(ledger') = Len(ledger) + 2 /\ ledger'[Len(ledger) + 2] = sealed
    BY <1>1, PairIsSequence, ConcatIsSequence, SequenceFacts DEF JInv, Recorded
  <2> QED
    BY <2>1 DEF Terminal
<1>7. Recorded'
  <2>1. /\ IsSequence(ledger')
        /\ At(ledger', "search_completed") = At(ledger, "search_completed")
        /\ ConfirmationsAt(ledger') = ConfirmationsAt(ledger)
        /\ \A i \in DOMAIN ledger : i \in DOMAIN ledger' /\ ledger'[i] = ledger[i]
    BY <1>5 DEF Keeps
  <2>2. Terminal(ledger').endpoint = concluded
    BY <1>2, <1>6
  <2>3. closedAt' # {} => \E i \in DOMAIN ledger' :
           /\ At(ledger', "search_completed") = {i}
           /\ ledger'[i].state.elapsed \in closedAt'
    BY <1>1, <2>1 DEF JInv, Recorded
  <2>4. \A c \in confirmation' : \E i \in DOMAIN ledger' :
           /\ ConfirmationsAt(ledger') = {i} /\ ledger'[i].candidate = c.candidate
           /\ ledger'[i].receipt.latency = c.latency
    <3> TAKE c \in confirmation'
    <3>1. PICK i \in DOMAIN ledger :
             /\ ConfirmationsAt(ledger) = {i} /\ ledger[i].candidate = c.candidate
             /\ ledger[i].receipt.latency = c.latency
      BY <1>1 DEF JInv, Recorded
    <3>2. i \in DOMAIN ledger' /\ ledger'[i] = ledger[i]
      BY <2>1
    <3> QED
      BY <2>1, <3>1, <3>2
  <2>5. /\ closedAt' = {} => At(ledger', "search_completed") = {}
        /\ confirmation' = {} => ConfirmationsAt(ledger') = {}
    BY <1>1, <2>1 DEF JInv, Recorded
  <2>6. (Terminal(ledger).endpoint =
            Endpoint(tokens, adherence, reason, confirmation,
                     RalphState(elapsed, closedAt, reason).exceeded))'
    BY <1>4, <2>2
  <2> QED
    BY <2>1, <2>3, <2>4, <2>5, <2>6 DEF Recorded
<1>8. Turned' /\ Declared' /\ Nominated'
  BY <1>1 DEF JInv, Turned, Measuring, Declared, Nominated, Confirming
<1> QED
  BY <1>7, <1>8 DEF JInv

LEMMA InitOutcome == Init => JInv
<1> SUFFICES ASSUME Init PROVE JInv
  OBVIOUS
<1>1. Turned /\ Declared
  BY DEF Init, Turned, Measuring, Declared
<1>2. Nominated
  BY DEF Init, Nominated, Confirming
<1>3. Recorded
  <2> DEFINE first == [kind |-> "run_started"]
  <2>1. ledger = <<first>> /\ first.kind = "run_started"
    BY DEF Init
  <2> HIDE DEF first
  <2>2. <<first>> \in Seq({first}) /\ DOMAIN <<first>> = {1} /\ <<first>>[1] = first
    OBVIOUS
  <2>3. IsSequence(ledger) /\ At(ledger, "search_completed") = {} /\ ConfirmationsAt(ledger) = {}
    BY <2>1, <2>2 DEF IsSequence, At, ConfirmationsAt
  <2> QED
    BY <2>3 DEF Init, Recorded
<1> QED
  BY <1>1, <1>2, <1>3 DEF JInv

LEMMA OutcomeStutter == JInv /\ UNCHANGED vars => JInv'
<1> USE DEF vars, clockVars, budgetVars, turnVars, resultVars, outcomeVars
<1>1. Turned /\ UNCHANGED vars => Turned'
  BY DEF Turned, Measuring
<1>2. Declared /\ UNCHANGED vars => Declared'
  BY DEF Declared, CloseReason, Short, RoundedShort
<1>3. Nominated /\ UNCHANGED vars => Nominated'
  BY DEF Nominated, Confirming
<1>4. Recorded /\ UNCHANGED vars => Recorded'
  BY DEF Recorded, RalphState
<1> QED
  BY <1>1, <1>2, <1>3, <1>4 DEF JInv

LEMMA NextOutcome == IInv /\ JInv /\ [Next]_vars => JInv'
<1> SUFFICES ASSUME IInv, JInv, [Next]_vars PROVE JInv'
  OBVIOUS
<1>1. CASE Authoring
  BY <1>1, AuthoringKeeps
<1>2. CASE Building
  BY <1>2, BuildKeeps, FilterKeeps DEF Building
<1>3. CASE Evaluating
  BY <1>3, StartKeeps, EvaluationFaultKeeps, AnswerKeeps, AnswerConfirmationKeeps,
     SelectKeeps DEF Evaluating
<1>4. CASE Closing
  BY <1>4, StopSearchKeeps, CloseKeeps, SealRunKeeps DEF Closing
<1>5. CASE UNCHANGED vars
  BY <1>5, OutcomeStutter
<1> QED
  BY <1>1, <1>2, <1>3, <1>4, <1>5 DEF Next

LEMMA RunInvariant == Spec => [](IInv /\ JInv)
<1>1. Init => IInv /\ JInv
  BY InitInvariant, InitOutcome
<1>2. IInv /\ JInv /\ [Next]_vars => (IInv /\ JInv)'
  BY NextInvariant, NextOutcome
<1> QED
  BY <1>1, <1>2, PTL DEF Spec

-------------------------------------------------------------------------------
(* What a step may do to the outcome *)

(* A finished turn adds its observation, at the tokens spent so far. *)
Extended ==
    /\ pc \in {"build", "search"} /\ tokens' = tokens
    /\ \E o : o.tokens = tokens /\ observations' = Append(observations, o)

(* A step before the outcome, and not one towards it. *)
Quiet ==
    /\ pc # "sealed" /\ pc' # "sealed"
    /\ UNCHANGED <<source, confirmation, closedAt>>
    /\ tokens' >= tokens
    /\ UNCHANGED observations \/ Extended

LEMMA FaultIsQuiet ==
    ASSUME IInv, pc # "sealed", NEW written, NEW live, NEW fault, NEW usage \in Nat,
           RecordFault(written, live, fault, usage), UNCHANGED closedAt
    PROVE  Quiet
BY DEF RecordFault, Quiet, resultVars, IInv, TypeOK

LEMMA AppendIsQuiet ==
    ASSUME IInv, pc \in {"build", "search"}, pc' # "sealed",
           NEW candidate, NEW latency,
           observations' = Append(observations, Observation(turn, tokens, candidate, latency)),
           UNCHANGED <<source, confirmation, closedAt, tokens>>
    PROVE  Quiet
<1>1. Observation(turn, tokens, candidate, latency).tokens = tokens
  BY DEF Observation
<1>2. Extended
  BY <1>1 DEF Extended
<1> QED
  BY <1>2 DEF Quiet, IInv, TypeOK

LEMMA AuthoringIsQuiet == IInv /\ Authoring => Quiet
<1> USE DEF clockVars, budgetVars, turnVars, resultVars
<1>1. ASSUME IInv, AuthorTurn PROVE Quiet
  <2>1. PICK spent \in TokenSpends : tokens' = tokens + spent
    BY <1>1 DEF AuthorTurn
  <2>2. tokens' >= tokens
    BY <1>1, <2>1, InputAssumption DEF IInv, TypeOK
  <2> QED
    BY <1>1, <2>2 DEF AuthorTurn, Author, Quiet
<1>2. ASSUME IInv, AuthorFault PROVE Quiet
  <2>1. PICK duration \in Durations, usage \in {0} \cup TokenSpends :
           Author(duration) /\ RecordFault(<< >>, "provider", "provider_fault", usage)
    BY <1>2 DEF AuthorFault
  <2>2. usage \in Nat
    BY InputAssumption
  <2> QED
    BY <1>2, <2>1, <2>2, FaultIsQuiet DEF Author
<1>3. ASSUME IInv, ResolveActions PROVE Quiet
  BY <1>3 DEF ResolveActions, Quiet, IInv, TypeOK
<1>4. ASSUME IInv, ResolveFault PROVE Quiet
  BY <1>4, FaultIsQuiet DEF ResolveFault
<1> QED
  BY <1>1, <1>2, <1>3, <1>4 DEF Authoring

LEMMA BuildingIsQuiet == IInv /\ Building => Quiet
<1> USE DEF clockVars, budgetVars, turnVars, resultVars
<1>1. ASSUME IInv, BuildCandidate PROVE Quiet
  BY <1>1 DEF BuildCandidate, BuildStep, Quiet, IInv, TypeOK
<1>2. ASSUME IInv, BuildFault PROVE Quiet
  <2>1. PICK asked \in 0..MaxPermits, duration \in Durations :
           /\ BuildStep(asked, duration)
           /\ RecordFault(CompilationEvents(asked, elapsed'), "environment",
                          "harness_fault", 0)
    BY <1>2 DEF BuildFault
  <2> QED
    BY <1>2, <2>1, FaultIsQuiet DEF BuildStep
<1>3. ASSUME IInv, FilterEmpty PROVE Quiet
  BY <1>3, AppendIsQuiet DEF FilterEmpty, FilterReady, EndTurn
<1>4. ASSUME IInv, FilterAllRejected PROVE Quiet
  BY <1>4, AppendIsQuiet DEF FilterAllRejected, FilterReady, EndTurn
<1>5. ASSUME IInv, FilterSurvivors PROVE Quiet
  BY <1>5 DEF FilterSurvivors, FilterReady, Quiet, IInv, TypeOK
<1> QED
  BY <1>1, <1>2, <1>3, <1>4, <1>5 DEF Building

LEMMA BeginIsQuiet ==
    ASSUME IInv, pc # "sealed", NEW written, NEW purpose, NEW candidate,
           Begin(written, purpose, candidate)
    PROVE  Quiet
<1>1. CASE Affordable(purpose)
  BY <1>1 DEF Begin, Quiet, resultVars, IInv, TypeOK
<1>2. CASE ~Affordable(purpose)
  BY <1>2, FaultIsQuiet DEF Begin
<1> QED
  BY <1>1, <1>2

LEMMA EvaluatingIsQuiet == IInv /\ Evaluating => Quiet \/ AnswerConfirmation
<1> USE DEF clockVars, budgetVars, turnVars, resultVars
<1>1. ASSUME IInv, StartSearch \/ StartAttribution \/ StartConfirmation PROVE Quiet
  BY <1>1, BeginIsQuiet DEF StartSearch, StartAttribution, StartConfirmation
<1>2. ASSUME IInv, SealFault PROVE Quiet
  BY <1>2, FaultIsQuiet DEF SealFault
<1>3. ASSUME IInv, AnswerSearch PROVE Quiet
  <2>1. PICK invocation \in active, receipt \in Receipts :
           /\ Answer(invocation, receipt)
           /\ pc' \in {"profile", "search"} /\ UNCHANGED confirmation
    BY <1>3 DEF AnswerSearch
  <2> QED
    BY <1>3, <2>1 DEF Answer, Quiet, IInv, TypeOK
<1>4. ASSUME IInv, AnswerAttribution PROVE Quiet
  BY <1>4 DEF AnswerAttribution, Answer, Quiet, IInv, TypeOK
<1>5. ASSUME IInv, EvaluationFault PROVE Quiet
  BY <1>5, FaultIsQuiet DEF EvaluationFault
<1>6. ASSUME IInv, SelectCandidate PROVE Quiet
  BY <1>6, AppendIsQuiet DEF SelectCandidate, EndTurn
<1> QED
  BY <1>1, <1>2, <1>3, <1>4, <1>5, <1>6 DEF Evaluating

(* Every step is quiet or one of the three that lead to the outcome. *)
LEMMA StepShape ==
    IInv /\ Next =>
        Quiet \/ AnswerConfirmation \/ SealRun
        \/ (CloseSearch /\ \E duration \in Durations : /\ elapsed' = elapsed + duration
                                                       /\ CloseReason(elapsed') # "none")
<1> USE DEF clockVars, budgetVars, turnVars, resultVars
<1>1. ASSUME IInv, StopSearch PROVE Quiet
  BY <1>1 DEF StopSearch, Quiet, IInv, TypeOK
<1>2. ASSUME IInv, CloseSearch
      PROVE  Quiet \/ (CloseSearch /\ \E duration \in Durations :
                          elapsed' = elapsed + duration /\ CloseReason(elapsed') # "none")
  <2>1. PICK duration \in Durations :
           /\ pc = "close" /\ elapsed' = elapsed + duration
           /\ CloseReason(elapsed') = "none" =>
                 RecordFault(<< >>, stage, FaultOf(stage), 0) /\ UNCHANGED closedAt
    BY <1>2 DEF CloseSearch
  <2>2. CASE CloseReason(elapsed') = "none"
    BY <1>2, <2>1, <2>2, FaultIsQuiet
  <2> QED
    BY <1>2, <2>1, <2>2
<1> QED
  BY <1>1, <1>2, AuthoringIsQuiet, BuildingIsQuiet, EvaluatingIsQuiet DEF Next, Closing

-------------------------------------------------------------------------------
(* Theorems *)

(* complete_search finds the reason search stopped, however long the call  *)
(* before it took and whatever the limits, unless a clock rounds back below*)
(* the limit it had reached (ralph.py 192-204).                            *)
THEOREM SearchStops == Spec => []SearchStopIsDeclared
<1>1. IInv /\ JInv => SearchStopIsDeclared
  <2> SUFFICES ASSUME IInv, JInv, pc = "close", ~Short
               PROVE  /\ CloseReason(elapsed) # "none"
                      /\ \A duration \in Durations : CloseReason(elapsed + duration) # "none"
    BY DEF SearchStopIsDeclared, Short
  <2>1. \A delay \in Nat : CloseReason(elapsed + delay) # "none"
    BY DEF JInv, Declared
  <2>2. elapsed + 0 = elapsed /\ 0 \in Nat
    BY DEF IInv, TypeOK
  <2>3. CloseReason(elapsed + 0) # "none"
    BY <2>1, <2>2
  <2> QED
    BY <2>1, <2>2, <2>3, InputAssumption
<1> QED
  BY <1>1, RunInvariant, PTL

(* Limits that are whole numbers of the records' unit leave no such clock: *)
(* the search of such a Run always ends with a declared reason.            *)
THEOREM GridStops ==
    ASSUME SearchWall % Grid = 0, AuthoringLimit % Grid = 0
    PROVE  Spec => [](pc = "close" => CloseReason(elapsed) # "none")
<1>1. IInv /\ SearchStopIsDeclared => (pc = "close" => CloseReason(elapsed) # "none")
  <2> SUFFICES ASSUME IInv, SearchStopIsDeclared, pc = "close"
               PROVE  CloseReason(elapsed) # "none"
    OBVIOUS
  <2>1. elapsed \in Nat /\ authoring \in Nat /\ SearchWall \in Nat /\ AuthoringLimit \in Nat
    BY GridAssumption DEF IInv, TypeOK
  <2>2. elapsed >= SearchWall => ~(Rounded(elapsed) < SearchWall)
    BY <2>1, RoundedReaches, RoundedGrows
  <2>3. authoring >= AuthoringLimit => ~(Rounded(authoring) < AuthoringLimit)
    BY <2>1, RoundedReaches, RoundedGrows
  <2> QED
    BY <2>2, <2>3 DEF SearchStopIsDeclared, RoundedShort
<1> QED
  BY <1>1, RunInvariant, SearchStops, PTL

(* What a checkpoint shows does not depend on turns beyond it. *)
LEMMA LaterTurnIsNotEligible ==
    ASSUME NEW rows, NEW o, NEW boundary \in Nat, IsSequence(rows), o.tokens \in Nat,
           o.tokens > boundary
    PROVE  Fastest(Append(rows, o), boundary) = Fastest(rows, boundary)
<1> DEFINE n == Len(rows)
           longer == Append(rows, o)
           eligible(s) == {i \in 1..Len(s) :
                              /\ s[i].qualified
                              /\ boundary # Unlimited => s[i].tokens <= boundary}
           better(s, i, j) == \/ s[i].latency < s[j].latency
                              \/ s[i].latency = s[j].latency /\ i <= j
<1>1. /\ n \in Nat /\ Len(longer) = n + 1 /\ longer[n + 1] = o
      /\ \A i \in 1..n : longer[i] = rows[i]
  <2>1. PICK S : rows \in Seq(S)
    BY DEF IsSequence
  <2>2. rows \in Seq(S \cup {o}) /\ o \in S \cup {o}
    BY <2>1, SeqMonotonic
  <2> QED
    BY <2>2
<1>2. boundary # Unlimited
  BY TokenAssumption
<1> HIDE DEF longer, n
<1>3. \A i \in 1..(n + 1) : i \in 1..n \/ i = n + 1
  BY <1>1
<1>4. 1..n \subseteq 1..(n + 1)
  BY <1>1
<1>5. n + 1 \notin eligible(longer)
  BY <1>1, <1>2
<1>6. eligible(longer) = eligible(rows)
  <2>1. ASSUME NEW i \in eligible(longer) PROVE i \in eligible(rows)
    <3>1. i \in 1..(n + 1) /\ i # n + 1
      BY <1>1, <1>5
    <3>2. i \in 1..n /\ longer[i] = rows[i]
      BY <1>1, <1>3, <3>1
    <3> QED
      BY <3>2 DEF n
  <2>2. ASSUME NEW i \in eligible(rows) PROVE i \in eligible(longer)
    <3>1. i \in 1..n /\ longer[i] = rows[i] /\ i \in 1..Len(longer)
      BY <1>1, <1>4 DEF n
    <3> QED
      BY <3>1
  <2> QED
    BY <2>1, <2>2
<1>7. \A i \in eligible(rows) : longer[i] = rows[i]
  BY <1>1 DEF n
<1>8. Fastest(longer, boundary) =
        {longer[i] : i \in {k \in eligible(longer) :
                               \A j \in eligible(longer) : better(longer, k, j)}}
  BY DEF Fastest
<1>9. Fastest(rows, boundary) =
        {rows[i] : i \in {k \in eligible(rows) :
                             \A j \in eligible(rows) : better(rows, k, j)}}
  BY DEF Fastest
<1>10. {k \in eligible(longer) : \A j \in eligible(longer) : better(longer, k, j)}
         = {k \in eligible(rows) : \A j \in eligible(rows) : better(rows, k, j)}
  <2> HIDE DEF eligible
  <2> QED
    BY <1>6, <1>7
<1>11. Fastest(longer, boundary) = Fastest(rows, boundary)
  <2> DEFINE best == {k \in eligible(rows) : \A j \in eligible(rows) : better(rows, k, j)}
  <2>1. \A k \in best : longer[k] = rows[k]
    BY <1>7
  <2> HIDE DEF best
  <2>2. {longer[i] : i \in best} = {rows[i] : i \in best}
    BY <2>1
  <2> QED
    BY <1>8, <1>9, <1>10, <2>2 DEF best
<1> QED
  BY <1>11 DEF longer

(* No later turn rewrites the curve (checkpoints.py; execution.py 538-556):*)
(* what a passed checkpoint shows is settled, for every Run.               *)
THEOREM CurveIsSettled == Spec => NoBackfill
<1> DEFINE A == \A i \in DOMAIN Checkpoints :
                   (\E o \in Range(observations) : o.tokens >= Checkpoints[i])
                   => Project(observations, tokens, Checkpoints[i])' =
                      Project(observations, tokens, Checkpoints[i])
<1>1. ASSUME IInv, JInv, Next, NEW i \in DOMAIN Checkpoints,
             NEW o \in Range(observations), o.tokens >= Checkpoints[i]
      PROVE  Project(observations, tokens, Checkpoints[i])' =
             Project(observations, tokens, Checkpoints[i])
  <2> DEFINE boundary == Checkpoints[i]
  <2>1. boundary \in Nat
    BY TokenAssumption
  <2> HIDE DEF boundary
  <2>2. observations \in Seq(ObservationType) /\ tokens \in Nat
    BY <1>1 DEF IInv, TypeOK
  <2>3. PICK k \in 1..Len(observations) : o = observations[k]
    BY <2>2 DEF Range
  <2>4. /\ observations[k].tokens \in Nat /\ observations[k].tokens <= tokens
        /\ observations[k].tokens >= boundary
    BY <1>1, <2>3, ObservationTypes DEF JInv, Turned, boundary
  <2>5. ~(tokens < boundary)
    BY <2>1, <2>2, <2>4
  <2>6. IInv'
    BY <1>1, NextInvariant
  <2>7. tokens' >= tokens /\ (UNCHANGED observations \/ Extended)
    <3>1. CASE Quiet
      BY <3>1 DEF Quiet
    <3>2. CASE AnswerConfirmation
      BY <2>2, <3>2 DEF AnswerConfirmation, Answer
    <3>3. CASE SealRun
      BY <2>2, <3>3 DEF SealRun, resultVars
    <3>4. CASE CloseSearch /\ \E duration \in Durations :
                  elapsed' = elapsed + duration /\ CloseReason(elapsed') # "none"
      BY <2>2, <3>4 DEF CloseSearch
    <3> QED
      BY <1>1, <3>1, <3>2, <3>3, <3>4, StepShape
  <2>8. ~(tokens' < boundary)
    BY <2>1, <2>2, <2>5, <2>6, <2>7 DEF IInv, TypeOK
  <2>9. Fastest(observations', boundary) = Fastest(observations, boundary)
    <3>1. CASE UNCHANGED observations
      BY <3>1
    <3>2. CASE Extended
      <4>1. PICK new : new.tokens = tokens /\ observations' = Append(observations, new)
        BY <3>2 DEF Extended
      <4>2. observations[k].tokens < tokens
        BY <1>1, <3>2 DEF Extended, JInv, Turned, Measuring
      <4>3. new.tokens \in Nat /\ new.tokens > boundary
        BY <2>1, <2>2, <2>4, <4>1, <4>2
      <4>4. IsSequence(observations)
        BY <2>2 DEF IsSequence
      <4> QED
        BY <2>1, <4>1, <4>3, <4>4, LaterTurnIsNotEligible
    <3> QED
      BY <2>7, <3>1, <3>2
  <2>10. Project(observations', tokens', boundary) = Project(observations, tokens, boundary)
    BY <2>5, <2>8, <2>9 DEF Project
  <2> QED
    BY <2>10 DEF boundary
<1>2. IInv /\ JInv /\ [Next]_vars => [A]_vars
  BY <1>1
<1> QED
  BY <1>2, RunInvariant, PTL DEF Spec, NoBackfill

(* The final checkpoint is the token limit of the Run. *)
LEMMA FinalIsLimit ==
    /\ Limit # Unlimited => FinalBoundary = Limit
    /\ Limit = Unlimited => FinalBoundary = Unlimited
BY TokenAssumption DEF FinalBoundary

LEMMA SealedElapsed ==
    ASSUME IInv, JInv, closedAt # {}
    PROVE  LET closed == The(ledger, At(ledger, "search_completed")).state.elapsed
           IN closedAt = {closed} /\ (CHOOSE time \in closedAt : TRUE) = closed
<1> DEFINE closed == The(ledger, At(ledger, "search_completed")).state.elapsed
<1>1. PICK i \in DOMAIN ledger : /\ At(ledger, "search_completed") = {i}
                                 /\ ledger[i].state.elapsed \in closedAt
  BY DEF JInv, Recorded
<1>2. closed = ledger[i].state.elapsed
  <2>1. (CHOOSE j \in {i} : TRUE) = i
    OBVIOUS
  <2> QED
    BY <1>1, <2>1 DEF The
<1> HIDE DEF closed
<1>3. closed \in closedAt /\ \A x, y \in closedAt : x = y
  BY <1>1, <1>2 DEF IInv, TypeOK, AtMostOne
<1>4. closedAt = {closed}
  BY <1>3
<1>5. (CHOOSE time \in closedAt : TRUE) = closed
  BY <1>4
<1> QED
  BY <1>4, <1>5 DEF closed

(* A success is within budget and is the nominee's own measurement         *)
(* (endpoints.py, matched_endpoint; ralph.py, exceeded_run_budgets).       *)
THEOREM SuccessIsWithinBudget == Spec => []QualifiedWithinBudget
<1>1. IInv /\ JInv => QualifiedWithinBudget
  <2> DEFINE endpoint == Terminal(ledger).endpoint
             closed == The(ledger, At(ledger, "search_completed")).state.elapsed
             confirmed == ConfirmationsAt(ledger)
             exceeded == RalphState(elapsed, closedAt, reason).exceeded
             qualified == {o \in confirmation :
                             /\ o.latency > 0
                             /\ FinalBoundary # Unlimited => tokens <= FinalBoundary
                             /\ exceeded = {}}
  <2> SUFFICES ASSUME IInv, JInv, pc = "sealed", endpoint.observation = "qualified"
               PROVE  /\ adherence = "adhered" /\ endpoint.exceeded = {}
                      /\ Limit # Unlimited => tokens <= Limit
                      /\ Rounded(authoring) <= AuthoringLimit
                      /\ closed <= SearchWall
                      /\ Rounded(elapsed) <= closed + ConfirmationWall
                      /\ counts["confirmatory"] = 1 /\ Cardinality(confirmed) = 1
                      /\ \E o \in Range(observations) :
                            /\ o.turn = source /\ o.qualified
                            /\ \A other \in Range(observations) :
                                  other.qualified => o.latency <= other.latency
                            /\ {b.candidate : b \in endpoint.best} = {o.candidate}
                            /\ \A i \in confirmed :
                                  /\ ledger[i].candidate = o.candidate
                                  /\ endpoint.best =
                                        {[candidate |-> o.candidate,
                                          latency |-> ledger[i].receipt.latency]}
    BY DEF QualifiedWithinBudget
  <2>1. endpoint = Endpoint(tokens, adherence, reason, confirmation, exceeded)
    BY DEF JInv, Recorded
  <2>2. /\ adherence = "adhered" /\ qualified # {} /\ endpoint.exceeded = exceeded
        /\ endpoint.best = {[candidate |-> o.candidate, latency |-> o.latency] : o \in qualified}
    <3> HIDE DEF endpoint, exceeded
    <3>1. endpoint = IF \/ adherence # "adhered"
                        \/ ~NormalTerminal /\ tokens < FinalBoundary
                     THEN [observation |-> "missing", best |-> {}, exceeded |-> {}]
                     ELSE [observation |-> IF qualified # {} THEN "qualified"
                                           ELSE "no_qualified_candidate",
                           best |-> {[candidate |-> o.candidate, latency |-> o.latency] :
                                        o \in qualified},
                           exceeded |-> exceeded]
      BY <2>1 DEF Endpoint
    <3> HIDE DEF qualified
    <3> QED
      BY <3>1
  <2>3. PICK c \in confirmation :
           /\ c.latency > 0 /\ exceeded = {}
           /\ FinalBoundary # Unlimited => tokens <= FinalBoundary
    BY <2>2
  <2>4. confirmation = {c} /\ qualified = {c}
    <3>1. confirmation = {c}
      BY <2>3 DEF IInv, TypeOK, AtMostOne
    <3> QED
      BY <2>2, <3>1
  <2>5. endpoint.best = {[candidate |-> c.candidate, latency |-> c.latency]}
    <3> HIDE DEF qualified, endpoint
    <3> QED
      BY <2>2, <2>4
  <2> HIDE DEF endpoint, closed, exceeded, qualified
  <2>6. closedAt # {} /\ source # 0 /\ counts["confirmatory"] = 1
    BY <2>3 DEF IInv, ConfirmationReserved, JInv, Nominated
  <2>7. Limit # Unlimited => tokens <= Limit
    BY <2>3, FinalIsLimit, TokenAssumption
  <2>8. /\ Rounded(authoring) <= AuthoringLimit /\ closed <= SearchWall
        /\ Rounded(elapsed) <= closed + ConfirmationWall
    <3>1. closedAt = {closed} /\ (CHOOSE time \in closedAt : TRUE) = closed
      BY <2>6, SealedElapsed DEF closed
    <3>2. exceeded = ExceededBudgets(tokens, Rounded(authoring), closed, Rounded(elapsed))
      BY <2>6, <3>1 DEF exceeded, RalphState
    <3>3. /\ ~(Rounded(authoring) > AuthoringLimit) /\ ~(closed > SearchWall)
          /\ ~(Rounded(elapsed) > closed + ConfirmationWall)
      <4> DEFINE e == [provider_tokens |-> Limit # Unlimited /\ tokens > Limit,
                       active_authoring_time |-> Rounded(authoring) > AuthoringLimit,
                       search_wall_time |-> closed > SearchWall,
                       confirmation_wall_time |->
                          Rounded(elapsed) > closed + ConfirmationWall]
      <4>1. exceeded = {name \in DOMAIN e : e[name]}
        BY <3>2 DEF ExceededBudgets
      <4>2. /\ "active_authoring_time" \in DOMAIN e /\ "search_wall_time" \in DOMAIN e
            /\ "confirmation_wall_time" \in DOMAIN e
        OBVIOUS
      <4>3. /\ e["active_authoring_time"] = (Rounded(authoring) > AuthoringLimit)
            /\ e["search_wall_time"] = (closed > SearchWall)
            /\ e["confirmation_wall_time"] = (Rounded(elapsed) > closed + ConfirmationWall)
        OBVIOUS
      <4> HIDE DEF e
      <4>4. /\ ~e["active_authoring_time"] /\ ~e["search_wall_time"]
            /\ ~e["confirmation_wall_time"]
        BY <2>3, <4>1, <4>2
      <4> QED
        BY <4>3, <4>4
    <3>4. /\ Rounded(authoring) \in Nat /\ closed \in Nat /\ Rounded(elapsed) \in Nat
          /\ AuthoringLimit \in Nat /\ SearchWall \in Nat /\ ConfirmationWall \in Nat
      BY <3>1, RoundedType, GridAssumption DEF IInv, TypeOK
    <3> QED
      BY <3>3, <3>4
  <2>9. PICK i \in DOMAIN ledger :
           /\ confirmed = {i} /\ ledger[i].candidate = c.candidate
           /\ ledger[i].receipt.latency = c.latency
    BY DEF JInv, Recorded
  <2>10. Cardinality(confirmed) = 1
    <3> HIDE DEF confirmed
    <3> QED
      BY <2>9, FS_Singleton
  <2> DEFINE o == observations[source]
  <2>11. /\ source \in 1..Len(observations) /\ o \in Nominee(observations)
         /\ c.candidate = o.candidate
    BY <2>6 DEF JInv, Nominated
  <2>12. o \in Range(observations) /\ o.turn = source
    BY <2>11 DEF JInv, Turned, Range, IInv, TypeOK
  <2>13. PICK k \in 1..Len(observations) :
            /\ o = observations[k] /\ observations[k].qualified
            /\ \A j \in 1..Len(observations) :
                  /\ observations[j].qualified
                  /\ Limit # Unlimited => observations[j].tokens <= Limit
                  => \/ observations[k].latency < observations[j].latency
                     \/ observations[k].latency = observations[j].latency /\ k <= j
    BY <2>11, NomineeIsObservation
  <2>14. \A other \in Range(observations) : other.qualified => o.latency <= other.latency
    <3> SUFFICES ASSUME NEW j \in 1..Len(observations), observations[j].qualified
                 PROVE  o.latency <= observations[j].latency
      BY SMTT(30) DEF Range, IInv, TypeOK
    <3>1. /\ observations[j].latency \in Nat /\ observations[k].latency \in Nat
          /\ observations[j].tokens \in Nat /\ observations[j].tokens <= tokens
          /\ tokens \in Nat /\ (Limit # Unlimited => Limit \in Nat)
      <4>1. AnyLatency \subseteq Nat
        BY CandidateAssumption DEF AnyLatency
      <4> QED
        BY <4>1, ObservationTypes, TokenAssumption DEF JInv, Turned, IInv, TypeOK
    <3>2. Limit # Unlimited => observations[j].tokens <= Limit
      BY <2>7, <3>1
    <3> HIDE DEF o
    <3> QED
      BY <2>13, <3>1, <3>2
  <2> HIDE DEF o, confirmed
  <2>15. {b.candidate : b \in endpoint.best} = {o.candidate}
    BY <2>5, <2>11
  <2>16. \A j \in confirmed :
            /\ ledger[j].candidate = o.candidate
            /\ endpoint.best = {[candidate |-> o.candidate,
                                 latency |-> ledger[j].receipt.latency]}
    BY <2>5, <2>9, <2>11
  <2>17. o.qualified /\ endpoint.exceeded = {}
    BY <2>2, <2>3, <2>13
  <2> QED
    BY <2>2, <2>6, <2>7, <2>8, <2>10, <2>12, <2>14, <2>15, <2>16, <2>17
<1> QED
  BY <1>1, RunInvariant, PTL

-------------------------------------------------------------------------------
(* The protocol a Run implements *)

LEMMA NomineeStands ==
    ASSUME NEW rows \in Seq(ObservationType), NEW s \in 1..Len(rows), rows[s] \in Nominee(rows),
           \A i \in 1..Len(rows) : /\ rows[i].turn = i
                                   /\ rows[i].qualified => rows[i].candidate \in Candidates
    PROVE  /\ (CHOOSE o \in Range(rows) : o.turn = s) = rows[s]
           /\ rows[s].candidate \in Candidates
<1>1. /\ rows[s] \in Range(rows) /\ rows[s].turn = s
      /\ \A o \in Range(rows) : o.turn = s => o = rows[s]
  BY DEF Range
<1>2. (CHOOSE o \in Range(rows) : o.turn = s) = rows[s]
  BY <1>1
<1>3. PICK k \in 1..Len(rows) : rows[s] = rows[k] /\ rows[k].qualified
  BY NomineeIsObservation
<1> QED
  BY <1>2, <1>3

LEMMA TheNominee ==
    ASSUME IInv, JInv, source # 0
    PROVE  /\ (CHOOSE o \in Range(observations) : o.turn = source) = observations[source]
           /\ observations[source].candidate \in Candidates
<1>1. /\ source \in 1..Len(observations) /\ observations[source] \in Nominee(observations)
      /\ observations \in Seq(ObservationType)
      /\ \A i \in 1..Len(observations) :
            /\ observations[i].turn = i
            /\ observations[i].qualified => observations[i].candidate \in Candidates
  BY DEF JInv, Nominated, Turned, IInv, TypeOK
<1> QED
  BY <1>1, NomineeStands

(* A Run's controller and ledger show an instance of the protocol: search  *)
(* closes once, the nominee is confirmed once, and the outcome rests on it *)
(* (execution.py 558-635, endpoints.py).                                   *)
THEOREM RunImplementsProtocol == Spec => ImplementsProtocol
<1> DEFINE phase == IF pc = "sealed" THEN "concluded"
                    ELSE IF confirmation # {} THEN "confirmed"
                    ELSE IF closedAt # {} THEN "nominated" ELSE "search"
           nominee == IF source = 0 THEN NoCandidate
                      ELSE (CHOOSE o \in Range(observations) : o.turn = source).candidate
           measured == {[candidate |-> c.candidate, latency |-> c.latency] :
                           c \in confirmation}
           outcome == IF pc # "sealed" THEN [observation |-> "none", best |-> {}]
                      ELSE [observation |-> Terminal(ledger).endpoint.observation,
                            best |-> Terminal(ledger).endpoint.best]
           view == <<phase, nominee, measured, outcome>>
<1>1. Init => Protocol!Init
  BY DEF Init, Protocol!Init, Protocol!Nothing
<1>2. ASSUME IInv, JInv, Quiet, IInv', JInv' PROVE UNCHANGED view
  <2>1. phase' = phase /\ measured' = measured /\ outcome' = outcome
    BY <1>2 DEF Quiet
  <2>2. nominee' = nominee
    <3>1. CASE source = 0
      BY <1>2, <3>1 DEF Quiet
    <3>2. CASE source # 0 /\ UNCHANGED observations
      BY <1>2, <3>2 DEF Quiet
    <3>3. CASE source # 0 /\ Extended
      BY <1>2, <3>3, Searching DEF Extended, JInv
    <3> QED
      BY <1>2, <3>1, <3>2, <3>3 DEF Quiet
  <2> HIDE DEF phase, nominee, measured, outcome
  <2> QED
    BY <2>1, <2>2
<1>3. ASSUME IInv, JInv, IInv', JInv', CloseSearch, NEW duration \in Durations,
             elapsed' = elapsed + duration, CloseReason(elapsed') # "none"
      PROVE  Protocol!Nominate
  <2>1. /\ pc = "close" /\ closedAt' = {Rounded(elapsed')} /\ pc' \in {"seal", "confirm"}
        /\ UNCHANGED confirmation
    BY <1>3 DEF CloseSearch
  <2>2. closedAt = {} /\ confirmation = {}
    BY <1>3, <2>1, Searching DEF JInv
  <2>3. phase = "search" /\ phase' = "nominated" /\ UNCHANGED <<measured, outcome>>
    BY <2>1, <2>2
  <2>4. nominee' \in Candidates \cup {NoCandidate}
    <3>1. CASE source' = 0
      BY <3>1
    <3>2. CASE source' # 0
      <4>1. /\ source' \in 1..Len(observations')
            /\ observations'[source'] \in Nominee(observations')
            /\ observations' \in Seq(ObservationType)
            /\ \A i \in 1..Len(observations') :
                  /\ observations'[i].turn = i
                  /\ observations'[i].qualified => observations'[i].candidate \in Candidates
        BY <1>3, <3>2 DEF JInv, Nominated, Turned, IInv, TypeOK
      <4>2. /\ (CHOOSE o \in Range(observations') : o.turn = source') = observations'[source']
            /\ observations'[source'].candidate \in Candidates
        BY <4>1, NomineeStands
      <4> QED
        BY <3>2, <4>2
    <3> QED
      BY <3>1, <3>2
  <2> HIDE DEF phase, nominee, measured, outcome
  <2> QED
    BY <2>3, <2>4 DEF Protocol!Nominate, phase, nominee, measured, outcome
<1>4. ASSUME IInv, JInv, AnswerConfirmation
      PROVE  \E latency \in {0} \cup Latencies : Protocol!Confirm(latency)
  <2>1. PICK invocation \in active, receipt \in Receipts :
           /\ invocation.purpose = "confirmatory" /\ Answer(invocation, receipt)
           /\ confirmation' = {Confirmation(source, invocation.candidate, tokens,
                                            receipt.latency)}
           /\ pc' \in {"profile", "seal"}
    BY <1>4 DEF AnswerConfirmation
  <2>2. /\ pc = "evaluate" /\ source # 0 /\ closedAt # {}
        /\ UNCHANGED <<observations, source, closedAt>>
    BY <1>4, <2>1, AnswerFacts DEF IInv, InPhase, budgetVars
  <2>3. confirmation = {} /\ invocation.candidate = observations[source].candidate
    BY <1>4, <2>1 DEF JInv, Nominated, Confirming
  <2>4. nominee = observations[source].candidate /\ nominee \in Candidates
    BY <1>4, <2>2, TheNominee
  <2>5. phase = "nominated" /\ phase' = "confirmed" /\ UNCHANGED <<nominee, outcome>>
    BY <2>1, <2>2, <2>3
  <2>6. measured' = {[candidate |-> nominee, latency |-> receipt.latency]}
    <3> DEFINE made == Confirmation(source, invocation.candidate, tokens, receipt.latency)
    <3>1. made.candidate = nominee /\ made.latency = receipt.latency
      BY <2>3, <2>4 DEF Confirmation
    <3>2. confirmation' = {made}
      BY <2>1
    <3> HIDE DEF made, nominee
    <3> QED
      BY <3>1, <3>2
  <2>7. nominee # NoCandidate /\ receipt.latency \in {0} \cup Latencies
    BY <2>4, CandidateAssumption DEF Receipts
  <2>8. Protocol!Confirm(receipt.latency)
    <3> HIDE DEF phase, nominee, measured, outcome
    <3> QED
      BY <2>5, <2>6, <2>7 DEF Protocol!Confirm, phase, nominee, measured, outcome
  <2> QED
    BY <2>7, <2>8
<1>5. ASSUME IInv, JInv, SealRun, JInv'
      PROVE  Protocol!Conclude
  <2>1. /\ pc = "seal" /\ pc' = "sealed"
        /\ UNCHANGED <<observations, source, confirmation, closedAt, tokens, adherence, reason>>
    BY <1>5 DEF SealRun, budgetVars, resultVars, outcomeVars
  <2>2. phase # "concluded" /\ phase' = "concluded" /\ UNCHANGED <<nominee, measured>>
    BY <2>1
  <2> DEFINE exceeded == RalphState(elapsed, closedAt, reason)'.exceeded
             qualified == {o \in confirmation :
                             /\ o.latency > 0
                             /\ FinalBoundary # Unlimited => tokens <= FinalBoundary
                             /\ exceeded = {}}
             endpoint == Terminal(ledger)'.endpoint
  <2>3. endpoint = Endpoint(tokens, adherence, reason, confirmation, exceeded)
    BY <1>5, <2>1 DEF JInv, Recorded
  <2> HIDE DEF exceeded
  <2>4. \/ endpoint.observation = "missing" /\ endpoint.best = {}
        \/ /\ adherence = "adhered"
           /\ endpoint.observation = IF qualified # {} THEN "qualified"
                                     ELSE "no_qualified_candidate"
           /\ endpoint.best = {[candidate |-> o.candidate, latency |-> o.latency] :
                                  o \in qualified}
    <3> HIDE DEF endpoint
    <3>1. endpoint = IF \/ adherence # "adhered"
                        \/ ~NormalTerminal /\ tokens < FinalBoundary
                     THEN [observation |-> "missing", best |-> {}, exceeded |-> {}]
                     ELSE [observation |-> IF qualified # {} THEN "qualified"
                                           ELSE "no_qualified_candidate",
                           best |-> {[candidate |-> o.candidate, latency |-> o.latency] :
                                        o \in qualified},
                           exceeded |-> exceeded]
      BY <2>3 DEF Endpoint
    <3> HIDE DEF qualified
    <3> QED
      BY <3>1
  <2>5. outcome' = [observation |-> endpoint.observation, best |-> endpoint.best]
    BY <2>1
  <2> HIDE DEF endpoint
  <2>6. outcome' \in Protocol!Success \cup Protocol!NoSuccess
    <3>1. CASE endpoint.observation = "missing" /\ endpoint.best = {}
      BY <2>5, <3>1 DEF Protocol!NoSuccess
    <3>2. CASE /\ adherence = "adhered"
               /\ endpoint.observation = "no_qualified_candidate" /\ endpoint.best = {}
      <4>1. closedAt # {} /\ (source = 0 \/ confirmation # {})
        BY <1>5, <2>1, <3>2 DEF JInv, Nominated
      <4>2. phase = "confirmed" \/ (phase = "nominated" /\ nominee = NoCandidate)
        BY <2>1, <4>1
      <4> HIDE DEF phase, nominee, outcome, measured
      <4> QED
        BY <2>5, <3>2, <4>2 DEF Protocol!NoSuccess, phase, nominee
    <3>3. CASE /\ endpoint.observation = "qualified" /\ qualified # {}
               /\ endpoint.best = {[candidate |-> o.candidate, latency |-> o.latency] :
                                      o \in qualified}
      <4>1. PICK c \in qualified : TRUE
        BY <3>3
      <4>2. qualified = {c} /\ c \in confirmation /\ c.latency > 0
        BY <1>5, <4>1 DEF IInv, TypeOK, AtMostOne
      <4> DEFINE m == [candidate |-> c.candidate, latency |-> c.latency]
      <4>3. m \in measured /\ m.latency > 0
        BY <4>2
      <4>4. endpoint.best = {m}
        <5> HIDE DEF qualified
        <5> QED
          BY <3>3, <4>2
      <4> HIDE DEF m, outcome, qualified
      <4>5. outcome' = [observation |-> "qualified", best |-> {m}]
        BY <2>5, <3>3, <4>4
      <4> QED
        BY <4>3, <4>5 DEF Protocol!Success
    <3>4. qualified = {} => {[candidate |-> o.candidate, latency |-> o.latency] :
                                o \in qualified} = {}
      OBVIOUS
    <3> HIDE DEF qualified, outcome
    <3> QED
      BY <2>4, <3>1, <3>2, <3>3, <3>4
  <2> HIDE DEF phase, nominee, measured, outcome
  <2> QED
    BY <2>2, <2>6 DEF Protocol!Conclude, phase, nominee, measured, outcome
<1>6. ASSUME IInv, JInv, IInv', JInv', [Next]_vars
      PROVE  [Protocol!Next]_view
  <2>1. CASE UNCHANGED vars
    BY <2>1 DEF vars, budgetVars, resultVars
  <2>2. CASE Next
    <3> HIDE DEF view
    <3> QED
      BY <1>2, <1>3, <1>4, <1>5, <1>6, <2>2, StepShape DEF Protocol!Next
  <2> QED
    BY <1>6, <2>1, <2>2
<1> QED
  BY <1>1, <1>6, RunInvariant, PTL
     DEF Spec, ImplementsProtocol, Protocol!Spec, Protocol!vars, view
-------------------------------------------------------------------------------
(* What the ledger of a Run in progress says: KInv *)

(* The turn in progress, or the one to begin. *)
Upcoming == Len(observations) + 1

(* Its candidate set is filtered, and it is not yet selected from.         *)
InSearch == pc = "search" \/ (source = 0 /\ pc \in {"evaluate", "profile"})

OpenKinds == Kinds \ {"run_started", "checkpoints_projected", "run_terminal"}

(* A Run not yet sealed has one start, and nothing that seals it.          *)
Formed(log) ==
    /\ Len(log) >= 1 /\ log[1].kind = "run_started"
    /\ \A i \in 2..Len(log) : log[i].kind \in OpenKinds

(* Nothing bears a later turn than the one in progress.                    *)
Ordered(log, now) ==
    /\ \A i \in 1..Len(log) : TurnBearing(log[i]) => log[i].turn \in Nat /\ log[i].turn <= now
    /\ InTurnOrder(log)

Dated(log, now) ==
    /\ \A i \in 1..Len(log) : Clocked(log[i]) => ClockOf(log[i]) \in Nat /\ ClockOf(log[i]) <= now
    /\ ClockMonotone(log)

(* Each settled turn has one event of the kind, the next turn at most one, *)
(* and no other turn any.                                                  *)
Numbered(log, kind, settled) ==
    /\ \A i \in At(log, kind) : log[i].turn \in 1..(settled + 1)
    /\ \A t \in 1..settled : \E i \in DOMAIN log : AtTurn(log, kind, t) = {i}
    /\ \A i, j \in AtTurn(log, kind, settled + 1) : i = j

(* A completed turn cost what its observation says.                        *)
Paid(log, rows, spent) ==
    \A i \in At(log, "provider_turn_completed") :
        log[i].tokens = IF log[i].turn <= Len(rows) THEN rows[log[i].turn].tokens ELSE spent

(* A turn is resolved after its author's turn and before it is filtered.   *)
Preceded(log) ==
    /\ \A i \in At(log, "author_actions_resolved") :
          \E j \in AtTurn(log, "provider_turn_completed", log[i].turn) : j < i
    /\ \A i \in 1..Len(log) :
          log[i].kind \in {"candidate_set_filtered", "candidate_rejected",
                           "launchable_candidate_sealed", "candidate_selected"}
          => \E j \in AtTurn(log, "author_actions_resolved", log[i].turn) : j < i

(* replay/compilations.py, before search closes. *)
Unlaunched(log, i) ==
    \A j \in AtTurn(log, "candidate_set_filtered", log[i].turn) :
        \A n \in DOMAIN log[j].order :
            log[j].order[n].candidate = log[i].candidate => ~log[j].order[n].launchable
Permits(log, count) ==
    /\ CompilationCount(log) = count
    /\ \A i \in At(log, "compilation_started") :
          /\ PermitPlaced(log, i)
          /\ log[i].number = Earlier(At(log, "compilation_started"), i) + 1
          /\ i < Len(log) /\ log[i + 1].kind = "compilation_completed"
    /\ \A i \in At(log, "compilation_completed") :
          /\ i > 1 /\ log[i - 1].kind = "compilation_started"
          /\ log[i].turn = log[i - 1].turn /\ log[i].candidate = log[i - 1].candidate
          /\ log[i].number = log[i - 1].number
    /\ \A i \in At(log, "compilation_refused") :
          /\ PermitPlaced(log, i)
          /\ Earlier(At(log, "compilation_started"), i) = MaximumCompilations
          /\ Unlaunched(log, i)

(* What the events before an Evaluation's start say of it.                 *)
SearchPlaced(log, i) ==
    \E j \in AtTurn(log, "candidate_set_filtered", log[i].turn) :
        LET wanted == SearchPlan(log[j].order)
            prior == StartedBefore(log, i, log[i].turn, "search")
        IN j < i /\ prior < Len(wanted) /\ wanted[prior + 1] = log[i].candidate
ConfirmatoryPlaced(log, i) ==
    /\ \A j \in At(log, "evaluation_attempt_started") :
          j < i => log[j].purpose # "confirmatory"
    /\ \E j \in AtTurn(log, "candidate_selected", log[i].turn) :
          /\ j < i /\ log[j].candidate = log[i].candidate
          /\ \E n \in DOMAIN log[j].qualified : log[j].qualified[n] = log[i].candidate
    /\ CompletedBefore(log, i, <<log[i].turn, "search", log[i].candidate>>)
AttributionPlaced(log, i) ==
    \/ /\ Attribution = "each"
       /\ \E j \in Evaluated(log, <<log[i].turn, "search", log[i].candidate>>) :
             j < i /\ log[j].receipt.correct
    \/ /\ Attribution = "selected"
       /\ \E j \in Evaluated(log, <<log[i].turn, "confirmatory", log[i].candidate>>) :
             j < i /\ Qualifies(log[j].receipt)
Placed(log, i) ==
    /\ \E j \in SealedAt(log, log[i].turn, log[i].candidate) : j < i
    /\ IF log[i].origin = "source_turn"
       THEN /\ log[i].purpose # "search"
            /\ \E j \in At(log, "candidate_nominated") :
                  j < i /\ log[j].turn = log[i].turn /\ log[j].candidate = log[i].candidate
       ELSE /\ \A j \in At(log, "search_completed") : i < j
            /\ log[i].purpose # "confirmatory"
    /\ log[i].purpose \in Purposes
    /\ log[i].purpose = "search" => SearchPlaced(log, i)
    /\ log[i].purpose = "confirmatory" => ConfirmatoryPlaced(log, i)
    /\ log[i].purpose = "attribution" => AttributionPlaced(log, i)

(* Evaluations are transactions; the last may be in flight.                *)
Chained(log, pending) ==
    /\ \A i, j \in At(log, "evaluation_attempt_started") :
          EvaluationKey(log[i]) = EvaluationKey(log[j]) => i = j
    /\ \A i \in At(log, "evaluation_attempt_started") :
          /\ Placed(log, i)
          /\ IF i = Len(log) THEN pending
             ELSE Follows(log, i, "evaluation_attempt_completed") \/ Interrupted(log, i)
    /\ \A i \in At(log, "evaluation_attempt_completed") :
          /\ i > 1 /\ log[i - 1].kind = "evaluation_attempt_started"
          /\ SameInvocation(log, i - 1, i)
          /\ IF i = Len(log) THEN pending
             ELSE Follows(log, i, "candidate_evaluated") \/ Interrupted(log, i)
    /\ \A i \in At(log, "candidate_evaluated") :
          /\ i > 1 /\ log[i - 1].kind = "evaluation_attempt_completed"
          /\ log[i - 1].answered /\ SameInvocation(log, i - 1, i)

Starts(log, purpose) ==
    {i \in At(log, "evaluation_attempt_started") : log[i].purpose = purpose}
Tallied(log, used) == \A purpose \in Purposes : Cardinality(Starts(log, purpose)) = used[purpose]

(* replay/selection.py on the filter, its rejections and what it sealed.   *)
Sifted(log) ==
    /\ \A i \in At(log, "candidate_set_filtered") :
          /\ log[i].order \in Seq(Row)
          /\ FilterReplays(log, log[i].turn)
          /\ \A n \in DOMAIN log[i].order : ~log[i].order[n].launchable =>
                \E j \in AtTurn(log, "candidate_rejected", log[i].turn) :
                    log[j].candidate = log[i].order[n].candidate
    /\ \A i \in At(log, "candidate_rejected") :
          \E j \in AtTurn(log, "candidate_set_filtered", log[i].turn) :
              \E n \in DOMAIN log[j].order : /\ log[j].order[n].candidate = log[i].candidate
                                             /\ ~log[j].order[n].launchable
    /\ \A i, j \in At(log, "candidate_rejected") :
          log[i].turn = log[j].turn /\ log[i].candidate = log[j].candidate => i = j
Sealed(log, pending) ==
    \A i \in At(log, "launchable_candidate_sealed") :
        /\ \E j \in AtTurn(log, "candidate_set_filtered", log[i].turn) :
              j < i /\ \E n \in DOMAIN log[j].order :
                  log[j].order[n].candidate = log[i].candidate /\ log[j].order[n].launchable
        /\ IF i = Len(log) THEN pending
           ELSE /\ log[i + 1].kind = "evaluation_attempt_started"
                /\ EvaluationKey(log[i + 1]) = <<log[i].turn, "search", log[i].candidate>>

SearchesAt(log, t) ==
    {i \in AtTurn(log, "candidate_evaluated", t) : log[i].purpose = "search"}
AttributionsAt(log, t) ==
    {i \in AtTurn(log, "candidate_evaluated", t) : log[i].purpose = "attribution"}
CorrectOf(rows) == {rows[n].candidate : n \in {m \in DOMAIN rows : rows[m].receipt.correct}}

(* A selected turn's selection is the one its receipts give, and its       *)
(* observation is what they showed.                                        *)
Chosen(log, t) ==
    LET selection == Selection(log, t)
        order == Rows(log, t)
        searches == TurnSearches(log, t)
        qualified == QualifiedSearches(searches)
    IN CASE order = << >> ->
              /\ selection.candidate = NoCandidate /\ selection.qualified = << >>
              /\ selection.reason = "no_candidate_produced" /\ searches = << >>
         [] order # << >> /\ selection.reason = "all_candidates_rejected" ->
              /\ selection.candidate = order[1].candidate
              /\ LaunchableRows(order) = {} /\ searches = << >>
              /\ selection.qualified = << >>
         [] OTHER ->
              /\ searches # << >>
              /\ CandidatesOf(searches) = SearchPlan(order)
              /\ selection.qualified = CandidatesOf(AtPositions(searches, qualified))
              /\ selection.candidate = searches[BestSearch(searches)].candidate
              /\ selection.reason = IF qualified # {} THEN "lowest_qualified_search_latency"
                                    ELSE "no_qualified_search_candidate"
Observed(log, t, seen) ==
    /\ Selection(log, t).candidate = seen.candidate
    /\ \A i \in SearchesAt(log, t) :
          log[i].candidate = seen.candidate => log[i].receipt.latency = seen.latency
    /\ seen.qualified =>
          /\ \E i \in SearchesAt(log, t) : log[i].candidate = seen.candidate
          /\ \E n \in DOMAIN Selection(log, t).qualified :
                Selection(log, t).qualified[n] = seen.candidate
Diagnosed(log, t) ==
    LET observed == AtTurn(log, "diagnosis_routed", t)
        collapsed == Collapsed(Rows(log, t))
    IN IF collapsed = {} THEN observed = {}
       ELSE \E i \in DOMAIN log : observed = {i} /\ log[i].collapsed = collapsed
Profiles(log, t) ==
    ProfileEach => {log[i].candidate : i \in AttributionsAt(log, t)}
                      = CorrectOf(TurnSearches(log, t))
Settled(log, t, seen) ==
    /\ Chosen(log, t) /\ Observed(log, t, seen)
    /\ Diagnosed(log, t) /\ Profiles(log, t)

(* The turn in progress. *)
Has(kind) == AtTurn(ledger, kind, Upcoming) # {}
Standing ==
    /\ adherence = "adhered" =>
          /\ Has("provider_turn_completed") <=> Measuring
          /\ Has("author_actions_resolved") <=> pc = "build" \/ InSearch
          /\ Has("candidate_set_filtered") <=> InSearch
    /\ ~Has("candidate_selected")
    /\ Has("candidate_set_filtered") => Has("author_actions_resolved")
    /\ Has("author_actions_resolved") => Has("provider_turn_completed")
    /\ pc \in {"build", "search", "evaluate", "profile"} => stage # "provider"

BeforeTokens == IF observations = << >> THEN 0 ELSE observations[Len(observations)].tokens

Faulted ==
    /\ adherence = "adhered" => Faults(ledger) = {}
    /\ adherence = "adhered" /\ ~Measuring => tokens = BeforeTokens
    /\ adherence # "adhered" =>
          LET fault == ledger[Len(ledger)]
          IN /\ pc = "seal" /\ Faults(ledger) = {Len(ledger)}
             /\ reason = adherence /\ fault.fault = adherence
             /\ fault.origin = Origin.origin /\ fault.turn = Origin.turn
             /\ fault.tokens = tokens
             /\ fault.stage # "provider" => fault.usage = 0
             /\ IF source = 0
                THEN /\ turn = Upcoming /\ closedAt = {}
                     /\ Has("provider_turn_completed") <=> fault.stage # "provider"
                     /\ fault.stage = "provider" => tokens = BeforeTokens + fault.usage
                     /\ fault.stage # "provider" =>
                           \A i \in 1..Len(observations) : observations[i].tokens < tokens
                ELSE /\ fault.stage = "evaluation" /\ tokens = BeforeTokens
                     /\ ~Has("provider_turn_completed")

Unturned ==
    observations = << >> /\ ~Has("provider_turn_completed") =>
        IF closedAt # {} THEN /\ Len(ledger) = 3 /\ adherence = "adhered"
                              /\ ledger[2].kind = "search_completed"
                              /\ ledger[3].kind = "candidate_nominated"
        ELSE IF adherence = "adhered" THEN Len(ledger) = 1
        ELSE Len(ledger) = 2

Submitting ==
    /\ pc = "build" \/ InSearch =>
          /\ Resolved(ledger, turn) = resolved /\ resolved \in Submissions
          /\ Len(built) <= Len(resolved)
          /\ \A n \in 1..Len(built) : built[n].candidate = resolved[n]
    /\ pc = "build" =>
          /\ plan = << >> /\ searched = << >>
          /\ \A i \in AtTurn(ledger, "compilation_refused", turn) :
                \E n \in 1..Len(built) : built[n].candidate = ledger[i].candidate
                                         /\ ~built[n].launchable

InFlight(purpose) == IF \E i \in active : i.purpose = purpose THEN 1 ELSE 0

Measured ==
    InSearch =>
        /\ Len(built) = Len(resolved)
        /\ \E n \in 1..Len(built) : built[n].launchable
        /\ Rows(ledger, turn) = FilterOrder
        /\ SearchPlan(FilterOrder) = CandidatesOf(searched) \o plan
        /\ TurnSearches(ledger, turn) = searched
        /\ Cardinality({i \in Starts(ledger, "search") : ledger[i].turn = turn})
              = Len(searched) + InFlight("search")
        /\ \A i \in Starts(ledger, "search") : ledger[i].turn = turn =>
              \E n \in 1..(Len(searched) + InFlight("search")) :
                  ledger[i].candidate = SearchPlan(FilterOrder)[n]
        /\ pc = "profile" \/ InFlight("attribution") = 1 =>
               searched[Len(searched)].receipt.correct
        /\ \A i \in Starts(ledger, "attribution") : ledger[i].turn = turn =>
              \E n \in 1..(Len(searched) - (IF pc = "profile" THEN 1 ELSE 0)) :
                  ledger[i].candidate = searched[n].candidate
        /\ ProfileEach => {ledger[i].candidate : i \in AttributionsAt(ledger, turn)} =
              CorrectOf(SubSeq(searched, 1, Len(searched)
                  - (IF pc = "profile" THEN 1 ELSE InFlight("attribution"))))

Launched ==
    pc = "evaluate" => \E invocation \in active :
        /\ ledger[Len(ledger)] = EvaluationEvent("evaluation_attempt_started", invocation)
        /\ invocation.origin = Origin.origin /\ invocation.turn = Origin.turn
        /\ invocation.purpose = "attribution" /\ source = 0 =>
              searched # << >> /\ invocation.candidate = searched[Len(searched)].candidate
        /\ invocation.purpose = "attribution" /\ source # 0 => Attribution = "selected"

(* After search closed. *)
Closed ==
    /\ authoring <= elapsed
    /\ closedAt = {} => At(ledger, "search_completed") = {}
                        /\ At(ledger, "candidate_nominated") = {}
    /\ closedAt # {} => \E i \in DOMAIN ledger :
          /\ At(ledger, "search_completed") = {i}
          /\ At(ledger, "candidate_nominated") = {i + 1}
          /\ ledger[i].state.iteration = NextIteration(observations)
          /\ ledger[i].state.tokens = tokens
          /\ closedAt = {ledger[i].state.elapsed}
          /\ ledger[i].state.elapsed \in Nat /\ ledger[i].state.elapsed <= Rounded(elapsed)
          /\ ledger[i].state.authoring = Rounded(authoring)
          /\ Rounded(authoring) <= ledger[i].state.elapsed
          /\ ledger[i].state.counts = CountsBefore(ledger, i)
          /\ ledger[i].state.counts["confirmatory"] = 0
          /\ ledger[i].state.compilations = compilations
          /\ ledger[i].state.searchElapsed = ledger[i].state.elapsed
          /\ ledger[i].state.exceeded = ExceededBudgets(tokens, Rounded(authoring),
                    ledger[i].state.elapsed, ledger[i].state.elapsed)
          /\ ledger[i].state.reason # "none"
          /\ ledger[i].state.reason = StopReason(ledger[i].state.iteration, tokens,
                  ledger[i].state.elapsed, ledger[i].state.authoring,
                  ledger[i].state.counts, compilations)
          /\ adherence = "adhered" => reason = ledger[i].state.reason
          /\ ledger[i + 1].turn = source
          /\ ledger[i + 1].candidate = IF source = 0 THEN NoCandidate
                                       ELSE observations[source].candidate
          /\ \A j \in (i + 1)..Len(ledger) : ledger[j].kind \notin SearchKinds
          /\ source = 0 => Nominee(observations) = {}

Confirmed ==
    /\ \A i \in ConfirmationsAt(ledger) :
          /\ source # 0 /\ ledger[i].turn = source
          /\ ledger[i].candidate = observations[source].candidate
    /\ \A c \in confirmation : c.source = source /\ c.tokens = tokens
    /\ pc = "profile" /\ source # 0 => \A c \in confirmation : c.latency > 0
    /\ InFlight("attribution") = 1 /\ source # 0 =>
          /\ \A c \in confirmation : c.latency > 0
          /\ \A i \in active : i.candidate = observations[source].candidate
    /\ ~ProfileEach => \A i \in At(ledger, "candidate_evaluated") :
          ledger[i].purpose = "attribution" =>
             /\ Attribution = "selected" /\ source # 0 /\ ledger[i].turn = source
             /\ ledger[i].candidate = observations[source].candidate
             /\ confirmation # {} /\ \A c \in confirmation : c.latency > 0
    /\ adherence = "adhered" /\ pc = "seal" /\ Attribution = "selected"
       /\ (\E c \in confirmation : c.latency > 0)
       => \E i \in At(ledger, "candidate_evaluated") : ledger[i].purpose = "attribution"

(* An observation is all its turn, tokens, candidate and latency say.      *)
Rebuilt ==
    \A i \in 1..Len(observations) :
        observations[i] = Observation(i, observations[i].tokens, observations[i].candidate,
                                      observations[i].latency)

(* What the ledger says of the turns done and of the one in progress; an   *)
(* event may still be owed to its last one.                                *)
Counted(log, settled) ==
    \A kind \in {"provider_turn_completed", "author_actions_resolved",
                "candidate_set_filtered", "candidate_selected"} :
        Numbered(log, kind, settled)
Routed(log, settled) == \A i \in At(log, "diagnosis_routed") : log[i].turn \in 1..settled
Done(log, rows) == \A t \in 1..Len(rows) : Settled(log, t, rows[t])
Logged(log, now, clock, rows, spent, permits, used, owed) ==
    /\ IsSequence(log) /\ Formed(log)
    /\ Ordered(log, now) /\ Dated(log, clock)
    /\ Counted(log, Len(rows)) /\ Paid(log, rows, spent) /\ Preceded(log)
    /\ Permits(log, permits)
    /\ Chained(log, owed = "answer") /\ Tallied(log, used)
    /\ Sifted(log) /\ Sealed(log, owed = "start")
    /\ Routed(log, IF owed = "selection" THEN Len(rows) + 1 ELSE Len(rows))
    /\ Done(log, rows)
InOrder == Logged(ledger, turn, Rounded(elapsed), observations, tokens, compilations, counts,
                  IF pc = "evaluate" THEN "answer" ELSE "nothing")

KInv == pc # "sealed" =>
    InOrder /\ Standing /\ Faulted /\ Unturned /\ Submitting /\ Measured /\ Launched
    /\ Closed /\ Confirmed

-------------------------------------------------------------------------------
(* A ledger only grows *)

IsLog(log) == Len(log) \in Nat /\ DOMAIN log = 1..Len(log)

Grown(log, longer) ==
    /\ IsLog(log) /\ IsLog(longer) /\ Len(log) <= Len(longer)
    /\ \A i \in 1..Len(log) : longer[i] = log[i]

(* It grows by events of these kinds. *)
Adds(log, longer, kinds) ==
    /\ Grown(log, longer)
    /\ \A i \in 1..Len(longer) : i > Len(log) => longer[i].kind \in kinds

LEMMA GrowsOne ==
    ASSUME NEW log, IsSequence(log), NEW event
    PROVE  LET longer == log \o <<event>>
           IN /\ Grown(log, longer) /\ IsSequence(longer) /\ Len(longer) = Len(log) + 1
              /\ longer[Len(log) + 1] = event /\ Append(log, event) = longer
              /\ Adds(log, longer, {event.kind})
<1> DEFINE longer == log \o <<event>>
<1>1. IsSequence(<<event>>) /\ Len(<<event>>) = 1 /\ <<event>>[1] = event
  <2>1. <<event>> \in Seq({event})
    OBVIOUS
  <2> QED
    BY <2>1 DEF IsSequence
<1>2. /\ IsSequence(longer) /\ Len(longer) = Len(log) + 1
      /\ DOMAIN longer = 1..(Len(log) + 1)
      /\ \A i \in 1..Len(log) : longer[i] = log[i]
      /\ longer[Len(log) + 1] = event
  BY <1>1, ConcatIsSequence
<1>3. Append(log, event) = longer
  <2>1. PICK S : log \in Seq(S)
    BY DEF IsSequence
  <2> QED
    BY <2>1
<1>4. Len(log) \in Nat /\ DOMAIN log = 1..Len(log)
  BY SequenceFacts
<1> HIDE DEF longer
<1>5. Grown(log, longer)
  BY <1>2, <1>4 DEF Grown, IsLog
<1>6. \A i \in 1..Len(longer) : i > Len(log) => longer[i] = event
  BY <1>2, <1>4
<1> QED
  BY <1>2, <1>3, <1>5, <1>6 DEF longer, Adds

LEMMA GrowsBy ==
    ASSUME NEW log, IsSequence(log), NEW written, IsSequence(written)
    PROVE  LET longer == log \o written
           IN /\ Grown(log, longer) /\ IsSequence(longer)
              /\ Len(longer) = Len(log) + Len(written)
              /\ Len(written) \in Nat /\ DOMAIN written = 1..Len(written)
              /\ \A n \in 1..Len(written) : longer[Len(log) + n] = written[n]
              /\ \A i \in 1..Len(longer) : i > Len(log) =>
                    i - Len(log) \in 1..Len(written) /\ longer[i] = written[i - Len(log)]
<1> DEFINE longer == log \o written
<1>1. /\ IsSequence(longer) /\ Len(longer) = Len(log) + Len(written)
      /\ DOMAIN longer = 1..(Len(log) + Len(written))
      /\ \A i \in 1..Len(log) : longer[i] = log[i]
      /\ \A i \in 1..Len(written) : longer[Len(log) + i] = written[i]
  BY ConcatIsSequence
<1>2. /\ Len(log) \in Nat /\ DOMAIN log = 1..Len(log)
      /\ Len(written) \in Nat /\ DOMAIN written = 1..Len(written)
  BY SequenceFacts
<1> HIDE DEF longer
<1>3. ASSUME NEW i \in 1..Len(longer), i > Len(log)
      PROVE  i - Len(log) \in 1..Len(written) /\ longer[i] = written[i - Len(log)]
  <2>1. i - Len(log) \in 1..Len(written) /\ Len(log) + (i - Len(log)) = i
    BY <1>1, <1>2, <1>3
  <2> QED
    BY <1>1, <2>1
<1>4. Grown(log, longer)
  BY <1>1, <1>2 DEF Grown, IsLog
<1> QED
  BY <1>1, <1>2, <1>3, <1>4 DEF longer

LEMMA GrownMore ==
    ASSUME NEW log, NEW longer, NEW longest, Grown(log, longer), Grown(longer, longest)
    PROVE  Grown(log, longest)
BY DEF Grown, IsLog

LEMMA AddsMore ==
    ASSUME NEW log, NEW longer, NEW longest, NEW first, NEW second,
           Adds(log, longer, first), Adds(longer, longest, second)
    PROVE  Adds(log, longest, first \cup second)
<1>1. Grown(log, longest)
  BY GrownMore DEF Adds
<1>2. ASSUME NEW i \in 1..Len(longest), i > Len(log)
      PROVE  longest[i].kind \in first \cup second
  <2>1. CASE i > Len(longer)
    BY <2>1 DEF Adds
  <2>2. CASE ~(i > Len(longer))
    BY <1>2, <2>2 DEF Adds, Grown, IsLog
  <2> QED
    BY <2>1, <2>2
<1> QED
  BY <1>1, <1>2 DEF Adds

(* What stands of a kind is still there. *)
LEMMA AtMore ==
    ASSUME NEW log, NEW longer, Grown(log, longer), NEW kind
    PROVE  /\ \A i \in At(log, kind) : i \in 1..Len(log) /\ i \in At(longer, kind)
                                       /\ longer[i] = log[i]
           /\ \A i \in At(longer, kind) : i <= Len(log) => i \in At(log, kind)
           /\ \A t : \A i \in AtTurn(log, kind, t) :
                 i \in 1..Len(log) /\ i \in AtTurn(longer, kind, t) /\ longer[i] = log[i]
           /\ \A t : \A i \in AtTurn(longer, kind, t) : i <= Len(log) => i \in AtTurn(log, kind, t)
BY DEF Grown, IsLog, At, AtTurn

(* A kind that was not added stands as it was. *)
LEMMA AtSame ==
    ASSUME NEW log, NEW longer, NEW kinds, Adds(log, longer, kinds), NEW kind, kind \notin kinds
    PROVE  /\ At(longer, kind) = At(log, kind)
           /\ \A t : AtTurn(longer, kind, t) = AtTurn(log, kind, t)
           /\ \A i \in At(log, kind) : i \in 1..Len(log) /\ longer[i] = log[i]
<1>1. At(longer, kind) = At(log, kind)
  <2>1. ASSUME NEW i \in At(longer, kind) PROVE i \in At(log, kind)
    BY <2>1 DEF Adds, Grown, IsLog, At
  <2>2. ASSUME NEW i \in At(log, kind) PROVE i \in At(longer, kind)
    BY <2>2 DEF Adds, Grown, IsLog, At
  <2> QED
    BY <2>1, <2>2
<1>2. \A i \in At(log, kind) : i \in 1..Len(log) /\ longer[i] = log[i]
  BY DEF Adds, Grown, IsLog, At
<1>3. \A t : AtTurn(longer, kind, t) = AtTurn(log, kind, t)
  BY <1>1, <1>2 DEF AtTurn
<1> QED
  BY <1>1, <1>2, <1>3

(* The one event added is of its kind. *)
LEMMA AtNext ==
    ASSUME NEW log, NEW longer, Grown(log, longer), Len(longer) = Len(log) + 1,
           NEW kind, longer[Len(longer)].kind = kind
    PROVE  /\ At(longer, kind) = At(log, kind) \cup {Len(longer)}
           /\ \A t : longer[Len(longer)].turn = t =>
                 AtTurn(longer, kind, t) = AtTurn(log, kind, t) \cup {Len(longer)}
           /\ \A t : longer[Len(longer)].turn # t =>
                 AtTurn(longer, kind, t) = AtTurn(log, kind, t)
<1> DEFINE last == Len(longer)
<1>1. last \in 1..Len(longer) /\ last \notin 1..Len(log) /\ last = Len(log) + 1
  BY DEF Grown, IsLog
<1>2. At(longer, kind) = At(log, kind) \cup {last}
  <2>1. ASSUME NEW i \in At(longer, kind) PROVE i \in At(log, kind) \cup {last}
    BY <2>1, <1>1 DEF Grown, IsLog, At
  <2>2. ASSUME NEW i \in At(log, kind) \cup {last} PROVE i \in At(longer, kind)
    BY <2>2, <1>1 DEF Grown, IsLog, At
  <2> QED
    BY <2>1, <2>2
<1>3. \A i \in At(log, kind) : longer[i] = log[i] /\ i # last
  BY <1>1 DEF Grown, IsLog, At
<1> HIDE DEF last
<1>4. ASSUME NEW t
      PROVE  /\ longer[last].turn = t =>
                    AtTurn(longer, kind, t) = AtTurn(log, kind, t) \cup {last}
             /\ longer[last].turn # t => AtTurn(longer, kind, t) = AtTurn(log, kind, t)
  BY <1>2, <1>3 DEF AtTurn
<1> QED
  BY <1>2, <1>4 DEF last

LEMMA AtTurnMore ==
    ASSUME NEW log, NEW longer, Grown(log, longer), NEW kind, NEW t
    PROVE  /\ \A i \in AtTurn(log, kind, t) :
                 i \in 1..Len(log) /\ i \in AtTurn(longer, kind, t) /\ longer[i] = log[i]
           /\ \A i \in AtTurn(longer, kind, t) : i <= Len(log) => i \in AtTurn(log, kind, t)
BY DEF Grown, IsLog, At, AtTurn

LEMMA AtTurnSame ==
    ASSUME NEW log, NEW longer, NEW kinds, Adds(log, longer, kinds),
           NEW kind, kind \notin kinds, NEW t
    PROVE  AtTurn(longer, kind, t) = AtTurn(log, kind, t)
BY AtSame

LEMMA LogIsFinite ==
    ASSUME NEW log, IsLog(log), NEW kind
    PROVE  IsFiniteSet(At(log, kind)) /\ At(log, kind) \subseteq 1..Len(log)
<1>1. IsFiniteSet(1..Len(log)) /\ At(log, kind) \in SUBSET (1..Len(log))
  BY FS_Interval DEF At, IsLog
<1> QED
  BY <1>1, FS_Subset

-------------------------------------------------------------------------------
(* What growth leaves of a ledger's form, order, dates and turns *)

LEMMA FormedGrows ==
    ASSUME NEW log, NEW longer, NEW kinds \in SUBSET OpenKinds, Formed(log),
           Adds(log, longer, kinds)
    PROVE  Formed(longer)
<1>1. /\ Len(longer) >= 1 /\ longer[1] = log[1]
      /\ \A i \in 2..Len(log) : longer[i] = log[i]
  BY DEF Formed, Adds, Grown, IsLog
<1>2. ASSUME NEW i \in 2..Len(longer) PROVE longer[i].kind \in OpenKinds
  <2>1. CASE i > Len(log)
    BY <2>1 DEF Adds, Grown, IsLog
  <2>2. CASE ~(i > Len(log))
    <3>1. i \in 2..Len(log)
      BY <2>2 DEF Adds, Grown, IsLog
    <3> QED
      BY <3>1, <1>1 DEF Formed
  <2> QED
    BY <2>1, <2>2
<1> QED
  BY <1>1, <1>2 DEF Formed

LEMMA OrderedGrows ==
    ASSUME NEW log, NEW longer, NEW now \in Nat, NEW later \in Nat, now <= later,
           Ordered(log, now), Grown(log, longer),
           \A i \in 1..Len(longer) : i > Len(log) /\ TurnBearing(longer[i])
              => longer[i].turn = later
    PROVE  Ordered(longer, later)
<1> DEFINE Bears(i) == i \in 1..Len(longer) /\ TurnBearing(longer[i])
<1>1. ASSUME NEW i \in 1..Len(longer), TurnBearing(longer[i])
      PROVE  /\ longer[i].turn \in Nat /\ longer[i].turn <= later
             /\ i <= Len(log) => longer[i] = log[i] /\ TurnBearing(log[i]) /\ i \in 1..Len(log)
             /\ i > Len(log) => longer[i].turn = later
  <2>1. CASE i > Len(log)
    BY <1>1, <2>1 DEF Grown, IsLog
  <2>2. CASE ~(i > Len(log))
    <3>1. i \in 1..Len(log) /\ longer[i] = log[i] /\ TurnBearing(log[i])
      BY <1>1, <2>2 DEF Grown, IsLog
    <3>2. log[i].turn \in Nat /\ log[i].turn <= now
      BY <3>1 DEF Ordered
    <3> QED
      BY <2>2, <3>1, <3>2 DEF Grown, IsLog
  <2> QED
    BY <2>1, <2>2
<1>2. ASSUME NEW i \in 1..Len(longer), NEW j \in 1..Len(longer), i < j,
             TurnBearing(longer[i]), TurnBearing(longer[j])
      PROVE  longer[i].turn <= longer[j].turn
  <2>1. CASE j > Len(log)
    BY <1>1, <1>2, <2>1
  <2>2. CASE ~(j > Len(log))
    <3>1. i <= Len(log) /\ j <= Len(log)
      BY <1>2, <2>2 DEF Grown, IsLog
    <3>2. /\ longer[i] = log[i] /\ longer[j] = log[j]
          /\ i \in 1..Len(log) /\ j \in 1..Len(log)
          /\ TurnBearing(log[i]) /\ TurnBearing(log[j])
      BY <1>1, <1>2, <3>1
    <3>3. DOMAIN log = 1..Len(log)
      BY DEF Grown, IsLog
    <3> QED
      BY <3>2, <3>3, <1>2 DEF Ordered, InTurnOrder
  <2> QED
    BY <2>1, <2>2
<1>3. DOMAIN longer = 1..Len(longer)
  BY DEF Grown, IsLog
<1> QED
  BY <1>1, <1>2, <1>3 DEF Ordered, InTurnOrder

LEMMA DatedGrows ==
    ASSUME NEW log, NEW longer, NEW now \in Nat, NEW later \in Nat, now <= later,
           Dated(log, now), Grown(log, longer),
           \A i \in 1..Len(longer) : i > Len(log) /\ Clocked(longer[i])
              => /\ ClockOf(longer[i]) \in Nat
                 /\ now <= ClockOf(longer[i]) /\ ClockOf(longer[i]) <= later,
           \A i, j \in 1..Len(longer) :
              i > Len(log) /\ i < j /\ Clocked(longer[i]) /\ Clocked(longer[j])
              => ClockOf(longer[i]) <= ClockOf(longer[j])
    PROVE  Dated(longer, later)
<1>1. ASSUME NEW i \in 1..Len(longer), Clocked(longer[i])
      PROVE  /\ ClockOf(longer[i]) \in Nat /\ ClockOf(longer[i]) <= later
             /\ i <= Len(log) => /\ longer[i] = log[i] /\ Clocked(log[i]) /\ i \in 1..Len(log)
                                 /\ ClockOf(longer[i]) <= now
             /\ i > Len(log) => now <= ClockOf(longer[i])
  <2>1. CASE i > Len(log)
    BY <1>1, <2>1 DEF Grown, IsLog
  <2>2. CASE ~(i > Len(log))
    <3>1. i \in 1..Len(log) /\ longer[i] = log[i] /\ Clocked(log[i])
      BY <1>1, <2>2 DEF Grown, IsLog
    <3>2. ClockOf(log[i]) \in Nat /\ ClockOf(log[i]) <= now
      BY <3>1 DEF Dated
    <3> QED
      BY <2>2, <3>1, <3>2 DEF Grown, IsLog
  <2> QED
    BY <2>1, <2>2
<1>2. ASSUME NEW i \in 1..Len(longer), NEW j \in 1..Len(longer), i < j,
             Clocked(longer[i]), Clocked(longer[j])
      PROVE  ClockOf(longer[i]) <= ClockOf(longer[j])
  <2>1. CASE i > Len(log)
    BY <1>2, <2>1
  <2>2. CASE j > Len(log) /\ ~(i > Len(log))
    <3>1. i <= Len(log)
      BY <2>2 DEF Grown, IsLog
    <3>2. ClockOf(longer[i]) <= now /\ ClockOf(longer[i]) \in Nat
      BY <1>1, <1>2, <3>1
    <3>3. now <= ClockOf(longer[j]) /\ ClockOf(longer[j]) \in Nat
      BY <1>1, <1>2, <2>2
    <3> QED
      BY <3>2, <3>3
  <2>3. CASE ~(j > Len(log))
    <3>1. i <= Len(log) /\ j <= Len(log)
      BY <1>2, <2>3 DEF Grown, IsLog
    <3>2. /\ longer[i] = log[i] /\ longer[j] = log[j]
          /\ i \in 1..Len(log) /\ j \in 1..Len(log)
          /\ Clocked(log[i]) /\ Clocked(log[j])
      BY <1>1, <1>2, <3>1
    <3>3. DOMAIN log = 1..Len(log)
      BY DEF Grown, IsLog
    <3>4. ClockOf(log[i]) <= ClockOf(log[j])
      BY <3>2, <3>3, <1>2 DEF Dated, ClockMonotone
    <3> QED
      BY <3>2, <3>4
  <2> QED
    BY <2>1, <2>2, <2>3
<1>3. DOMAIN longer = 1..Len(longer)
  BY DEF Grown, IsLog
<1>4. ClockMonotone(longer)
  BY <1>2, <1>3 DEF ClockMonotone
<1> QED
  BY <1>1, <1>4 DEF Dated

LEMMA NumberedKept ==
    ASSUME NEW log, NEW longer, NEW kinds, Adds(log, longer, kinds), NEW kind, kind \notin kinds,
           NEW settled \in Nat, Numbered(log, kind, settled)
    PROVE  Numbered(longer, kind, settled)
<1>1. /\ At(longer, kind) = At(log, kind)
      /\ \A t : AtTurn(longer, kind, t) = AtTurn(log, kind, t)
      /\ \A i \in At(log, kind) : longer[i] = log[i]
  BY AtSame
<1>2. DOMAIN log \subseteq DOMAIN longer
  BY DEF Adds, Grown, IsLog
<1> QED
  BY <1>1, <1>2 DEF Numbered

LEMMA NumberedNext ==
    ASSUME NEW log, NEW longer, Grown(log, longer), Len(longer) = Len(log) + 1,
           NEW kind, longer[Len(longer)].kind = kind,
           NEW settled \in Nat, longer[Len(longer)].turn = settled + 1,
           Numbered(log, kind, settled), AtTurn(log, kind, settled + 1) = {}
    PROVE  /\ Numbered(longer, kind, settled)
           /\ AtTurn(longer, kind, settled + 1) = {Len(longer)}
<1>1. At(longer, kind) = At(log, kind) \cup {Len(longer)}
  BY AtNext
<1>6. AtTurn(longer, kind, settled + 1) = {Len(longer)}
  BY AtNext
<1>7. ASSUME NEW t \in Nat, t # settled + 1
      PROVE  AtTurn(longer, kind, t) = AtTurn(log, kind, t)
  BY <1>7, AtNext
<1>2. \A i \in At(log, kind) : longer[i] = log[i]
  BY AtMore
<1>3. DOMAIN log \subseteq DOMAIN longer
  BY DEF Grown, IsLog
<1>4. \A i \in At(longer, kind) : longer[i].turn \in 1..(settled + 1)
  BY <1>1, <1>2 DEF Numbered
<1>5. ASSUME NEW t \in 1..settled PROVE \E i \in DOMAIN longer : AtTurn(longer, kind, t) = {i}
  <2>1. t \in Nat /\ t # settled + 1
    OBVIOUS
  <2>2. AtTurn(longer, kind, t) = AtTurn(log, kind, t)
    BY <2>1, <1>7
  <2> QED
    BY <2>2, <1>3 DEF Numbered
<1> QED
  BY <1>6, <1>4, <1>5 DEF Numbered

LEMMA NumberedSettles ==
    ASSUME NEW log, NEW kind, NEW settled \in Nat, Numbered(log, kind, settled),
           AtTurn(log, kind, settled + 1) # {}
    PROVE  Numbered(log, kind, settled + 1) /\ AtTurn(log, kind, settled + 2) = {}
<1>1. \A i \in At(log, kind) : log[i].turn \in 1..(settled + 1)
  BY DEF Numbered
<1>2. AtTurn(log, kind, settled + 2) = {}
  BY <1>1 DEF AtTurn
<1>3. \E i \in DOMAIN log : AtTurn(log, kind, settled + 1) = {i}
  <2>1. PICK i : i \in AtTurn(log, kind, settled + 1)
    OBVIOUS
  <2>2. i \in DOMAIN log
    BY <2>1 DEF AtTurn, At
  <2> QED
    BY <2>1, <2>2 DEF Numbered
<1>4. \A t \in 1..(settled + 1) : \E i \in DOMAIN log : AtTurn(log, kind, t) = {i}
  <2> SUFFICES ASSUME NEW t \in 1..(settled + 1)
               PROVE  \E i \in DOMAIN log : AtTurn(log, kind, t) = {i}
    OBVIOUS
  <2>1. t = settled + 1 \/ t \in 1..settled
    OBVIOUS
  <2> QED
    BY <2>1, <1>3 DEF Numbered
<1>5. \A i \in At(log, kind) : log[i].turn \in 1..((settled + 1) + 1)
  BY <1>1
<1>6. (settled + 1) + 1 = settled + 2
  OBVIOUS
<1> QED
  BY <1>2, <1>4, <1>5, <1>6 DEF Numbered

LEMMA AsMany ==
    ASSUME NEW S, NEW T, IsFiniteSet(T), NEW f \in [S -> T],
           \A x, y \in S : f[x] = f[y] => x = y,
           \A z \in T : \E x \in S : f[x] = z
    PROVE  IsFiniteSet(S) /\ Cardinality(S) = Cardinality(T)
<1>1. f \in Injection(S, T) /\ f \in Surjection(S, T)
  BY DEF Injection, Surjection, IsInjective
<1> QED
  BY <1>1, FS_Injection

(* So the events of the kind are as many as the turns they name. *)
LEMMA NumberedCount ==
    ASSUME NEW log, IsLog(log), NEW kind, NEW settled \in Nat, Numbered(log, kind, settled)
    PROVE  Cardinality(At(log, kind)) =
              IF AtTurn(log, kind, settled + 1) = {} THEN settled ELSE settled + 1
<1>1. ASSUME NEW n \in Nat, \A i \in At(log, kind) : log[i].turn \in 1..n,
             \A t \in 1..n : \E i \in DOMAIN log : AtTurn(log, kind, t) = {i}
      PROVE  Cardinality(At(log, kind)) = n
  <2> DEFINE f == [i \in At(log, kind) |-> log[i].turn]
  <2>1. f \in [At(log, kind) -> 1..n]
    BY <1>1
  <2>2. \A i, j \in At(log, kind) : f[i] = f[j] => i = j
    <3> SUFFICES ASSUME NEW i \in At(log, kind), NEW j \in At(log, kind),
                        log[i].turn = log[j].turn
                 PROVE  i = j
      OBVIOUS
    <3>1. PICK k \in DOMAIN log : AtTurn(log, kind, log[i].turn) = {k}
      BY <1>1
    <3>2. i \in AtTurn(log, kind, log[i].turn) /\ j \in AtTurn(log, kind, log[i].turn)
      BY DEF AtTurn
    <3> QED
      BY <3>1, <3>2
  <2>3. \A t \in 1..n : \E i \in At(log, kind) : f[i] = t
    <3> SUFFICES ASSUME NEW t \in 1..n PROVE \E i \in At(log, kind) : log[i].turn = t
      OBVIOUS
    <3>1. PICK k \in DOMAIN log : AtTurn(log, kind, t) = {k}
      BY <1>1
    <3>2. k \in AtTurn(log, kind, t)
      BY <3>1
    <3> QED
      BY <3>2 DEF AtTurn
  <2>4. IsFiniteSet(1..n) /\ Cardinality(1..n) = n
    BY FS_Interval
  <2> HIDE DEF f
  <2>5. Cardinality(At(log, kind)) = Cardinality(1..n)
    BY <2>1, <2>2, <2>3, <2>4, AsMany
  <2> QED
    BY <2>4, <2>5
<1>2. CASE AtTurn(log, kind, settled + 1) = {}
  <2>1. ASSUME NEW i \in At(log, kind) PROVE log[i].turn \in 1..settled
    <3>1. log[i].turn \in 1..(settled + 1) /\ log[i].turn # settled + 1
      BY <2>1, <1>2 DEF Numbered, AtTurn
    <3> QED
      BY <3>1
  <2> QED
    BY <1>1, <1>2, <2>1 DEF Numbered
<1>3. CASE AtTurn(log, kind, settled + 1) # {}
  <2>1. Numbered(log, kind, settled + 1) /\ AtTurn(log, kind, settled + 2) = {}
    BY <1>3, NumberedSettles
  <2>2. \A i \in At(log, kind) : log[i].turn \in 1..(settled + 1)
    BY DEF Numbered
  <2> QED
    BY <1>1, <1>3, <2>1, <2>2 DEF Numbered
<1> QED
  BY <1>2, <1>3

-------------------------------------------------------------------------------
(* What growth leaves of payments, permits and Evaluations *)

LEMMA PaidKept ==
    ASSUME NEW log, NEW longer, NEW kinds, Adds(log, longer, kinds),
           "provider_turn_completed" \notin kinds, NEW rows, NEW spent, Paid(log, rows, spent)
    PROVE  Paid(longer, rows, spent)
BY AtSame DEF Paid

LEMMA PaidNext ==
    ASSUME NEW log, NEW longer, Grown(log, longer), Len(longer) = Len(log) + 1,
           longer[Len(longer)].kind = "provider_turn_completed",
           NEW rows, NEW spent, NEW later, Len(rows) \in Nat, Paid(log, rows, spent),
           Numbered(log, "provider_turn_completed", Len(rows)),
           AtTurn(log, "provider_turn_completed", Len(rows) + 1) = {},
           longer[Len(longer)].turn = Len(rows) + 1, longer[Len(longer)].tokens = later
    PROVE  Paid(longer, rows, later)
<1> DEFINE kind == "provider_turn_completed"
<1>1. At(longer, kind) = At(log, kind) \cup {Len(longer)}
  BY AtNext
<1>2. ASSUME NEW i \in At(log, kind)
      PROVE  longer[i] = log[i] /\ log[i].turn \in 1..Len(rows)
  <2>1. longer[i] = log[i] /\ log[i].turn \in 1..(Len(rows) + 1)
    BY AtMore DEF Numbered
  <2>2. log[i].turn # Len(rows) + 1
    BY DEF AtTurn
  <2> QED
    BY <2>1, <2>2
<1>3. ASSUME NEW i \in At(longer, kind)
      PROVE  longer[i].tokens = IF longer[i].turn <= Len(rows) THEN rows[longer[i].turn].tokens
                                ELSE later
  <2>1. CASE i = Len(longer)
    BY <2>1
  <2>2. CASE i \in At(log, kind)
    <3>1. longer[i].turn <= Len(rows)
      BY <1>2, <2>2
    <3> QED
      BY <3>1, <1>2, <2>2 DEF Paid
  <2> QED
    BY <1>1, <2>1, <2>2
<1> QED
  BY <1>3 DEF Paid

LEMMA PaidObserved ==
    ASSUME NEW log, NEW rows, IsSequence(rows), NEW seen, NEW later,
           Paid(log, rows, seen.tokens),
           Numbered(log, "provider_turn_completed", Len(rows))
    PROVE  Paid(log, Append(rows, seen), later)
<1> DEFINE more == Append(rows, seen)
<1>1. /\ Len(rows) \in Nat /\ Len(more) = Len(rows) + 1
      /\ \A t \in 1..Len(rows) : more[t] = rows[t]
      /\ more[Len(rows) + 1] = seen
  BY GrowsOne, SequenceFacts DEF Grown
<1> HIDE DEF more
<1>2. ASSUME NEW i \in At(log, "provider_turn_completed")
      PROVE  log[i].tokens = IF log[i].turn <= Len(more) THEN more[log[i].turn].tokens ELSE later
  <2>1. log[i].turn \in 1..(Len(rows) + 1)
    BY DEF Numbered
  <2>2. log[i].tokens = IF log[i].turn <= Len(rows) THEN rows[log[i].turn].tokens
                        ELSE seen.tokens
    BY DEF Paid
  <2>3. CASE log[i].turn = Len(rows) + 1
    BY <1>1, <2>2, <2>3
  <2>4. CASE log[i].turn \in 1..Len(rows)
    BY <1>1, <2>2, <2>4
  <2> QED
    BY <2>1, <2>3, <2>4, <1>1
<1> QED
  BY <1>2 DEF Paid, more

LEMMA PrecededGrows ==
    ASSUME NEW log, NEW longer, Grown(log, longer), Preceded(log),
           \A i \in 1..Len(longer) : i > Len(log) =>
              /\ longer[i].kind = "author_actions_resolved" =>
                    \E j \in AtTurn(longer, "provider_turn_completed", longer[i].turn) : j < i
              /\ longer[i].kind \in {"candidate_set_filtered", "candidate_rejected",
                           "launchable_candidate_sealed", "candidate_selected"} =>
                    \E j \in AtTurn(longer, "author_actions_resolved", longer[i].turn) : j < i
    PROVE  Preceded(longer)
<1>1. ASSUME NEW i \in At(longer, "author_actions_resolved")
      PROVE  \E j \in AtTurn(longer, "provider_turn_completed", longer[i].turn) : j < i
  <2>1. i \in 1..Len(longer) /\ longer[i].kind = "author_actions_resolved"
    BY DEF At, Grown, IsLog
  <2>2. CASE i > Len(log)
    BY <2>1, <2>2
  <2>3. CASE ~(i > Len(log))
    <3>1. i \in At(log, "author_actions_resolved") /\ longer[i] = log[i]
      BY <2>1, <2>3 DEF At, Grown, IsLog
    <3>2. PICK j \in AtTurn(log, "provider_turn_completed", log[i].turn) : j < i
      BY <3>1 DEF Preceded
    <3>3. j \in AtTurn(longer, "provider_turn_completed", log[i].turn)
      BY <3>2, AtMore
    <3> QED
      BY <3>1, <3>2, <3>3
  <2> QED
    BY <2>2, <2>3
<1> DEFINE K == {"candidate_set_filtered", "candidate_rejected",
                 "launchable_candidate_sealed", "candidate_selected"}
<1>2. ASSUME NEW i \in 1..Len(longer), longer[i].kind \in K
      PROVE  \E j \in AtTurn(longer, "author_actions_resolved", longer[i].turn) : j < i
  <2>2. CASE i > Len(log)
    BY <1>2, <2>2
  <2>3. CASE ~(i > Len(log))
    <3>1. i \in 1..Len(log) /\ longer[i] = log[i]
      BY <2>3 DEF Grown, IsLog
    <3>2. PICK j \in AtTurn(log, "author_actions_resolved", log[i].turn) : j < i
      BY <3>1, <1>2 DEF Preceded
    <3>3. j \in AtTurn(longer, "author_actions_resolved", log[i].turn)
      BY <3>2, AtMore
    <3> QED
      BY <3>1, <3>2, <3>3
  <2> QED
    BY <2>2, <2>3
<1> QED
  BY <1>1, <1>2 DEF Preceded

LEMMA EarlierGrows ==
    ASSUME NEW log, NEW longer, Grown(log, longer), NEW kind, NEW i \in 1..Len(log)
    PROVE  {j \in At(longer, kind) : j < i} = {j \in At(log, kind) : j < i}
BY AtMore DEF At, Grown, IsLog

LEMMA PermitPlacedGrows ==
    ASSUME NEW log, NEW longer, Grown(log, longer), NEW i \in 1..Len(log), PermitPlaced(log, i),
           AtTurn(longer, "author_actions_resolved", log[i].turn)
              = AtTurn(log, "author_actions_resolved", log[i].turn)
    PROVE  PermitPlaced(longer, i)
<1>1. longer[i] = log[i]
  BY DEF Grown
<1>2. Resolved(longer, log[i].turn) = Resolved(log, log[i].turn)
  <2> DEFINE found == AtTurn(log, "author_actions_resolved", log[i].turn)
  <2>1. \A j \in found : longer[j] = log[j]
    BY AtTurnMore
  <2>2. CASE found = {}
    BY <2>2 DEF Resolved
  <2>3. CASE found # {}
    <3>1. (CHOOSE j \in found : TRUE) \in found
      BY <2>3
    <3>2. The(longer, found) = The(log, found)
      BY <2>1, <3>1 DEF The
    <3>3. /\ Resolved(longer, log[i].turn) = The(longer, found).candidates
          /\ Resolved(log, log[i].turn) = The(log, found).candidates
      BY <2>3 DEF Resolved
    <3> QED
      BY <3>2, <3>3
  <2> QED
    BY <2>2, <2>3
<1>3. \E j \in AtTurn(longer, "author_actions_resolved", log[i].turn) : j < i
  BY DEF PermitPlaced
<1>4. ASSUME NEW j \in AtTurn(longer, "candidate_set_filtered", log[i].turn) PROVE i < j
  <2>1. j \in 1..Len(longer)
    BY DEF AtTurn, At, Grown, IsLog
  <2>2. CASE j > Len(log)
    BY <2>1, <2>2 DEF Grown, IsLog
  <2>3. CASE ~(j > Len(log))
    <3>1. j \in AtTurn(log, "candidate_set_filtered", log[i].turn)
      BY <2>1, <2>3, AtTurnMore DEF Grown, IsLog
    <3> QED
      BY <3>1 DEF PermitPlaced
  <2> QED
    BY <2>2, <2>3
<1>5. ASSUME NEW j \in At(longer, "search_completed") PROVE i < j
  <2>1. j \in 1..Len(longer)
    BY DEF At, Grown, IsLog
  <2>2. CASE j > Len(log)
    BY <2>1, <2>2 DEF Grown, IsLog
  <2>3. CASE ~(j > Len(log))
    <3>1. j \in At(log, "search_completed")
      BY <2>1, <2>3, AtMore DEF Grown, IsLog
    <3> QED
      BY <3>1 DEF PermitPlaced
  <2> QED
    BY <2>2, <2>3
<1>6. log[i].candidate \in Submitted(longer, log[i].turn)
  BY <1>2 DEF PermitPlaced, Submitted
<1> QED
  BY <1>1, <1>3, <1>4, <1>5, <1>6 DEF PermitPlaced

LEMMA PermitsKept ==
    ASSUME NEW log, NEW longer, NEW kinds, Adds(log, longer, kinds), NEW count,
           Permits(log, count),
           kinds \cap {"compilation_started", "compilation_completed", "compilation_refused"} = {},
           \A i \in At(log, "compilation_started") \cup At(log, "compilation_refused") :
              AtTurn(longer, "author_actions_resolved", log[i].turn)
                 = AtTurn(log, "author_actions_resolved", log[i].turn),
           \A i \in At(log, "compilation_refused") : Unlaunched(longer, i)
    PROVE  Permits(longer, count)
<1>1. Grown(log, longer)
  BY DEF Adds
<1>2. /\ At(longer, "compilation_started") = At(log, "compilation_started")
      /\ At(longer, "compilation_completed") = At(log, "compilation_completed")
      /\ At(longer, "compilation_refused") = At(log, "compilation_refused")
  BY AtSame
<1>3. \A kind : \A i \in At(log, kind) : i \in 1..Len(log) /\ longer[i] = log[i]
  BY <1>1, AtMore
<1>4. CompilationCount(longer) = count
  BY <1>2 DEF Permits, CompilationCount
<1>5. ASSUME NEW i \in At(log, "compilation_started")
      PROVE  /\ PermitPlaced(longer, i)
             /\ longer[i].number = Earlier(At(longer, "compilation_started"), i) + 1
             /\ i < Len(longer) /\ longer[i + 1].kind = "compilation_completed"
  <2>1. i \in 1..Len(log) /\ longer[i] = log[i]
    BY <1>3
  <2>2. PermitPlaced(longer, i)
    BY <2>1, <1>1, PermitPlacedGrows DEF Permits
  <2>3. i < Len(log) /\ log[i + 1].kind = "compilation_completed"
    BY DEF Permits
  <2>4. longer[i + 1] = log[i + 1] /\ i < Len(longer)
    BY <2>1, <2>3, <1>1 DEF Grown, IsLog
  <2> QED
    BY <1>2, <2>1, <2>2, <2>3, <2>4 DEF Permits
<1>6. ASSUME NEW i \in At(log, "compilation_completed")
      PROVE  /\ i > 1 /\ longer[i - 1].kind = "compilation_started"
             /\ longer[i].turn = longer[i - 1].turn
             /\ longer[i].candidate = longer[i - 1].candidate
             /\ longer[i].number = longer[i - 1].number
  <2>1. i \in 1..Len(log) /\ longer[i] = log[i]
    BY <1>3
  <2>2. i > 1
    BY DEF Permits
  <2>3. longer[i - 1] = log[i - 1]
    BY <2>1, <2>2, <1>1 DEF Grown, IsLog
  <2> QED
    BY <2>1, <2>2, <2>3 DEF Permits
<1>7. ASSUME NEW i \in At(log, "compilation_refused")
      PROVE  /\ PermitPlaced(longer, i)
             /\ Earlier(At(longer, "compilation_started"), i) = MaximumCompilations
  <2>1. i \in 1..Len(log) /\ longer[i] = log[i]
    BY <1>3
  <2>2. PermitPlaced(longer, i)
    BY <2>1, <1>1, PermitPlacedGrows DEF Permits
  <2> QED
    BY <1>2, <2>2 DEF Permits
<1> QED
  BY <1>2, <1>4, <1>5, <1>6, <1>7 DEF Permits

LEMMA UnlaunchedKept ==
    ASSUME NEW log, NEW longer, NEW kinds, Adds(log, longer, kinds),
           "candidate_set_filtered" \notin kinds, NEW i \in 1..Len(log), Unlaunched(log, i)
    PROVE  Unlaunched(longer, i)
<1>1. AtTurn(longer, "candidate_set_filtered", log[i].turn)
         = AtTurn(log, "candidate_set_filtered", log[i].turn)
  BY AtSame
<1>2. longer[i] = log[i]
  BY DEF Adds, Grown
<1>3. \A j \in AtTurn(log, "candidate_set_filtered", log[i].turn) : longer[j] = log[j]
  BY AtTurnMore DEF Adds
<1> QED
  BY <1>1, <1>2, <1>3 DEF Unlaunched

LEMMA PermitsStand ==
    ASSUME NEW log, NEW longer, NEW kinds, Adds(log, longer, kinds), NEW count,
           Permits(log, count),
           kinds \cap {"compilation_started", "compilation_completed", "compilation_refused",
                       "author_actions_resolved", "candidate_set_filtered"} = {}
    PROVE  Permits(longer, count)
<1>1. ASSUME NEW i \in At(log, "compilation_refused") PROVE Unlaunched(longer, i)
  <2>1. i \in 1..Len(log)
    BY AtMore DEF Adds
  <2>2. Unlaunched(log, i)
    BY DEF Permits
  <2>3. "candidate_set_filtered" \notin kinds
    OBVIOUS
  <2> QED
    BY <2>1, <2>2, <2>3, UnlaunchedKept
<1>2. \A t : AtTurn(longer, "author_actions_resolved", t) = AtTurn(log, "author_actions_resolved", t)
  <2>1. "author_actions_resolved" \notin kinds
    OBVIOUS
  <2> QED
    BY <2>1, AtSame
<1>3. kinds \cap {"compilation_started", "compilation_completed", "compilation_refused"} = {}
  OBVIOUS
<1> QED
  BY <1>1, <1>2, <1>3, PermitsKept

-------------------------------------------------------------------------------
(* What growth leaves of Evaluations *)

LEMMA EvaluatedMore ==
    ASSUME NEW log, NEW longer, Grown(log, longer), NEW key
    PROVE  \A j \in Evaluated(log, key) :
              j \in 1..Len(log) /\ j \in Evaluated(longer, key) /\ longer[j] = log[j]
BY DEF Grown, IsLog, At, Evaluated

LEMMA StartedBeforeGrows ==
    ASSUME NEW log, NEW longer, Grown(log, longer), NEW i \in 1..Len(log), NEW t, NEW purpose
    PROVE  StartedBefore(longer, i, t, purpose) = StartedBefore(log, i, t, purpose)
<1> DEFINE S(l) == {j \in AtTurn(l, "evaluation_attempt_started", t) :
                       j < i /\ l[j].purpose = purpose}
<1>1. ASSUME NEW j \in S(longer) PROVE j \in S(log)
  <2>1. j \in AtTurn(longer, "evaluation_attempt_started", t) /\ j < i /\ j \in 1..Len(longer)
    BY <1>1 DEF AtTurn, At, Grown, IsLog
  <2>2. j <= Len(log)
    BY <2>1 DEF Grown, IsLog
  <2>3. j \in AtTurn(log, "evaluation_attempt_started", t) /\ longer[j] = log[j]
    BY <2>1, <2>2, AtTurnMore
  <2> QED
    BY <1>1, <2>3
<1>2. ASSUME NEW j \in S(log) PROVE j \in S(longer)
  BY <1>2, AtTurnMore
<1>3. S(longer) = S(log)
  BY <1>1, <1>2
<1> QED
  BY <1>3 DEF StartedBefore

LEMMA PlacedGrows ==
    ASSUME NEW log, NEW longer, Grown(log, longer), NEW i \in 1..Len(log), Placed(log, i)
    PROVE  Placed(longer, i)
<1>0. longer[i] = log[i] /\ i \in Nat /\ Len(log) \in Nat
  BY DEF Grown, IsLog
<1>1. \E j \in SealedAt(longer, log[i].turn, log[i].candidate) : j < i
  <2>1. PICK j \in SealedAt(log, log[i].turn, log[i].candidate) : j < i
    BY DEF Placed
  <2>2. j \in AtTurn(longer, "launchable_candidate_sealed", log[i].turn) /\ longer[j] = log[j]
    BY <2>1, AtTurnMore DEF SealedAt
  <2> QED
    BY <2>1, <2>2 DEF SealedAt
<1>2. ASSUME NEW kind, NEW j \in At(longer, kind)
      PROVE  /\ j <= Len(log) => j \in At(log, kind) /\ longer[j] = log[j]
             /\ ~(j <= Len(log)) => i < j
  <2>1. j \in 1..Len(longer)
    BY DEF At, Grown, IsLog
  <2>2. CASE j <= Len(log)
    BY <2>1, <2>2, AtMore
  <2>3. CASE ~(j <= Len(log))
    BY <2>1, <2>3, <1>0
  <2> QED
    BY <2>2, <2>3
<1>3. IF log[i].origin = "source_turn"
      THEN /\ log[i].purpose # "search"
           /\ \E j \in At(longer, "candidate_nominated") :
                 j < i /\ longer[j].turn = log[i].turn /\ longer[j].candidate = log[i].candidate
      ELSE /\ \A j \in At(longer, "search_completed") : i < j
           /\ log[i].purpose # "confirmatory"
  <2>1. CASE log[i].origin = "source_turn"
    <3>1. PICK j \in At(log, "candidate_nominated") :
             j < i /\ log[j].turn = log[i].turn /\ log[j].candidate = log[i].candidate
      BY <2>1 DEF Placed
    <3>2. j \in At(longer, "candidate_nominated") /\ longer[j] = log[j]
      BY <3>1, AtMore
    <3>3. log[i].purpose # "search"
      BY <2>1 DEF Placed
    <3> QED
      BY <2>1, <3>1, <3>2, <3>3
  <2>2. CASE log[i].origin # "source_turn"
    <3>1. \A j \in At(log, "search_completed") : i < j
      BY <2>2 DEF Placed
    <3>2. \A j \in At(longer, "search_completed") : i < j
      BY <3>1, <1>2
    <3>3. log[i].purpose # "confirmatory"
      BY <2>2 DEF Placed
    <3> QED
      BY <2>2, <3>2, <3>3
  <2> QED
    BY <2>1, <2>2
<1>4. ASSUME log[i].purpose = "search" PROVE SearchPlaced(longer, i)
  <2>1. SearchPlaced(log, i)
    BY <1>4 DEF Placed
  <2>2. PICK j \in AtTurn(log, "candidate_set_filtered", log[i].turn) :
           LET wanted == SearchPlan(log[j].order)
               prior == StartedBefore(log, i, log[i].turn, "search")
           IN j < i /\ prior < Len(wanted) /\ wanted[prior + 1] = log[i].candidate
    BY <2>1 DEF SearchPlaced
  <2>3. j \in AtTurn(longer, "candidate_set_filtered", log[i].turn) /\ longer[j] = log[j]
    BY <2>2, AtTurnMore
  <2>4. StartedBefore(longer, i, log[i].turn, "search")
           = StartedBefore(log, i, log[i].turn, "search")
    BY StartedBeforeGrows
  <2> QED
    BY <1>0, <2>2, <2>3, <2>4 DEF SearchPlaced
<1>5. ASSUME log[i].purpose = "confirmatory" PROVE ConfirmatoryPlaced(longer, i)
  <2>1. ConfirmatoryPlaced(log, i)
    BY <1>5 DEF Placed
  <2>2. \A j \in At(longer, "evaluation_attempt_started") :
           j < i => longer[j].purpose # "confirmatory"
    <3> SUFFICES ASSUME NEW j \in At(longer, "evaluation_attempt_started"), j < i
                 PROVE  longer[j].purpose # "confirmatory"
      OBVIOUS
    <3>1. j \in 1..Len(longer)
      BY DEF At, Grown, IsLog
    <3>2. j \in At(log, "evaluation_attempt_started") /\ longer[j] = log[j]
      BY <1>0, <1>2, <3>1
    <3> QED
      BY <2>1, <3>2 DEF ConfirmatoryPlaced
  <2>3. PICK j \in AtTurn(log, "candidate_selected", log[i].turn) :
           /\ j < i /\ log[j].candidate = log[i].candidate
           /\ \E n \in DOMAIN log[j].qualified : log[j].qualified[n] = log[i].candidate
    BY <2>1 DEF ConfirmatoryPlaced
  <2>4. j \in AtTurn(longer, "candidate_selected", log[i].turn) /\ longer[j] = log[j]
    BY <2>3, AtTurnMore
  <2>5. CompletedBefore(longer, i, <<log[i].turn, "search", log[i].candidate>>)
    <3>1. PICK k \in Evaluated(log, <<log[i].turn, "search", log[i].candidate>>) : k < i
      BY <2>1 DEF ConfirmatoryPlaced, CompletedBefore
    <3>2. k \in Evaluated(longer, <<log[i].turn, "search", log[i].candidate>>)
      BY <3>1, EvaluatedMore
    <3> QED
      BY <3>1, <3>2 DEF CompletedBefore
  <2> QED
    BY <1>0, <2>2, <2>3, <2>4, <2>5 DEF ConfirmatoryPlaced
<1>6. ASSUME log[i].purpose = "attribution" PROVE AttributionPlaced(longer, i)
  <2>1. AttributionPlaced(log, i)
    BY <1>6 DEF Placed
  <2>2. CASE Attribution = "each"
    <3>1. PICK j \in Evaluated(log, <<log[i].turn, "search", log[i].candidate>>) :
             j < i /\ log[j].receipt.correct
      BY <2>1, <2>2 DEF AttributionPlaced
    <3>2. /\ j \in Evaluated(longer, <<log[i].turn, "search", log[i].candidate>>)
          /\ longer[j] = log[j]
      BY <3>1, EvaluatedMore
    <3> QED
      BY <1>0, <2>2, <3>1, <3>2 DEF AttributionPlaced
  <2>3. CASE Attribution = "selected"
    <3>1. PICK j \in Evaluated(log, <<log[i].turn, "confirmatory", log[i].candidate>>) :
             j < i /\ Qualifies(log[j].receipt)
      BY <2>1, <2>3 DEF AttributionPlaced
    <3>2. /\ j \in Evaluated(longer, <<log[i].turn, "confirmatory", log[i].candidate>>)
          /\ longer[j] = log[j]
      BY <3>1, EvaluatedMore
    <3> QED
      BY <1>0, <2>3, <3>1, <3>2 DEF AttributionPlaced
  <2> QED
    BY <2>1, <2>2, <2>3 DEF AttributionPlaced
<1>7. log[i].purpose \in Purposes
  BY DEF Placed
<1> QED
  BY <1>0, <1>1, <1>3, <1>4, <1>5, <1>6, <1>7 DEF Placed

LEMMA PairsGrow ==
    ASSUME NEW log, NEW longer, Grown(log, longer), NEW i \in 1..Len(log)
    PROVE  /\ longer[i] = log[i]
           /\ i # Len(log) => /\ i + 1 \in 1..Len(log) /\ longer[i + 1] = log[i + 1]
                              /\ Interrupted(log, i) => Interrupted(longer, i)
                              /\ \A kind : Follows(log, i, kind) => Follows(longer, i, kind)
           /\ i > 1 => /\ i - 1 \in 1..Len(log) /\ longer[i - 1] = log[i - 1]
                       /\ SameInvocation(log, i - 1, i) => SameInvocation(longer, i - 1, i)
<1>1. longer[i] = log[i] /\ Len(log) \in Nat
  BY DEF Grown, IsLog
<1>2. ASSUME i # Len(log)
      PROVE  i + 1 \in 1..Len(log) /\ longer[i + 1] = log[i + 1]
  <2>1. i + 1 \in 1..Len(log)
    BY <1>1, <1>2
  <2> QED
    BY <2>1 DEF Grown
<1>3. ASSUME i > 1
      PROVE  i - 1 \in 1..Len(log) /\ longer[i - 1] = log[i - 1]
  <2>1. i - 1 \in 1..Len(log)
    BY <1>1, <1>3
  <2> QED
    BY <2>1 DEF Grown
<1> QED
  BY <1>1, <1>2, <1>3 DEF Interrupted, Follows, SameInvocation

LEMMA ChainedKept ==
    ASSUME NEW log, NEW longer, NEW kinds, Adds(log, longer, kinds), Chained(log, FALSE),
           kinds \cap EvaluationKinds = {}
    PROVE  Chained(longer, FALSE)
<1>0. Grown(log, longer) /\ Len(log) <= Len(longer) /\ Len(log) \in Nat /\ Len(longer) \in Nat
  BY DEF Adds, Grown, IsLog
<1>1. ASSUME NEW kind \in EvaluationKinds
      PROVE  /\ At(longer, kind) = At(log, kind)
             /\ \A i \in At(log, kind) : i \in 1..Len(log) /\ longer[i] = log[i]
  <2>1. kind \notin kinds
    OBVIOUS
  <2> QED
    BY <2>1, AtSame
<1>2. /\ At(longer, "evaluation_attempt_started") = At(log, "evaluation_attempt_started")
      /\ At(longer, "evaluation_attempt_completed") = At(log, "evaluation_attempt_completed")
      /\ At(longer, "candidate_evaluated") = At(log, "candidate_evaluated")
      /\ \A i \in At(log, "evaluation_attempt_started") : i \in 1..Len(log) /\ longer[i] = log[i]
      /\ \A i \in At(log, "evaluation_attempt_completed") : i \in 1..Len(log)
      /\ \A i \in At(log, "candidate_evaluated") : i \in 1..Len(log)
  BY <1>1 DEF EvaluationKinds
<1>3. \A i, j \in At(log, "evaluation_attempt_started") :
         EvaluationKey(longer[i]) = EvaluationKey(longer[j]) => i = j
  BY <1>2 DEF Chained
<1>4. ASSUME NEW i \in At(log, "evaluation_attempt_started")
      PROVE  /\ Placed(longer, i) /\ i # Len(longer)
             /\ Follows(longer, i, "evaluation_attempt_completed") \/ Interrupted(longer, i)
  <2>1. /\ Placed(log, i) /\ i # Len(log) /\ i \in 1..Len(log)
        /\ Follows(log, i, "evaluation_attempt_completed") \/ Interrupted(log, i)
    BY <1>2 DEF Chained
  <2> QED
    BY <1>0, <2>1, PlacedGrows, PairsGrow
<1>5. ASSUME NEW i \in At(log, "evaluation_attempt_completed")
      PROVE  /\ i > 1 /\ longer[i - 1].kind = "evaluation_attempt_started"
             /\ SameInvocation(longer, i - 1, i) /\ i # Len(longer)
             /\ Follows(longer, i, "candidate_evaluated") \/ Interrupted(longer, i)
  <2>1. /\ i > 1 /\ log[i - 1].kind = "evaluation_attempt_started"
        /\ SameInvocation(log, i - 1, i) /\ i # Len(log) /\ i \in 1..Len(log)
        /\ Follows(log, i, "candidate_evaluated") \/ Interrupted(log, i)
    BY <1>2 DEF Chained
  <2> QED
    BY <1>0, <2>1, PairsGrow
<1>6. ASSUME NEW i \in At(log, "candidate_evaluated")
      PROVE  /\ i > 1 /\ longer[i - 1].kind = "evaluation_attempt_completed"
             /\ longer[i - 1].answered /\ SameInvocation(longer, i - 1, i)
  <2>1. /\ i > 1 /\ log[i - 1].kind = "evaluation_attempt_completed"
        /\ log[i - 1].answered /\ SameInvocation(log, i - 1, i) /\ i \in 1..Len(log)
    BY <1>2 DEF Chained
  <2> QED
    BY <1>0, <2>1, PairsGrow
<1> QED
  BY <1>2, <1>3, <1>4, <1>5, <1>6 DEF Chained

(* One more event, which answers what the last one asked for. *)
LEMMA ChainedNext ==
    ASSUME NEW log, NEW longer, Grown(log, longer), Len(longer) = Len(log) + 1,
           NEW pending \in BOOLEAN, NEW later \in BOOLEAN, Chained(log, pending),
           Len(log) \in At(log, "evaluation_attempt_started") =>
              Follows(longer, Len(log), "evaluation_attempt_completed")
              \/ Interrupted(longer, Len(log)),
           Len(log) \in At(log, "evaluation_attempt_completed") =>
              Follows(longer, Len(log), "candidate_evaluated") \/ Interrupted(longer, Len(log)),
           longer[Len(longer)].kind = "evaluation_attempt_started" =>
              /\ later /\ Placed(longer, Len(longer))
              /\ \A i \in At(log, "evaluation_attempt_started") :
                    EvaluationKey(log[i]) # EvaluationKey(longer[Len(longer)]),
           longer[Len(longer)].kind = "evaluation_attempt_completed" =>
              /\ later /\ Len(log) \in At(log, "evaluation_attempt_started")
              /\ SameInvocation(longer, Len(log), Len(longer)),
           longer[Len(longer)].kind = "candidate_evaluated" =>
              /\ Len(log) \in At(log, "evaluation_attempt_completed")
              /\ log[Len(log)].answered /\ SameInvocation(longer, Len(log), Len(longer))
    PROVE  Chained(longer, later)
<1>0. Len(log) \in Nat /\ Len(longer) = Len(log) + 1 /\ Len(longer) # Len(log)
  <2>1. Len(log) \in Nat
    BY DEF Grown, IsLog
  <2> QED
    BY <2>1
<1>1. ASSUME NEW kind, NEW i \in At(longer, kind)
      PROVE  \/ i \in At(log, kind) /\ i \in 1..Len(log) /\ longer[i] = log[i]
                /\ i # Len(longer)
             \/ i = Len(longer) /\ longer[Len(longer)].kind = kind
  <2>1. i \in 1..Len(longer) /\ longer[i].kind = kind
    BY DEF At, Grown, IsLog
  <2>2. CASE i = Len(longer)
    BY <2>1, <2>2
  <2>3. CASE i # Len(longer)
    <3>1. i <= Len(log)
      BY <1>0, <2>1, <2>3
    <3> QED
      BY <2>1, <2>3, <3>1, AtMore
  <2> QED
    BY <2>2, <2>3
<1>2. Len(log) \in 1..Len(log) => longer[Len(log)] = log[Len(log)]
  BY DEF Grown
<1>3. ASSUME NEW i \in At(longer, "evaluation_attempt_started"),
             NEW j \in At(longer, "evaluation_attempt_started"),
             EvaluationKey(longer[i]) = EvaluationKey(longer[j])
      PROVE  i = j
  <2>1. CASE i # Len(longer) /\ j # Len(longer)
    BY <1>1, <1>3, <2>1 DEF Chained
  <2>2. CASE i = Len(longer) /\ j # Len(longer)
    BY <1>1, <1>3, <2>2
  <2>3. CASE i # Len(longer) /\ j = Len(longer)
    BY <1>1, <1>3, <2>3
  <2> QED
    BY <2>1, <2>2, <2>3
<1>4. ASSUME NEW i \in At(longer, "evaluation_attempt_started")
      PROVE  /\ Placed(longer, i)
             /\ IF i = Len(longer) THEN later
                ELSE Follows(longer, i, "evaluation_attempt_completed") \/ Interrupted(longer, i)
  <2>1. CASE i = Len(longer) /\ longer[Len(longer)].kind = "evaluation_attempt_started"
    BY <2>1
  <2>2. CASE i \in At(log, "evaluation_attempt_started") /\ i \in 1..Len(log) /\ i # Len(longer)
    <3>1. Placed(longer, i)
      BY <2>2, PlacedGrows DEF Chained
    <3>2. CASE i = Len(log)
      BY <2>2, <3>1, <3>2
    <3>3. CASE i # Len(log)
      <4>1. Follows(log, i, "evaluation_attempt_completed") \/ Interrupted(log, i)
        BY <2>2, <3>3 DEF Chained
      <4> QED
        BY <2>2, <3>1, <3>3, <4>1, PairsGrow
    <3> QED
      BY <3>2, <3>3
  <2> QED
    BY <1>1, <2>1, <2>2
<1>5. ASSUME NEW i \in At(longer, "evaluation_attempt_completed")
      PROVE  /\ i > 1 /\ longer[i - 1].kind = "evaluation_attempt_started"
             /\ SameInvocation(longer, i - 1, i)
             /\ IF i = Len(longer) THEN later
                ELSE Follows(longer, i, "candidate_evaluated") \/ Interrupted(longer, i)
  <2>1. CASE i = Len(longer) /\ longer[Len(longer)].kind = "evaluation_attempt_completed"
    <3>1. /\ Len(log) \in 1..Len(log) /\ log[Len(log)].kind = "evaluation_attempt_started"
          /\ later /\ SameInvocation(longer, Len(log), Len(longer))
      BY <2>1 DEF At, Grown, IsLog
    <3>2. i - 1 = Len(log) /\ i > 1
      BY <1>0, <2>1, <3>1
    <3> QED
      BY <1>2, <2>1, <3>1, <3>2
  <2>2. CASE i \in At(log, "evaluation_attempt_completed") /\ i \in 1..Len(log) /\ i # Len(longer)
    <3>1. /\ i > 1 /\ log[i - 1].kind = "evaluation_attempt_started"
          /\ SameInvocation(log, i - 1, i)
      BY <2>2 DEF Chained
    <3>2. longer[i - 1].kind = "evaluation_attempt_started" /\ SameInvocation(longer, i - 1, i)
      BY <2>2, <3>1, PairsGrow
    <3>3. CASE i = Len(log)
      BY <2>2, <3>1, <3>2, <3>3
    <3>4. CASE i # Len(log)
      <4>1. Follows(log, i, "candidate_evaluated") \/ Interrupted(log, i)
        BY <2>2, <3>4 DEF Chained
      <4> QED
        BY <2>2, <3>1, <3>2, <3>4, <4>1, PairsGrow
    <3> QED
      BY <3>3, <3>4
  <2> QED
    BY <1>1, <2>1, <2>2
<1>6. ASSUME NEW i \in At(longer, "candidate_evaluated")
      PROVE  /\ i > 1 /\ longer[i - 1].kind = "evaluation_attempt_completed"
             /\ longer[i - 1].answered /\ SameInvocation(longer, i - 1, i)
  <2>1. CASE i = Len(longer) /\ longer[Len(longer)].kind = "candidate_evaluated"
    <3>1. /\ Len(log) \in 1..Len(log) /\ log[Len(log)].kind = "evaluation_attempt_completed"
          /\ log[Len(log)].answered /\ SameInvocation(longer, Len(log), Len(longer))
      BY <2>1 DEF At, Grown, IsLog
    <3>2. i - 1 = Len(log) /\ i > 1
      BY <1>0, <2>1, <3>1
    <3> QED
      BY <1>2, <2>1, <3>1, <3>2
  <2>2. CASE i \in At(log, "candidate_evaluated") /\ i \in 1..Len(log)
    <3>1. /\ i > 1 /\ log[i - 1].kind = "evaluation_attempt_completed"
          /\ log[i - 1].answered /\ SameInvocation(log, i - 1, i)
      BY <2>2 DEF Chained
    <3> QED
      BY <2>2, <3>1, PairsGrow
  <2> QED
    BY <1>1, <2>1, <2>2
<1> QED
  BY <1>3, <1>4, <1>5, <1>6 DEF Chained

(* The Evaluations of each purpose, counted. *)
LEMMA StartsAreFinite ==
    ASSUME NEW log, IsLog(log), NEW purpose
    PROVE  IsFiniteSet(Starts(log, purpose)) /\ Starts(log, purpose) \subseteq 1..Len(log)
<1>1. Starts(log, purpose) \in SUBSET At(log, "evaluation_attempt_started")
  BY DEF Starts
<1>2. /\ IsFiniteSet(At(log, "evaluation_attempt_started"))
      /\ At(log, "evaluation_attempt_started") \subseteq 1..Len(log)
  BY LogIsFinite
<1> QED
  BY <1>1, <1>2, FS_Subset

LEMMA TalliedKept ==
    ASSUME NEW log, NEW longer, NEW kinds, Adds(log, longer, kinds),
           "evaluation_attempt_started" \notin kinds, NEW used, Tallied(log, used)
    PROVE  Tallied(longer, used)
<1>1. /\ At(longer, "evaluation_attempt_started") = At(log, "evaluation_attempt_started")
      /\ \A i \in At(log, "evaluation_attempt_started") : longer[i] = log[i]
  BY AtSame
<1>2. \A purpose : Starts(longer, purpose) = Starts(log, purpose)
  BY <1>1 DEF Starts
<1> QED
  BY <1>2 DEF Tallied

LEMMA TalliedNext ==
    ASSUME NEW log, NEW longer, Grown(log, longer), Len(longer) = Len(log) + 1,
           longer[Len(longer)].kind = "evaluation_attempt_started",
           NEW used \in [Purposes -> Nat], Tallied(log, used), NEW charged \in Purposes,
           longer[Len(longer)].purpose = charged
    PROVE  Tallied(longer, [used EXCEPT ![charged] = @ + 1])
<1> DEFINE later == [used EXCEPT ![charged] = @ + 1]
<1>1. /\ At(longer, "evaluation_attempt_started")
            = At(log, "evaluation_attempt_started") \cup {Len(longer)}
      /\ \A i \in At(log, "evaluation_attempt_started") :
            longer[i] = log[i] /\ i \in 1..Len(log)
  <2>1. At(longer, "evaluation_attempt_started")
           = At(log, "evaluation_attempt_started") \cup {Len(longer)}
    BY AtNext
  <2>2. \A i \in At(log, "evaluation_attempt_started") :
           longer[i] = log[i] /\ i \in 1..Len(log)
    BY AtMore
  <2> QED
    BY <2>1, <2>2
<1>2. Len(longer) \notin 1..Len(log)
  <2>1. Len(log) \in Nat
    BY DEF Grown, IsLog
  <2> QED
    BY <2>1
<1>3. ASSUME NEW purpose \in Purposes
      PROVE  Cardinality(Starts(longer, purpose)) = later[purpose]
  <2>0. IsFiniteSet(Starts(log, purpose)) /\ Starts(log, purpose) \subseteq 1..Len(log)
    BY StartsAreFinite DEF Grown
  <2>3. Cardinality(Starts(log, purpose)) = used[purpose] /\ used[purpose] \in Nat
    BY DEF Tallied
  <2>1. CASE purpose = charged
    <3>1. Starts(longer, purpose) = Starts(log, purpose) \cup {Len(longer)}
      BY <1>1, <2>1 DEF Starts
    <3>2. Cardinality(Starts(longer, purpose)) = used[purpose] + 1
      BY <1>2, <2>0, <2>3, <3>1, FS_AddElement, SMTT(30)
    <3> QED
      BY <2>1, <3>2
  <2>2. CASE purpose # charged
    <3>1. Starts(longer, purpose) = Starts(log, purpose)
      BY <1>1, <2>2 DEF Starts
    <3> QED
      BY <2>2, <2>3, <3>1
  <2> QED
    BY <2>1, <2>2
<1> QED
  BY <1>3 DEF Tallied

LEMMA ResolvedSame ==
    ASSUME NEW log, NEW longer, Grown(log, longer), NEW t,
           AtTurn(longer, "author_actions_resolved", t)
              = AtTurn(log, "author_actions_resolved", t)
    PROVE  Resolved(longer, t) = Resolved(log, t) /\ Submitted(longer, t) = Submitted(log, t)
<1> DEFINE found == AtTurn(log, "author_actions_resolved", t)
<1>1. \A j \in found : longer[j] = log[j]
  BY AtTurnMore
<1>2. CASE found = {}
  BY <1>2 DEF Resolved, Submitted
<1>3. CASE found # {}
  <2>1. (CHOOSE j \in found : TRUE) \in found
    BY <1>3
  <2>2. The(longer, found) = The(log, found)
    BY <1>1, <2>1 DEF The
  <2>3. /\ Resolved(longer, t) = The(longer, found).candidates
        /\ Resolved(log, t) = The(log, found).candidates
    BY <1>3 DEF Resolved
  <2> QED
    BY <2>2, <2>3 DEF Submitted
<1> QED
  BY <1>2, <1>3

(* A filter says what it said, and its rejections stand. *)
FilterStays(log, longer, i) ==
    /\ longer[i].order \in Seq(Row)
    /\ AtTurn(longer, "candidate_set_filtered", log[i].turn)
          = AtTurn(log, "candidate_set_filtered", log[i].turn)
       => FilterReplays(longer, longer[i].turn)
    /\ \A n \in DOMAIN longer[i].order : ~longer[i].order[n].launchable =>
          \E j \in AtTurn(longer, "candidate_rejected", longer[i].turn) :
              longer[j].candidate = longer[i].order[n].candidate

LEMMA FilterGrows ==
    ASSUME NEW log, NEW longer, Grown(log, longer), Sifted(log),
           \A i \in At(log, "candidate_set_filtered") :
              AtTurn(longer, "author_actions_resolved", log[i].turn)
                 = AtTurn(log, "author_actions_resolved", log[i].turn)
    PROVE  \A i \in At(log, "candidate_set_filtered") : FilterStays(log, longer, i)
<1> SUFFICES ASSUME NEW i \in At(log, "candidate_set_filtered")
    PROVE   /\ longer[i].order \in Seq(Row)
            /\ AtTurn(longer, "candidate_set_filtered", log[i].turn)
                   = AtTurn(log, "candidate_set_filtered", log[i].turn)
                 => FilterReplays(longer, longer[i].turn)
            /\ \A n \in DOMAIN longer[i].order : ~longer[i].order[n].launchable =>
                    \E j \in AtTurn(longer, "candidate_rejected", longer[i].turn) :
                        longer[j].candidate = longer[i].order[n].candidate
  BY Zenon DEF FilterStays
<1>1. longer[i] = log[i]
  BY AtMore
<1>2. log[i].order \in Seq(Row) /\ FilterReplays(log, log[i].turn)
  BY DEF Sifted
<1>3. ASSUME AtTurn(longer, "candidate_set_filtered", log[i].turn)
                = AtTurn(log, "candidate_set_filtered", log[i].turn)
      PROVE  FilterReplays(longer, log[i].turn)
  <2>1. /\ Resolved(longer, log[i].turn) = Resolved(log, log[i].turn)
        /\ Submitted(longer, log[i].turn) = Submitted(log, log[i].turn)
    BY ResolvedSame
  <2>2. \A j \in AtTurn(log, "candidate_set_filtered", log[i].turn) : longer[j] = log[j]
    BY AtTurnMore
  <2> QED
    BY <1>2, <1>3, <2>1, <2>2 DEF FilterReplays
<1>4. ASSUME NEW n \in DOMAIN log[i].order, ~log[i].order[n].launchable
      PROVE  \E j \in AtTurn(longer, "candidate_rejected", log[i].turn) :
                longer[j].candidate = log[i].order[n].candidate
  <2>1. PICK j \in AtTurn(log, "candidate_rejected", log[i].turn) :
           log[j].candidate = log[i].order[n].candidate
    BY <1>4 DEF Sifted
  <2>2. j \in AtTurn(longer, "candidate_rejected", log[i].turn) /\ longer[j] = log[j]
    BY <2>1, AtTurnMore
  <2> QED
    BY <2>1, <2>2
<1> QED
  BY <1>1, <1>2, <1>3, <1>4

LEMMA SiftedKept ==
    ASSUME NEW log, NEW longer, NEW kinds, Adds(log, longer, kinds), Sifted(log),
           kinds \cap {"candidate_set_filtered", "candidate_rejected"} = {},
           \A i \in At(log, "candidate_set_filtered") :
              AtTurn(longer, "author_actions_resolved", log[i].turn)
                 = AtTurn(log, "author_actions_resolved", log[i].turn)
    PROVE  Sifted(longer)
<1>0. Grown(log, longer)
  BY DEF Adds
<1>1. /\ At(longer, "candidate_set_filtered") = At(log, "candidate_set_filtered")
      /\ At(longer, "candidate_rejected") = At(log, "candidate_rejected")
      /\ \A i \in At(log, "candidate_rejected") : longer[i] = log[i]
  <2>1. "candidate_set_filtered" \notin kinds /\ "candidate_rejected" \notin kinds
    OBVIOUS
  <2> QED
    BY <2>1, AtSame
<1>2. \A t : AtTurn(longer, "candidate_set_filtered", t) = AtTurn(log, "candidate_set_filtered", t)
  <2>1. "candidate_set_filtered" \notin kinds
    OBVIOUS
  <2> QED
    BY <2>1, AtTurnSame
<1>3. \A i \in At(log, "candidate_set_filtered") :
              /\ longer[i].order \in Seq(Row)
              /\ FilterReplays(longer, longer[i].turn)
              /\ \A n \in DOMAIN longer[i].order : ~longer[i].order[n].launchable =>
                    \E j \in AtTurn(longer, "candidate_rejected", longer[i].turn) :
                        longer[j].candidate = longer[i].order[n].candidate
  <2>1. \A i \in At(log, "candidate_set_filtered") : FilterStays(log, longer, i)
    BY <1>0, <1>2, FilterGrows
  <2> QED
    BY <1>2, <2>1 DEF FilterStays
<1>4. ASSUME NEW i \in At(log, "candidate_rejected")
      PROVE  \E j \in AtTurn(longer, "candidate_set_filtered", longer[i].turn) :
                \E n \in DOMAIN longer[j].order :
                    /\ longer[j].order[n].candidate = longer[i].candidate
                    /\ ~longer[j].order[n].launchable
  <2>1. PICK j \in AtTurn(log, "candidate_set_filtered", log[i].turn) :
           \E n \in DOMAIN log[j].order : /\ log[j].order[n].candidate = log[i].candidate
                                          /\ ~log[j].order[n].launchable
    BY DEF Sifted
  <2>2. /\ j \in AtTurn(longer, "candidate_set_filtered", log[i].turn)
        /\ longer[j] = log[j] /\ longer[i] = log[i]
    BY <1>0, <1>1, <2>1, AtTurnMore
  <2> QED
    BY <2>1, <2>2
<1>5. \A i, j \in At(log, "candidate_rejected") :
         longer[i].turn = longer[j].turn /\ longer[i].candidate = longer[j].candidate => i = j
  BY <1>1 DEF Sifted
<1> QED
  BY <1>1, <1>3, <1>4, <1>5 DEF Sifted

LEMMA SealedKept ==
    ASSUME NEW log, NEW longer, NEW kinds, Adds(log, longer, kinds), Sealed(log, FALSE),
           "launchable_candidate_sealed" \notin kinds
    PROVE  Sealed(longer, FALSE)
<1>0. Grown(log, longer) /\ Len(log) \in Nat /\ Len(longer) \in Nat /\ Len(log) <= Len(longer)
  BY DEF Adds, Grown, IsLog
<1>1. At(longer, "launchable_candidate_sealed") = At(log, "launchable_candidate_sealed")
  BY AtSame
<1>2. ASSUME NEW i \in At(log, "launchable_candidate_sealed")
      PROVE /\ \E j \in AtTurn(longer, "candidate_set_filtered", longer[i].turn) :
              j < i /\ \E n \in DOMAIN longer[j].order :
                  longer[j].order[n].candidate = longer[i].candidate
                  /\ longer[j].order[n].launchable
            /\ i # Len(longer) /\ longer[i + 1].kind = "evaluation_attempt_started"
            /\ EvaluationKey(longer[i + 1]) = <<longer[i].turn, "search", longer[i].candidate>>
  <2>1. i \in 1..Len(log) /\ longer[i] = log[i]
    BY <1>0, AtMore
  <2>2. /\ i # Len(log) /\ log[i + 1].kind = "evaluation_attempt_started"
        /\ EvaluationKey(log[i + 1]) = <<log[i].turn, "search", log[i].candidate>>
    BY DEF Sealed
  <2>3. longer[i + 1] = log[i + 1] /\ i # Len(longer)
    BY <1>0, <2>1, <2>2, PairsGrow
  <2>4. PICK j \in AtTurn(log, "candidate_set_filtered", log[i].turn) :
              j < i /\ \E n \in DOMAIN log[j].order :
                  log[j].order[n].candidate = log[i].candidate /\ log[j].order[n].launchable
    BY DEF Sealed
  <2>5. j \in AtTurn(longer, "candidate_set_filtered", log[i].turn) /\ longer[j] = log[j]
    BY <1>0, <2>4, AtTurnMore
  <2> QED
    BY <2>1, <2>2, <2>3, <2>4, <2>5
<1> QED
  BY <1>1, <1>2 DEF Sealed

(* One more event, which a candidate sealed before it is owed. *)
LEMMA SealedNext ==
    ASSUME NEW log, NEW longer, Grown(log, longer), Len(longer) = Len(log) + 1,
           NEW pending \in BOOLEAN, NEW later \in BOOLEAN, Sealed(log, pending),
           Len(log) \in At(log, "launchable_candidate_sealed") =>
              /\ longer[Len(longer)].kind = "evaluation_attempt_started"
              /\ EvaluationKey(longer[Len(longer)])
                    = <<log[Len(log)].turn, "search", log[Len(log)].candidate>>,
           longer[Len(longer)].kind = "launchable_candidate_sealed" =>
              /\ later
              /\ \E j \in AtTurn(log, "candidate_set_filtered", longer[Len(longer)].turn) :
                    \E n \in DOMAIN log[j].order :
                        /\ log[j].order[n].candidate = longer[Len(longer)].candidate
                        /\ log[j].order[n].launchable
    PROVE  Sealed(longer, later)
<1>0. Len(log) \in Nat /\ Len(longer) = Len(log) + 1 /\ Len(longer) # Len(log)
  <2>1. Len(log) \in Nat
    BY DEF Grown, IsLog
  <2> QED
    BY <2>1
<1>1. ASSUME NEW i \in At(longer, "launchable_candidate_sealed")
      PROVE /\ \E j \in AtTurn(longer, "candidate_set_filtered", longer[i].turn) :
              j < i /\ \E n \in DOMAIN longer[j].order :
                  longer[j].order[n].candidate = longer[i].candidate
                  /\ longer[j].order[n].launchable
            /\ IF i = Len(longer) THEN later
               ELSE /\ longer[i + 1].kind = "evaluation_attempt_started"
                    /\ EvaluationKey(longer[i + 1])
                          = <<longer[i].turn, "search", longer[i].candidate>>
  <2>0. i \in 1..Len(longer) /\ longer[i].kind = "launchable_candidate_sealed"
    BY DEF At, Grown, IsLog
  <2>1. CASE i = Len(longer)
    <3>1. PICK j \in AtTurn(log, "candidate_set_filtered", longer[Len(longer)].turn) :
                    \E n \in DOMAIN log[j].order :
                        /\ log[j].order[n].candidate = longer[Len(longer)].candidate
                        /\ log[j].order[n].launchable
      BY <2>0, <2>1
    <3>2. /\ j \in AtTurn(longer, "candidate_set_filtered", longer[Len(longer)].turn)
          /\ longer[j] = log[j] /\ j \in 1..Len(log)
      BY <3>1, AtTurnMore
    <3>3. j < i /\ later
      BY <1>0, <2>0, <2>1, <3>2
    <3> QED
      BY <2>1, <3>1, <3>2, <3>3
  <2>2. CASE i # Len(longer)
    <3>1. i \in At(log, "launchable_candidate_sealed") /\ i \in 1..Len(log) /\ longer[i] = log[i]
      <4>1. i <= Len(log)
        BY <1>0, <2>0, <2>2
      <4> QED
        BY <4>1, AtMore
    <3>2. PICK j \in AtTurn(log, "candidate_set_filtered", log[i].turn) :
              j < i /\ \E n \in DOMAIN log[j].order :
                  log[j].order[n].candidate = log[i].candidate /\ log[j].order[n].launchable
      BY <3>1 DEF Sealed
    <3>3. j \in AtTurn(longer, "candidate_set_filtered", log[i].turn) /\ longer[j] = log[j]
      BY <3>2, AtTurnMore
    <3>4. /\ longer[i + 1].kind = "evaluation_attempt_started"
          /\ EvaluationKey(longer[i + 1]) = <<log[i].turn, "search", log[i].candidate>>
      <4>1. CASE i = Len(log)
        BY <1>0, <3>1, <4>1
      <4>2. CASE i # Len(log)
        <5>1. /\ log[i + 1].kind = "evaluation_attempt_started"
              /\ EvaluationKey(log[i + 1]) = <<log[i].turn, "search", log[i].candidate>>
          BY <3>1, <4>2 DEF Sealed
        <5>2. longer[i + 1] = log[i + 1]
          BY <3>1, <4>2, PairsGrow
        <5> QED
          BY <5>1, <5>2
      <4> QED
        BY <4>1, <4>2
    <3> QED
      BY <2>2, <3>1, <3>2, <3>3, <3>4
  <2> QED
    BY <2>1, <2>2
<1> QED
  BY <1>1 DEF Sealed

-------------------------------------------------------------------------------
(* What a turn measured *)

LEMMA SameSequence ==
    ASSUME NEW s, NEW t, IsSequence(s), IsSequence(t), Len(s) = Len(t),
           \A n \in 1..Len(s) : s[n] = t[n]
    PROVE  s = t
<1>1. PICK S : s \in Seq(S)
  BY DEF IsSequence
<1>2. PICK T : t \in Seq(T)
  BY DEF IsSequence
<1>3. s \in Seq(S \cup T) /\ t \in Seq(S \cup T)
  BY <1>1, <1>2, SeqMonotonic
<1> QED
  BY <1>3, SeqEqual

(* The rows at some positions, of any log. *)
LEMMA RowsAt ==
    ASSUME NEW rows, NEW D, D \subseteq Nat, IsFiniteSet(D)
    PROVE  /\ Cardinality(D) \in Nat /\ IsSequence(AtPositions(rows, D))
           /\ Len(AtPositions(rows, D)) = Cardinality(D)
           /\ \A i \in D : /\ Earlier(D, i) + 1 \in 1..Cardinality(D)
                           /\ AtPositions(rows, D)[Earlier(D, i) + 1] = rows[i]
           /\ \A n \in 1..Cardinality(D) : \E i \in D : n = Earlier(D, i) + 1
<1> DEFINE at(n) == CHOOSE i \in D : Earlier(D, i) = n - 1
           s == AtPositions(rows, D)
<1>1. Cardinality(D) \in Nat
  BY FS_CardinalityType
<1>2. ASSUME NEW n \in 1..Cardinality(D)
      PROVE  at(n) \in D /\ Earlier(D, at(n)) = n - 1 /\ s[n] = rows[at(n)]
  <2>1. \E i \in D : Earlier(D, i) = n - 1
    BY EarlierSurjective
  <2>2. at(n) \in D /\ Earlier(D, at(n)) = n - 1
    BY <2>1
  <2> QED
    BY <2>2 DEF AtPositions
<1>3. ASSUME NEW i \in D
      PROVE  Earlier(D, i) + 1 \in 1..Cardinality(D) /\ s[Earlier(D, i) + 1] = rows[i]
  <2>1. Earlier(D, i) \in Nat /\ Earlier(D, i) < Cardinality(D)
    BY EarlierType, EarlierBelow
  <2> DEFINE n == Earlier(D, i) + 1
  <2>2. n \in 1..Cardinality(D) /\ n - 1 = Earlier(D, i)
    BY <1>1, <2>1
  <2>3. at(n) \in D /\ Earlier(D, at(n)) = Earlier(D, i) /\ s[n] = rows[at(n)]
    BY <1>2, <2>2
  <2>4. at(n) = i
    BY <2>3, EarlierInjective
  <2> QED
    BY <2>2, <2>3, <2>4
<1>4. ASSUME NEW n \in 1..Cardinality(D) PROVE \E i \in D : n = Earlier(D, i) + 1
  <2>1. at(n) \in D /\ Earlier(D, at(n)) = n - 1
    BY <1>2
  <2>2. n = Earlier(D, at(n)) + 1
    BY <2>1
  <2> QED
    BY <2>1, <2>2
<1>5. IsSequence(s) /\ Len(s) = Cardinality(D)
  <2>1. s = [n \in 1..Cardinality(D) |-> s[n]]
    BY DEF AtPositions
  <2> QED
    BY <1>1, <2>1, FunctionIsSequence
<1> QED
  BY <1>1, <1>3, <1>4, <1>5

LEMMA SameRowsAt ==
    ASSUME NEW rows, NEW more, NEW D, D \subseteq Nat, IsFiniteSet(D),
           \A i \in D : more[i] = rows[i]
    PROVE  AtPositions(more, D) = AtPositions(rows, D)
<1> DEFINE s == AtPositions(rows, D)
           t == AtPositions(more, D)
<1>1. /\ IsSequence(s) /\ Len(s) = Cardinality(D)
      /\ \A i \in D : s[Earlier(D, i) + 1] = rows[i]
      /\ \A n \in 1..Cardinality(D) : \E i \in D : n = Earlier(D, i) + 1
  BY ONLY RowsAt, D \subseteq Nat, IsFiniteSet(D)
<1>4. /\ IsSequence(t) /\ Len(t) = Cardinality(D)
      /\ \A i \in D : t[Earlier(D, i) + 1] = more[i]
  BY ONLY RowsAt, D \subseteq Nat, IsFiniteSet(D)
<1> HIDE DEF s, t
<1>2. \A n \in 1..Len(s) : s[n] = t[n]
  BY <1>1, <1>4
<1>3. s = t
  BY <1>1, <1>2, <1>4, SameSequence
<1> QED
  BY <1>3 DEF s, t

LEMMA OneMoreAfter ==
    ASSUME NEW D, D \subseteq Nat, IsFiniteSet(D), NEW m \in Nat, \A i \in D : i < m
    PROVE  /\ D \cup {m} \subseteq Nat /\ IsFiniteSet(D \cup {m}) /\ m \notin D
           /\ Cardinality(D \cup {m}) = Cardinality(D) + 1
           /\ \A i \in D : Earlier(D \cup {m}, i) = Earlier(D, i)
           /\ Earlier(D \cup {m}, m) = Cardinality(D)
<1> DEFINE E == D \cup {m}
<1>1. E \subseteq Nat /\ IsFiniteSet(E) /\ Cardinality(E) = Cardinality(D) + 1 /\ m \notin D
  <2>1. m \notin D
    OBVIOUS
  <2> QED
    BY <2>1, FS_AddElement
<1>2. ASSUME NEW i \in D PROVE Earlier(E, i) = Earlier(D, i)
  <2>1. {j \in E : j < i} = {j \in D : j < i}
    OBVIOUS
  <2> QED
    BY <2>1 DEF Earlier
<1>3. Earlier(E, m) = Cardinality(D)
  <2>1. \A j \in E : j < m <=> j \in D
    BY <1>1
  <2>2. {j \in E : j < m} = D
    BY <2>1
  <2> QED
    BY <2>2 DEF Earlier
<1> QED
  BY <1>1, <1>2, <1>3

SearchOf(event) == [candidate |-> event.candidate, receipt |-> event.receipt]

LEMMA TurnSearchesFacts ==
    ASSUME NEW log, IsLog(log), NEW t
    PROVE  LET D == SearchesAt(log, t)
               s == TurnSearches(log, t)
           IN /\ IsFiniteSet(D) /\ D \subseteq 1..Len(log) /\ Cardinality(D) \in Nat
              /\ IsSequence(s) /\ Len(s) = Cardinality(D)
              /\ \A i \in D : /\ Earlier(D, i) + 1 \in 1..Len(s)
                              /\ s[Earlier(D, i) + 1] = SearchOf(log[i])
              /\ \A n \in 1..Len(s) : \E i \in D : n = Earlier(D, i) + 1
<1> DEFINE D == SearchesAt(log, t)
           s == TurnSearches(log, t)
           events == AtPositions(log, D)
<1>1. IsFiniteSet(D) /\ D \subseteq 1..Len(log) /\ D \subseteq Nat
  <2>1. D \in SUBSET At(log, "candidate_evaluated")
    BY DEF SearchesAt, AtTurn
  <2>2. /\ IsFiniteSet(At(log, "candidate_evaluated"))
        /\ At(log, "candidate_evaluated") \subseteq 1..Len(log)
    BY LogIsFinite
  <2> QED
    BY <2>1, <2>2, FS_Subset
<1>2. /\ Cardinality(D) \in Nat /\ IsSequence(events) /\ Len(events) = Cardinality(D)
      /\ \A i \in D : /\ Earlier(D, i) + 1 \in 1..Cardinality(D)
                      /\ events[Earlier(D, i) + 1] = log[i]
      /\ \A n \in 1..Cardinality(D) : \E i \in D : n = Earlier(D, i) + 1
  BY <1>1, RowsAt
<1>3. s = [n \in 1..Len(events) |->
             [candidate |-> events[n].candidate, receipt |-> events[n].receipt]]
  BY DEF TurnSearches, SearchesAt
<1> HIDE DEF events, D, s
<1>4. IsSequence(s) /\ Len(s) = Len(events)
  <2>1. s = [n \in 1..Len(events) |-> s[n]] /\ Len(events) \in Nat
    BY <1>2, <1>3
  <2> QED
    BY <2>1, FunctionIsSequence
<1>5. ASSUME NEW i \in D
      PROVE  Earlier(D, i) + 1 \in 1..Len(s) /\ s[Earlier(D, i) + 1] = SearchOf(log[i])
  BY <1>2, <1>3, <1>4 DEF SearchOf
<1> QED
  BY <1>1, <1>2, <1>4, <1>5 DEF D, s

LEMMA TurnSearchesSame ==
    ASSUME NEW log, NEW longer, Grown(log, longer), NEW t,
           SearchesAt(longer, t) = SearchesAt(log, t)
    PROVE  TurnSearches(longer, t) = TurnSearches(log, t)
<1> DEFINE D == SearchesAt(log, t)
<1>1. IsFiniteSet(D) /\ D \subseteq Nat /\ D \subseteq 1..Len(log)
  <2>1. IsFiniteSet(D) /\ D \subseteq 1..Len(log)
    BY TurnSearchesFacts DEF Grown
  <2> QED
    BY <2>1
<1>2. \A i \in D : longer[i] = log[i]
  BY <1>1 DEF Grown
<1>3. AtPositions(longer, D) = AtPositions(log, D)
  BY <1>1, <1>2, SameRowsAt
<1> QED
  BY <1>3 DEF TurnSearches, SearchesAt

LEMMA TurnSearchesNext ==
    ASSUME NEW log, NEW longer, Grown(log, longer), NEW t, NEW m \in 1..Len(longer),
           m > Len(log), SearchesAt(longer, t) = SearchesAt(log, t) \cup {m}
    PROVE  TurnSearches(longer, t) = Append(TurnSearches(log, t), SearchOf(longer[m]))
<1> DEFINE D == SearchesAt(log, t)
           E == SearchesAt(longer, t)
           s == TurnSearches(log, t)
           w == TurnSearches(longer, t)
           u == Append(s, SearchOf(longer[m]))
<1>0. IsLog(log) /\ IsLog(longer) /\ Len(log) \in Nat
  BY DEF Grown, IsLog
<1>1. /\ IsFiniteSet(D) /\ D \subseteq 1..Len(log) /\ Cardinality(D) \in Nat
      /\ IsSequence(s) /\ Len(s) = Cardinality(D)
      /\ \A i \in D : /\ Earlier(D, i) + 1 \in 1..Len(s)
                      /\ s[Earlier(D, i) + 1] = SearchOf(log[i])
  BY <1>0, TurnSearchesFacts
<1>2. /\ IsSequence(w) /\ Len(w) = Cardinality(E)
      /\ \A i \in E : w[Earlier(E, i) + 1] = SearchOf(longer[i])
      /\ \A n \in 1..Len(w) : \E i \in E : n = Earlier(E, i) + 1
  BY <1>0, TurnSearchesFacts
<1>3. D \subseteq Nat /\ m \in Nat /\ \A i \in D : i < m
  BY <1>0, <1>1
<1>5. \A i \in D : longer[i] = log[i]
  BY <1>1 DEF Grown
<1>9. E = D \cup {m}
  OBVIOUS
<1> HIDE DEF D, E, s, w
<1>4. /\ Cardinality(E) = Cardinality(D) + 1 /\ E = D \cup {m}
      /\ \A i \in D : Earlier(E, i) = Earlier(D, i)
      /\ Earlier(E, m) = Cardinality(D)
  <2>1. /\ Cardinality(D \cup {m}) = Cardinality(D) + 1
        /\ \A i \in D : Earlier(D \cup {m}, i) = Earlier(D, i)
        /\ Earlier(D \cup {m}, m) = Cardinality(D)
    BY <1>1, <1>3, OneMoreAfter
  <2> QED
    BY <1>9, <2>1
<1>6. /\ IsSequence(u) /\ Len(u) = Len(s) + 1 /\ u[Len(s) + 1] = SearchOf(longer[m])
      /\ \A n \in 1..Len(s) : u[n] = s[n]
  <2>1. LET more == s \o <<SearchOf(longer[m])>>
        IN /\ Grown(s, more) /\ IsSequence(more) /\ Len(more) = Len(s) + 1
           /\ more[Len(s) + 1] = SearchOf(longer[m]) /\ Append(s, SearchOf(longer[m])) = more
    BY <1>1, GrowsOne
  <2> QED
    BY <2>1 DEF Grown
<1> HIDE DEF u
<1>7. ASSUME NEW n \in 1..Len(w) PROVE w[n] = u[n]
  <2>1. PICK i \in E : n = Earlier(E, i) + 1
    BY <1>2
  <2>2. CASE i = m
    BY <1>1, <1>2, <1>4, <1>6, <2>1, <2>2
  <2>3. CASE i \in D
    <3>1. n = Earlier(D, i) + 1 /\ n \in 1..Len(s)
      BY <1>1, <1>4, <2>1, <2>3
    <3>2. w[n] = SearchOf(log[i]) /\ s[n] = SearchOf(log[i])
      BY <1>1, <1>2, <1>5, <2>1, <2>3, <3>1
    <3> QED
      BY <1>6, <3>1, <3>2
  <2> QED
    BY <1>4, <2>1, <2>2, <2>3
<1>8. w = u
  BY <1>1, <1>2, <1>4, <1>6, <1>7, SameSequence
<1> QED
  BY <1>8 DEF w, u, s

-------------------------------------------------------------------------------
(* What is settled of a turn *)

(* Events that belong to the selection of their turn. *)
Settling(event) ==
    \/ event.kind \in {"candidate_set_filtered", "candidate_selected", "diagnosis_routed"}
    \/ /\ event.kind = "candidate_evaluated"
       /\ event.purpose = "search" \/ (event.purpose = "attribution" /\ ProfileEach)

LEMMA AtTurnApart ==
    ASSUME NEW log, NEW longer, Grown(log, longer), NEW kind, NEW t,
           \A i \in 1..Len(longer) :
              i > Len(log) /\ longer[i].kind = kind => longer[i].turn # t
    PROVE  AtTurn(longer, kind, t) = AtTurn(log, kind, t)
<1>1. ASSUME NEW i \in AtTurn(longer, kind, t) PROVE i \in AtTurn(log, kind, t)
  <2>1. i \in 1..Len(longer) /\ longer[i].kind = kind /\ longer[i].turn = t
    BY DEF AtTurn, At, Grown, IsLog
  <2>2. i <= Len(log)
    BY <2>1 DEF Grown, IsLog
  <2> QED
    BY <2>2, AtTurnMore
<1>2. \A i \in AtTurn(log, kind, t) : i \in AtTurn(longer, kind, t)
  BY AtTurnMore
<1> QED
  BY <1>1, <1>2

LEMMA TheSame ==
    ASSUME NEW log, NEW longer, Grown(log, longer), NEW D, D # {}, D \subseteq 1..Len(log)
    PROVE  The(longer, D) = The(log, D) /\ \E i \in D : The(log, D) = log[i]
<1>1. (CHOOSE i \in D : TRUE) \in D
  OBVIOUS
<1> QED
  BY <1>1 DEF The, Grown

LEMMA AtTurnInLog ==
    ASSUME NEW log, IsLog(log), NEW kind, NEW t
    PROVE  AtTurn(log, kind, t) \subseteq 1..Len(log)
BY DEF AtTurn, At, IsLog

LEMMA SettledKept ==
    ASSUME NEW log, NEW longer, Grown(log, longer), NEW t, NEW seen,
           AtTurn(log, "candidate_set_filtered", t) # {},
           AtTurn(log, "candidate_selected", t) # {},
           \A i \in 1..Len(longer) :
              i > Len(log) /\ Settling(longer[i]) => longer[i].turn # t,
           Settled(log, t, seen)
    PROVE  Settled(longer, t, seen)
<1>0. IsLog(log) /\ IsLog(longer)
  BY DEF Grown
<1>1. \A kind \in {"candidate_set_filtered", "candidate_selected", "diagnosis_routed"} :
         AtTurn(longer, kind, t) = AtTurn(log, kind, t)
  <2> SUFFICES ASSUME NEW kind \in {"candidate_set_filtered", "candidate_selected",
                                    "diagnosis_routed"}
               PROVE  AtTurn(longer, kind, t) = AtTurn(log, kind, t)
    OBVIOUS
  <2>1. \A i \in 1..Len(longer) : i > Len(log) /\ longer[i].kind = kind => longer[i].turn # t
    BY DEF Settling
  <2> QED
    BY <2>1, AtTurnApart
<1>2. ASSUME NEW i \in AtTurn(longer, "candidate_evaluated", t),
             longer[i].purpose = "search" \/ (longer[i].purpose = "attribution" /\ ProfileEach)
      PROVE  i \in AtTurn(log, "candidate_evaluated", t) /\ longer[i] = log[i]
  <2>1. /\ i \in 1..Len(longer) /\ longer[i].turn = t
        /\ longer[i].kind = "candidate_evaluated"
    BY <1>0 DEF AtTurn, At, IsLog
  <2>2. Settling(longer[i])
    BY <1>2, <2>1 DEF Settling
  <2>3. i <= Len(log)
    BY <2>1, <2>2 DEF Grown, IsLog
  <2> QED
    BY <2>3, AtTurnMore
<1>3. \A i \in AtTurn(log, "candidate_evaluated", t) :
         i \in AtTurn(longer, "candidate_evaluated", t) /\ longer[i] = log[i]
  BY AtTurnMore
<1>4. SearchesAt(longer, t) = SearchesAt(log, t)
  BY <1>2, <1>3 DEF SearchesAt
<1>5. ProfileEach => AttributionsAt(longer, t) = AttributionsAt(log, t)
  BY <1>2, <1>3 DEF AttributionsAt
<1>6. Selection(longer, t) = Selection(log, t) /\ Rows(longer, t) = Rows(log, t)
  <2>1. /\ AtTurn(log, "candidate_selected", t) \subseteq 1..Len(log)
        /\ AtTurn(log, "candidate_set_filtered", t) \subseteq 1..Len(log)
    BY <1>0, AtTurnInLog
  <2>2. /\ The(longer, AtTurn(log, "candidate_selected", t))
             = The(log, AtTurn(log, "candidate_selected", t))
        /\ The(longer, AtTurn(log, "candidate_set_filtered", t))
             = The(log, AtTurn(log, "candidate_set_filtered", t))
    BY <2>1, TheSame
  <2> QED
    BY <1>1, <2>2 DEF Selection, Rows
<1>7. TurnSearches(longer, t) = TurnSearches(log, t)
  BY <1>4, TurnSearchesSame
<1>8. Chosen(longer, t)
  <2>1. Chosen(log, t)
    BY DEF Settled
  <2> QED
    BY <2>1, <1>6, <1>7 DEF Chosen
<1>9. Observed(longer, t, seen)
  <2>1. Observed(log, t, seen)
    BY DEF Settled
  <2>2. \A i \in SearchesAt(log, t) : longer[i] = log[i]
    BY <1>3 DEF SearchesAt
  <2> QED
    BY <2>1, <2>2, <1>4, <1>6 DEF Observed
<1>10. Diagnosed(longer, t)
  <2> DEFINE observed == AtTurn(log, "diagnosis_routed", t)
             collapsed == Collapsed(Rows(log, t))
  <2>1. IF collapsed = {} THEN observed = {}
        ELSE \E i \in DOMAIN log : observed = {i} /\ log[i].collapsed = collapsed
    BY DEF Settled, Diagnosed
  <2>2. AtTurn(longer, "diagnosis_routed", t) = observed
    BY <1>1
  <2>3. \A i \in DOMAIN log : i \in DOMAIN longer /\ longer[i] = log[i]
    BY DEF Grown, IsLog
  <2>4. IF collapsed = {} THEN observed = {}
        ELSE \E i \in DOMAIN longer : observed = {i} /\ longer[i].collapsed = collapsed
    BY <2>1, <2>3
  <2> HIDE DEF observed
  <2> QED
    BY <2>2, <2>4, <1>6 DEF Diagnosed
<1>11. Profiles(longer, t)
  <2>1. Profiles(log, t)
    BY DEF Settled
  <2>2. \A i \in AttributionsAt(log, t) : longer[i] = log[i]
    BY <1>3 DEF AttributionsAt
  <2> QED
    BY <2>1, <2>2, <1>5, <1>7 DEF Profiles
<1> QED
  BY <1>8, <1>9, <1>10, <1>11 DEF Settled

LEMMA DoneKept ==
    ASSUME NEW log, NEW longer, Grown(log, longer), NEW rows, Len(rows) \in Nat,
           Counted(log, Len(rows)), Done(log, rows),
           \A i \in 1..Len(longer) :
              i > Len(log) /\ Settling(longer[i]) => longer[i].turn \notin 1..Len(rows)
    PROVE  Done(longer, rows)
<1> SUFFICES ASSUME NEW t \in 1..Len(rows) PROVE Settled(longer, t, rows[t])
  BY DEF Done
<1>1. /\ AtTurn(log, "candidate_set_filtered", t) # {}
      /\ AtTurn(log, "candidate_selected", t) # {}
  BY DEF Counted, Numbered
<1>2. \A i \in 1..Len(longer) : i > Len(log) /\ Settling(longer[i]) => longer[i].turn # t
  OBVIOUS
<1>3. Settled(log, t, rows[t])
  BY DEF Done
<1> QED
  BY <1>1, <1>2, <1>3, SettledKept

(* One more turn done. *)
LEMMA DoneNext ==
    ASSUME NEW log, NEW rows, IsSequence(rows), NEW seen, Done(log, rows),
           Settled(log, Len(rows) + 1, seen)
    PROVE  Done(log, Append(rows, seen))
<1> DEFINE more == Append(rows, seen)
<1>1. /\ Len(rows) \in Nat /\ Len(more) = Len(rows) + 1
      /\ \A t \in 1..Len(rows) : more[t] = rows[t]
      /\ more[Len(rows) + 1] = seen
  BY GrowsOne, SequenceFacts DEF Grown
<1> HIDE DEF more
<1>2. ASSUME NEW t \in 1..Len(more) PROVE Settled(log, t, more[t])
  <2>1. CASE t = Len(rows) + 1
    BY <1>1, <2>1
  <2>2. CASE t # Len(rows) + 1
    <3>1. t \in 1..Len(rows)
      BY <1>1, <2>2
    <3> QED
      BY <1>1, <3>1 DEF Done
  <2> QED
    BY <2>1, <2>2
<1> QED
  BY <1>2 DEF Done, more

-------------------------------------------------------------------------------
(* What growth leaves of all that the ledger says *)

Marks == {"provider_turn_completed", "author_actions_resolved",
          "candidate_set_filtered", "candidate_selected"}
Permissions == {"compilation_started", "compilation_completed", "compilation_refused"}

LEMMA OrderedLater ==
    ASSUME NEW log, NEW now \in Nat, NEW later \in Nat, now <= later, Ordered(log, now)
    PROVE  Ordered(log, later)
<1>1. ASSUME NEW i \in 1..Len(log), TurnBearing(log[i])
      PROVE  log[i].turn \in Nat /\ log[i].turn <= later
  BY <1>1 DEF Ordered
<1> QED
  BY <1>1 DEF Ordered

LEMMA DatedLater ==
    ASSUME NEW log, NEW clock \in Nat, NEW later \in Nat, clock <= later, Dated(log, clock)
    PROVE  Dated(log, later)
<1>1. ASSUME NEW i \in 1..Len(log), Clocked(log[i])
      PROVE  ClockOf(log[i]) \in Nat /\ ClockOf(log[i]) <= later
  BY <1>1 DEF Dated
<1> QED
  BY <1>1 DEF Dated

LEMMA LoggedLater ==
    ASSUME NEW log, NEW now \in Nat, NEW clock \in Nat, NEW rows, NEW spent, NEW permits,
           NEW used, NEW owed, NEW later \in Nat, now <= later, NEW tick \in Nat, clock <= tick,
           Logged(log, now, clock, rows, spent, permits, used, owed)
    PROVE  Logged(log, later, tick, rows, spent, permits, used, owed)
<1>1. Ordered(log, later)
  BY OrderedLater DEF Logged
<1>2. Dated(log, tick)
  BY DatedLater DEF Logged
<1> QED
  BY <1>1, <1>2 DEF Logged

(* What a growth by some kinds of event leaves as it was. *)
LEMMA LoggedKept ==
    ASSUME NEW log, NEW longer, NEW kinds, Adds(log, longer, kinds),
           NEW now \in Nat, NEW clock, NEW rows, NEW spent, NEW permits, NEW used, NEW owed,
           Len(rows) \in Nat, Logged(log, now, clock, rows, spent, permits, used, owed)
    PROVE  /\ kinds \subseteq OpenKinds => Formed(longer)
           /\ (\A i \in 1..Len(longer) :
                  i > Len(log) /\ TurnBearing(longer[i]) => longer[i].turn = now)
              => Ordered(longer, now)
           /\ kinds \cap Marks = {} => Counted(longer, Len(rows))
           /\ "provider_turn_completed" \notin kinds => Paid(longer, rows, spent)
           /\ kinds \cap {"author_actions_resolved", "candidate_set_filtered",
                          "candidate_rejected", "launchable_candidate_sealed",
                          "candidate_selected"} = {} => Preceded(longer)
           /\ kinds \cap (Permissions \cup {"candidate_set_filtered",
                                            "author_actions_resolved"}) = {}
              => Permits(longer, permits)
           /\ kinds \cap EvaluationKinds = {} /\ owed # "answer" => Chained(longer, FALSE)
           /\ "evaluation_attempt_started" \notin kinds => Tallied(longer, used)
           /\ kinds \cap {"candidate_set_filtered", "candidate_rejected",
                          "author_actions_resolved"} = {} => Sifted(longer)
           /\ "launchable_candidate_sealed" \notin kinds /\ owed # "start"
              => Sealed(longer, FALSE)
           /\ "diagnosis_routed" \notin kinds
              => Routed(longer, IF owed = "selection" THEN Len(rows) + 1 ELSE Len(rows))
           /\ (\A i \in 1..Len(longer) : i > Len(log) /\ Settling(longer[i])
                  => longer[i].turn \notin 1..Len(rows))
              => Done(longer, rows)
<1>0. Grown(log, longer)
  BY DEF Adds
<1>1. ASSUME kinds \subseteq OpenKinds PROVE Formed(longer)
  <2>1. kinds \in SUBSET OpenKinds /\ Formed(log)
    BY <1>1 DEF Logged
  <2> QED
    BY <2>1, FormedGrows
<1>2. ASSUME \A i \in 1..Len(longer) :
                  i > Len(log) /\ TurnBearing(longer[i]) => longer[i].turn = now
      PROVE  Ordered(longer, now)
  <2>1. Ordered(log, now) /\ now <= now
    BY DEF Logged
  <2> QED
    BY <1>0, <1>2, <2>1, OrderedGrows
<1>3. ASSUME kinds \cap Marks = {} PROVE Counted(longer, Len(rows))
  <2> SUFFICES ASSUME NEW kind \in Marks PROVE Numbered(longer, kind, Len(rows))
    BY DEF Counted, Marks
  <2>1. kind \notin kinds
    BY <1>3
  <2>2. Numbered(log, kind, Len(rows))
    BY DEF Logged, Counted, Marks
  <2> QED
    BY <2>1, <2>2, NumberedKept
<1>4. ASSUME "provider_turn_completed" \notin kinds PROVE Paid(longer, rows, spent)
  BY <1>4, PaidKept DEF Logged
<1>5. ASSUME kinds \cap {"author_actions_resolved", "candidate_set_filtered",
                          "candidate_rejected", "launchable_candidate_sealed",
                          "candidate_selected"} = {}
      PROVE  Preceded(longer)
  <2>1. ASSUME NEW i \in 1..Len(longer), i > Len(log)
        PROVE  longer[i].kind \notin {"author_actions_resolved", "candidate_set_filtered",
                          "candidate_rejected", "launchable_candidate_sealed",
                          "candidate_selected"}
    BY <1>5, <2>1 DEF Adds
  <2>2. Preceded(log)
    BY DEF Logged
  <2> QED
    BY <1>0, <2>1, <2>2, PrecededGrows
<1>6. ASSUME kinds \cap (Permissions \cup {"candidate_set_filtered",
                                           "author_actions_resolved"}) = {}
      PROVE  Permits(longer, permits)
  <2>1. kinds \cap {"compilation_started", "compilation_completed", "compilation_refused",
                       "author_actions_resolved", "candidate_set_filtered"} = {}
    BY <1>6 DEF Permissions
  <2> QED
    BY <2>1, PermitsStand DEF Logged
<1>7. ASSUME kinds \cap EvaluationKinds = {}, owed # "answer" PROVE Chained(longer, FALSE)
  <2>1. Chained(log, FALSE)
    BY <1>7 DEF Logged
  <2> QED
    BY <1>7, <2>1, ChainedKept
<1>8. ASSUME "evaluation_attempt_started" \notin kinds PROVE Tallied(longer, used)
  BY <1>8, TalliedKept DEF Logged
<1>9. ASSUME kinds \cap {"candidate_set_filtered", "candidate_rejected",
                          "author_actions_resolved"} = {}
      PROVE  Sifted(longer)
  <2>1. kinds \cap {"candidate_set_filtered", "candidate_rejected"} = {}
    BY <1>9
  <2>2. \A i \in At(log, "candidate_set_filtered") :
              AtTurn(longer, "author_actions_resolved", log[i].turn)
                 = AtTurn(log, "author_actions_resolved", log[i].turn)
    <3>1. "author_actions_resolved" \notin kinds
      BY <1>9
    <3> QED
      BY <3>1, AtTurnSame
  <2> QED
    BY <2>1, <2>2, SiftedKept DEF Logged
<1>10. ASSUME "launchable_candidate_sealed" \notin kinds, owed # "start"
       PROVE  Sealed(longer, FALSE)
  <2>1. Sealed(log, FALSE)
    BY <1>10 DEF Logged
  <2> QED
    BY <1>10, <2>1, SealedKept
<1>11. ASSUME "diagnosis_routed" \notin kinds
       PROVE  Routed(longer, IF owed = "selection" THEN Len(rows) + 1 ELSE Len(rows))
  <2>1. /\ At(longer, "diagnosis_routed") = At(log, "diagnosis_routed")
        /\ \A i \in At(log, "diagnosis_routed") : longer[i] = log[i]
    BY <1>11, AtSame
  <2> QED
    BY <2>1 DEF Logged, Routed
<1>12. ASSUME \A i \in 1..Len(longer) : i > Len(log) /\ Settling(longer[i])
                  => longer[i].turn \notin 1..Len(rows)
       PROVE  Done(longer, rows)
  BY <1>0, <1>12, DoneKept DEF Logged
<1> QED
  BY <1>1, <1>2, <1>3, <1>4, <1>5, <1>6, <1>7, <1>8, <1>9, <1>10, <1>11, <1>12

LEMMA DatedNext ==
    ASSUME NEW log, NEW longer, Grown(log, longer), Len(longer) = Len(log) + 1,
           NEW clock \in Nat, NEW tick \in Nat, clock <= tick, Dated(log, clock),
           Clocked(longer[Len(longer)]) => ClockOf(longer[Len(longer)]) = tick
    PROVE  Dated(longer, tick)
<1>1. ASSUME NEW i \in 1..Len(longer), i > Len(log) PROVE i = Len(longer)
  BY <1>1 DEF Grown, IsLog
<1>2. \A i \in 1..Len(longer) : i > Len(log) /\ Clocked(longer[i])
         => /\ ClockOf(longer[i]) \in Nat
            /\ clock <= ClockOf(longer[i]) /\ ClockOf(longer[i]) <= tick
  BY <1>1
<1>3. \A i, j \in 1..Len(longer) :
         i > Len(log) /\ i < j /\ Clocked(longer[i]) /\ Clocked(longer[j])
         => ClockOf(longer[i]) <= ClockOf(longer[j])
  <2> SUFFICES ASSUME NEW i \in 1..Len(longer), NEW j \in 1..Len(longer), i > Len(log), i < j
               PROVE  FALSE
    OBVIOUS
  <2>1. i = Len(longer) /\ j <= Len(longer)
    BY <1>1
  <2> QED
    BY <2>1
<1> QED
  BY <1>2, <1>3, DatedGrows

(* What one more event leaves as it was. *)
Stays(longer, event, now, tick, rows, spent, permits, used, owed) ==
    /\ event.kind \in OpenKinds => Formed(longer)
    /\ (TurnBearing(event) => event.turn = now) => Ordered(longer, now)
    /\ (Clocked(event) => ClockOf(event) = tick) => Dated(longer, tick)
    /\ event.kind \notin Marks => Counted(longer, Len(rows))
    /\ event.kind # "provider_turn_completed" => Paid(longer, rows, spent)
    /\ event.kind \notin {"author_actions_resolved", "candidate_set_filtered",
                "candidate_rejected", "launchable_candidate_sealed",
                "candidate_selected"} => Preceded(longer)
    /\ event.kind \notin Permissions \cup {"candidate_set_filtered",
                                           "author_actions_resolved"}
       => Permits(longer, permits)
    /\ event.kind \notin EvaluationKinds /\ owed # "answer" => Chained(longer, FALSE)
    /\ event.kind # "evaluation_attempt_started" => Tallied(longer, used)
    /\ event.kind \notin {"candidate_set_filtered", "candidate_rejected",
                          "author_actions_resolved"} => Sifted(longer)
    /\ event.kind # "launchable_candidate_sealed" /\ owed # "start"
       => Sealed(longer, FALSE)
    /\ event.kind # "diagnosis_routed"
       => Routed(longer, IF owed = "selection" THEN Len(rows) + 1 ELSE Len(rows))
    /\ (Settling(event) => event.turn \notin 1..Len(rows)) => Done(longer, rows)

LEMMA LoggedOne ==
    ASSUME NEW log, NEW event,
           NEW now \in Nat, NEW clock \in Nat, NEW rows, NEW spent, NEW permits, NEW used,
           NEW owed, NEW tick \in Nat, clock <= tick,
           Len(rows) \in Nat, Logged(log, now, clock, rows, spent, permits, used, owed)
    PROVE  LET longer == log \o <<event>>
           IN /\ Grown(log, longer) /\ IsSequence(longer)
              /\ Len(log) \in Nat /\ Len(longer) = Len(log) + 1 /\ longer[Len(longer)] = event
              /\ Adds(log, longer, {event.kind})
              /\ Stays(longer, event, now, tick, rows, spent, permits, used, owed)
<1> DEFINE longer == log \o <<event>>
           K == {event.kind}
<1>1. /\ Grown(log, longer) /\ IsSequence(longer) /\ Len(longer) = Len(log) + 1
      /\ longer[Len(log) + 1] = event /\ Adds(log, longer, K)
  BY GrowsOne DEF Logged
<1>2. Len(log) \in Nat
  BY <1>1 DEF Grown, IsLog
<1> HIDE DEF longer
<1>3. \A i \in 1..Len(longer) : i > Len(log) => longer[i] = event
  BY <1>1, <1>2
<1>4. (Clocked(event) => ClockOf(event) = tick) => Dated(longer, tick)
  BY <1>1, DatedNext DEF Logged
<1> HIDE DEF K
<1>5. /\ K \subseteq OpenKinds => Formed(longer)
      /\ (\A i \in 1..Len(longer) :
             i > Len(log) /\ TurnBearing(longer[i]) => longer[i].turn = now)
         => Ordered(longer, now)
      /\ K \cap Marks = {} => Counted(longer, Len(rows))
      /\ "provider_turn_completed" \notin K => Paid(longer, rows, spent)
      /\ K \cap {"author_actions_resolved", "candidate_set_filtered",
                     "candidate_rejected", "launchable_candidate_sealed",
                     "candidate_selected"} = {} => Preceded(longer)
      /\ K \cap (Permissions \cup {"candidate_set_filtered",
                                       "author_actions_resolved"}) = {}
         => Permits(longer, permits)
      /\ K \cap EvaluationKinds = {} /\ owed # "answer" => Chained(longer, FALSE)
      /\ "evaluation_attempt_started" \notin K => Tallied(longer, used)
      /\ K \cap {"candidate_set_filtered", "candidate_rejected",
                     "author_actions_resolved"} = {} => Sifted(longer)
      /\ "launchable_candidate_sealed" \notin K /\ owed # "start"
         => Sealed(longer, FALSE)
      /\ "diagnosis_routed" \notin K
         => Routed(longer, IF owed = "selection" THEN Len(rows) + 1 ELSE Len(rows))
      /\ (\A i \in 1..Len(longer) : i > Len(log) /\ Settling(longer[i])
             => longer[i].turn \notin 1..Len(rows))
         => Done(longer, rows)
  BY <1>1, LoggedKept
<1>6. /\ \A kind : kind \in K <=> kind = event.kind
      /\ \A S : K \cap S = {} <=> event.kind \notin S
      /\ \A S : K \subseteq S <=> event.kind \in S
  BY DEF K
<1>7. /\ event.kind \in OpenKinds => Formed(longer)
      /\ event.kind \notin Marks => Counted(longer, Len(rows))
      /\ event.kind # "provider_turn_completed" => Paid(longer, rows, spent)
      /\ event.kind \notin {"author_actions_resolved", "candidate_set_filtered",
                     "candidate_rejected", "launchable_candidate_sealed",
                     "candidate_selected"} => Preceded(longer)
      /\ event.kind \notin Permissions \cup {"candidate_set_filtered",
                                       "author_actions_resolved"}
         => Permits(longer, permits)
      /\ event.kind \notin EvaluationKinds /\ owed # "answer" => Chained(longer, FALSE)
  BY <1>5, <1>6
<1>8. /\ event.kind # "evaluation_attempt_started" => Tallied(longer, used)
      /\ event.kind \notin {"candidate_set_filtered", "candidate_rejected",
                     "author_actions_resolved"} => Sifted(longer)
      /\ event.kind # "launchable_candidate_sealed" /\ owed # "start" => Sealed(longer, FALSE)
      /\ event.kind # "diagnosis_routed"
         => Routed(longer, IF owed = "selection" THEN Len(rows) + 1 ELSE Len(rows))
  BY <1>5, <1>6
<1>9. (TurnBearing(event) => event.turn = now) => Ordered(longer, now)
  BY <1>3, <1>5
<1>10. (Settling(event) => event.turn \notin 1..Len(rows)) => Done(longer, rows)
  BY <1>3, <1>5
<1> QED
  BY <1>1, <1>2, <1>4, <1>7, <1>8, <1>9, <1>10 DEF longer, K, Stays

-------------------------------------------------------------------------------
(* Each event of a turn *)

LEMMA OpenAre ==
    SearchKinds \cup EvaluationKinds \cup {"search_completed", "candidate_nominated", "run_fault"}
       \subseteq OpenKinds
BY DEF OpenKinds, Kinds, SearchKinds, EvaluationKinds

(* One more mark of the turn in progress. *)
LEMMA CountedNext ==
    ASSUME NEW log, NEW longer, Grown(log, longer), Len(longer) = Len(log) + 1,
           Adds(log, longer, {longer[Len(longer)].kind}),
           NEW settled \in Nat, longer[Len(longer)].turn = settled + 1,
           Counted(log, settled), AtTurn(log, longer[Len(longer)].kind, settled + 1) = {}
    PROVE  Counted(longer, settled)
<1> DEFINE kind == longer[Len(longer)].kind
<1> SUFFICES ASSUME NEW mark \in Marks PROVE Numbered(longer, mark, settled)
  BY DEF Counted, Marks
<1>1. Numbered(log, mark, settled)
  BY DEF Counted, Marks
<1>2. CASE mark = kind
  BY <1>1, <1>2, NumberedNext
<1>3. CASE mark # kind
  <2>1. mark \notin {kind}
    BY <1>3
  <2> QED
    BY <1>1, <2>1, NumberedKept
<1> QED
  BY <1>2, <1>3

LEMMA AuthorLogged ==
    ASSUME NEW log, NEW event,
           NEW now \in Nat, NEW clock \in Nat, NEW rows, NEW spent, NEW permits, NEW used,
           NEW tick \in Nat, clock <= tick,
           Len(rows) \in Nat, Logged(log, now, clock, rows, spent, permits, used, "nothing"),
           now = Len(rows) + 1, event.kind = "provider_turn_completed", event.turn = now,
           AtTurn(log, "provider_turn_completed", now) = {}
    PROVE  Logged(log \o <<event>>, now, tick, rows, event.tokens, permits, used, "nothing")
<1> DEFINE longer == log \o <<event>>
<1>1. /\ Grown(log, longer) /\ IsSequence(longer)
      /\ Len(log) \in Nat /\ Len(longer) = Len(log) + 1 /\ longer[Len(longer)] = event
      /\ Adds(log, longer, {event.kind})
  BY LoggedOne
<1>2. /\ Formed(longer) /\ Ordered(longer, now) /\ Dated(longer, tick)
      /\ Preceded(longer) /\ Permits(longer, permits)
      /\ Chained(longer, FALSE) /\ Tallied(longer, used)
      /\ Sifted(longer) /\ Sealed(longer, FALSE)
      /\ Routed(longer, Len(rows)) /\ Done(longer, rows)
  <2>1. /\ event.kind \in OpenKinds
        /\ ~Clocked(event) /\ ~Settling(event)
    BY OpenAre DEF Clocked, Settling, SearchKinds
  <2>2. Stays(longer, event, now, tick, rows, spent, permits, used, "nothing")
    BY LoggedOne
  <2> HIDE DEF longer
  <2> QED
    BY <2>1, <2>2 DEF Stays, Permissions, EvaluationKinds
<1> HIDE DEF longer
<1>3. Counted(longer, Len(rows))
  BY <1>1, CountedNext DEF Logged
<1>4. Paid(longer, rows, event.tokens)
  <2>1. Numbered(log, "provider_turn_completed", Len(rows)) /\ Paid(log, rows, spent)
    BY DEF Logged, Counted
  <2> QED
    BY <1>1, <2>1, PaidNext
<1> QED
  BY <1>1, <1>2, <1>3, <1>4 DEF Logged, longer

LEMMA ResolveLogged ==
    ASSUME NEW log, NEW event,
           NEW now \in Nat, NEW clock \in Nat, NEW rows, NEW spent, NEW permits, NEW used,
           Len(rows) \in Nat, Logged(log, now, clock, rows, spent, permits, used, "nothing"),
           now = Len(rows) + 1, event.kind = "author_actions_resolved", event.turn = now,
           AtTurn(log, "author_actions_resolved", now) = {},
           AtTurn(log, "provider_turn_completed", now) # {}
    PROVE  Logged(log \o <<event>>, now, clock, rows, spent, permits, used, "nothing")
<1> DEFINE longer == log \o <<event>>
<1>0. clock <= clock
  OBVIOUS
<1>1. /\ Grown(log, longer) /\ IsSequence(longer)
      /\ Len(log) \in Nat /\ Len(longer) = Len(log) + 1 /\ longer[Len(longer)] = event
      /\ Adds(log, longer, {event.kind})
  BY <1>0, LoggedOne
<1>2. /\ Formed(longer) /\ Ordered(longer, now) /\ Dated(longer, clock)
      /\ Paid(longer, rows, spent)
      /\ Chained(longer, FALSE) /\ Tallied(longer, used)
      /\ Sealed(longer, FALSE)
      /\ Routed(longer, Len(rows)) /\ Done(longer, rows)
  <2>1. /\ event.kind \in OpenKinds
        /\ ~Clocked(event) /\ ~Settling(event)
    BY OpenAre DEF Clocked, Settling, SearchKinds
  <2>2. Stays(longer, event, now, clock, rows, spent, permits, used, "nothing")
    BY <1>0, LoggedOne
  <2> HIDE DEF longer
  <2> QED
    BY <2>1, <2>2 DEF Stays, Permissions, EvaluationKinds
<1> HIDE DEF longer
<1>3. Counted(longer, Len(rows))
  BY <1>1, CountedNext DEF Logged
<1>4. Preceded(longer)
  <2>1. PICK j \in AtTurn(log, "provider_turn_completed", now) : TRUE
    OBVIOUS
  <2>2. j \in AtTurn(longer, "provider_turn_completed", now) /\ j \in 1..Len(log)
    BY <1>1, AtTurnMore
  <2>3. \A i \in 1..Len(longer) : i > Len(log) => i = Len(longer) /\ j < i
    BY <1>1, <2>2
  <2>4. Preceded(log)
    BY DEF Logged
  <2> QED
    BY <1>1, <2>2, <2>3, <2>4, PrecededGrows
<1>5. ASSUME NEW t, t # now
      PROVE  AtTurn(longer, "author_actions_resolved", t)
                = AtTurn(log, "author_actions_resolved", t)
  BY <1>1, <1>5, AtNext
<1>6. Permits(longer, permits)
  <2>1. \A i \in At(log, "compilation_started") \cup At(log, "compilation_refused") :
           log[i].turn # now
    BY DEF Logged, Permits, PermitPlaced
  <2>2. \A i \in At(log, "compilation_refused") : Unlaunched(longer, i)
    <3> SUFFICES ASSUME NEW i \in At(log, "compilation_refused") PROVE Unlaunched(longer, i)
      OBVIOUS
    <3>1. i \in 1..Len(log)
      BY <1>1, AtMore
    <3>2. Unlaunched(log, i)
      BY DEF Logged, Permits
    <3>3. "candidate_set_filtered" \notin {event.kind}
      OBVIOUS
    <3> QED
      BY <1>1, <3>1, <3>2, <3>3, UnlaunchedKept
  <2>3. {event.kind} \cap {"compilation_started", "compilation_completed",
                           "compilation_refused"} = {}
    OBVIOUS
  <2>4. Permits(log, permits)
    BY DEF Logged
  <2> QED
    BY <1>1, <1>5, <2>1, <2>2, <2>3, <2>4, PermitsKept
<1>7. Sifted(longer)
  <2>1. \A i \in At(log, "candidate_set_filtered") : log[i].turn # now
    <3> SUFFICES ASSUME NEW i \in At(log, "candidate_set_filtered") PROVE log[i].turn # now
      OBVIOUS
    <3>1. i \in 1..Len(log) /\ log[i].kind = "candidate_set_filtered"
      BY <1>1 DEF At, Grown, IsLog
    <3> QED
      BY <3>1 DEF Logged, Preceded
  <2>2. {event.kind} \cap {"candidate_set_filtered", "candidate_rejected"} = {}
    OBVIOUS
  <2>3. Sifted(log)
    BY DEF Logged
  <2> QED
    BY <1>1, <1>5, <2>1, <2>2, <2>3, SiftedKept
<1> QED
  BY <1>1, <1>2, <1>3, <1>4, <1>6, <1>7 DEF Logged, longer

LEMMA SealLogged ==
    ASSUME NEW log, NEW event,
           NEW now \in Nat, NEW clock \in Nat, NEW rows, NEW spent, NEW permits, NEW used,
           Len(rows) \in Nat, Logged(log, now, clock, rows, spent, permits, used, "nothing"),
           event.kind = "launchable_candidate_sealed", event.turn = now,
           AtTurn(log, "author_actions_resolved", now) # {},
           \E j \in AtTurn(log, "candidate_set_filtered", now) :
              \E n \in DOMAIN log[j].order : /\ log[j].order[n].candidate = event.candidate
                                             /\ log[j].order[n].launchable
    PROVE  Logged(log \o <<event>>, now, clock, rows, spent, permits, used, "start")
<1> DEFINE longer == log \o <<event>>
<1>0. clock <= clock
  OBVIOUS
<1>1. /\ Grown(log, longer) /\ IsSequence(longer)
      /\ Len(log) \in Nat /\ Len(longer) = Len(log) + 1 /\ longer[Len(longer)] = event
      /\ Adds(log, longer, {event.kind})
  BY <1>0, LoggedOne
<1>2. /\ Formed(longer) /\ Ordered(longer, now) /\ Dated(longer, clock)
      /\ Paid(longer, rows, spent) /\ Permits(longer, permits) /\ Counted(longer, Len(rows))
      /\ Chained(longer, FALSE) /\ Tallied(longer, used) /\ Sifted(longer)
      /\ Routed(longer, Len(rows)) /\ Done(longer, rows)
  <2>1. /\ event.kind \in OpenKinds
        /\ ~Clocked(event) /\ ~Settling(event)
    BY OpenAre DEF Clocked, Settling, SearchKinds
  <2>2. Stays(longer, event, now, clock, rows, spent, permits, used, "nothing")
    BY <1>0, LoggedOne
  <2> HIDE DEF longer
  <2> QED
    BY <2>1, <2>2 DEF Stays, Permissions, EvaluationKinds, Marks
<1> HIDE DEF longer
<1>3. Preceded(longer)
  <2>1. PICK j \in AtTurn(log, "author_actions_resolved", now) : TRUE
    OBVIOUS
  <2>2. j \in AtTurn(longer, "author_actions_resolved", now) /\ j \in 1..Len(log)
    BY <1>1, AtTurnMore
  <2>3. \A i \in 1..Len(longer) : i > Len(log) => i = Len(longer) /\ j < i
    BY <1>1, <2>2
  <2>4. Preceded(log)
    BY DEF Logged
  <2> QED
    BY <1>1, <2>2, <2>3, <2>4, PrecededGrows
<1>4. Sealed(longer, TRUE)
  <2>1. Sealed(log, FALSE)
    BY DEF Logged
  <2>2. Len(log) \notin At(log, "launchable_candidate_sealed")
    BY <2>1 DEF Sealed
  <2> QED
    BY <1>1, <2>1, <2>2, SealedNext
<1> QED
  BY <1>1, <1>2, <1>3, <1>4 DEF Logged, longer

(* An Evaluation begins, is answered or is cut short. *)
LEMMA StartLogged ==
    ASSUME NEW log, NEW event,
           NEW now \in Nat, NEW clock \in Nat, NEW rows, NEW spent, NEW permits,
           NEW used \in [Purposes -> Nat], NEW owed \in {"nothing", "start"},
           Len(rows) \in Nat, Logged(log, now, clock, rows, spent, permits, used, owed),
           event.kind = "evaluation_attempt_started", event.purpose \in Purposes,
           TurnBearing(event) => event.turn = now,
           Len(log) \in At(log, "launchable_candidate_sealed") =>
              EvaluationKey(event) = <<log[Len(log)].turn, "search", log[Len(log)].candidate>>,
           \A i \in At(log, "evaluation_attempt_started") :
              EvaluationKey(log[i]) # EvaluationKey(event),
           Placed(log \o <<event>>, Len(log) + 1)
    PROVE  Logged(log \o <<event>>, now, clock, rows, spent, permits,
                  [used EXCEPT ![event.purpose] = @ + 1], "answer")
<1> DEFINE longer == log \o <<event>>
<1>0. clock <= clock
  OBVIOUS
<1>1. /\ Grown(log, longer) /\ IsSequence(longer)
      /\ Len(log) \in Nat /\ Len(longer) = Len(log) + 1 /\ longer[Len(longer)] = event
      /\ Adds(log, longer, {event.kind})
      /\ Stays(longer, event, now, clock, rows, spent, permits, used, owed)
  BY <1>0, LoggedOne
<1>2. Placed(longer, Len(longer))
  BY <1>1
<1> HIDE DEF longer
<1>3. /\ Formed(longer) /\ Ordered(longer, now) /\ Dated(longer, clock)
      /\ Counted(longer, Len(rows)) /\ Paid(longer, rows, spent) /\ Preceded(longer)
      /\ Permits(longer, permits) /\ Sifted(longer)
      /\ Routed(longer, Len(rows)) /\ Done(longer, rows)
  <2>1. /\ event.kind \in OpenKinds
        /\ ~Clocked(event) /\ ~Settling(event)
    BY OpenAre DEF Clocked, Settling, EvaluationKinds
  <2> QED
    BY <1>1, <2>1 DEF Stays, Permissions, Marks
<1>4. Chained(longer, TRUE)
  <2>1. Chained(log, FALSE)
    BY DEF Logged
  <2>2. /\ Len(log) \notin At(log, "evaluation_attempt_started")
        /\ Len(log) \notin At(log, "evaluation_attempt_completed")
    BY <2>1 DEF Chained
  <2> QED
    BY <1>1, <1>2, <2>1, <2>2, ChainedNext
<1>5. Sealed(longer, FALSE)
  <2>1. Sealed(log, owed = "start") /\ (owed = "start") \in BOOLEAN
    BY DEF Logged
  <2> QED
    BY <1>1, <2>1, SealedNext
<1>6. Tallied(longer, [used EXCEPT ![event.purpose] = @ + 1])
  <2>1. Tallied(log, used)
    BY DEF Logged
  <2> QED
    BY <1>1, <2>1, TalliedNext
<1> QED
  BY <1>1, <1>3, <1>4, <1>5, <1>6 DEF Logged, longer

LEMMA CompletedLogged ==
    ASSUME NEW log, NEW event,
           NEW now \in Nat, NEW clock \in Nat, NEW rows, NEW spent, NEW permits, NEW used,
           Len(rows) \in Nat, Logged(log, now, clock, rows, spent, permits, used, "answer"),
           event.kind = "evaluation_attempt_completed",
           TurnBearing(event) => event.turn = now,
           Len(log) \in At(log, "evaluation_attempt_started"),
           EvaluationKey(log[Len(log)]) = EvaluationKey(event),
           log[Len(log)].origin = event.origin
    PROVE  /\ Logged(log \o <<event>>, now, clock, rows, spent, permits, used, "answer")
           /\ Len(log) + 1 \in At(log \o <<event>>, "evaluation_attempt_completed")
<1> DEFINE longer == log \o <<event>>
<1>0. clock <= clock
  OBVIOUS
<1>1. /\ Grown(log, longer) /\ IsSequence(longer)
      /\ Len(log) \in Nat /\ Len(longer) = Len(log) + 1 /\ longer[Len(longer)] = event
      /\ Adds(log, longer, {event.kind})
      /\ Stays(longer, event, now, clock, rows, spent, permits, used, "answer")
  BY <1>0, LoggedOne
<1> HIDE DEF longer
<1>3. /\ Formed(longer) /\ Ordered(longer, now) /\ Dated(longer, clock)
      /\ Counted(longer, Len(rows)) /\ Paid(longer, rows, spent) /\ Preceded(longer)
      /\ Permits(longer, permits) /\ Sifted(longer) /\ Tallied(longer, used)
      /\ Sealed(longer, FALSE) /\ Routed(longer, Len(rows)) /\ Done(longer, rows)
  <2>1. /\ event.kind \in OpenKinds
        /\ ~Clocked(event) /\ ~Settling(event)
    BY OpenAre DEF Clocked, Settling, EvaluationKinds
  <2> QED
    BY <1>1, <2>1 DEF Stays, Permissions, Marks
<1>4. log[Len(log)].kind = "evaluation_attempt_started" /\ Len(log) \in 1..Len(log)
      /\ longer[Len(log)] = log[Len(log)]
  BY <1>1 DEF At, Grown, IsLog
<1>5. Chained(longer, TRUE)
  <2>1. Chained(log, TRUE)
    BY DEF Logged
  <2>2. Len(log) \notin At(log, "evaluation_attempt_completed")
    BY <1>4 DEF At
  <2>3. SameInvocation(longer, Len(log), Len(longer))
    BY <1>1, <1>4 DEF SameInvocation
  <2>4. Follows(longer, Len(log), "evaluation_attempt_completed")
    BY <1>1, <2>3 DEF Follows
  <2> QED
    BY <1>1, <2>1, <2>2, <2>3, <2>4, ChainedNext
<1>6. Len(longer) \in At(longer, "evaluation_attempt_completed")
  BY <1>1 DEF At, Grown, IsLog
<1> QED
  BY <1>1, <1>3, <1>5, <1>6 DEF Logged, longer

LEMMA EvaluatedLogged ==
    ASSUME NEW log, NEW event,
           NEW now \in Nat, NEW clock \in Nat, NEW rows, NEW spent, NEW permits, NEW used,
           NEW tick \in Nat, clock <= tick,
           Len(rows) \in Nat, Logged(log, now, clock, rows, spent, permits, used, "answer"),
           event.kind = "candidate_evaluated", event.clock = tick,
           TurnBearing(event) => event.turn = now,
           Settling(event) => event.turn \notin 1..Len(rows),
           Len(log) \in At(log, "evaluation_attempt_completed"), log[Len(log)].answered,
           EvaluationKey(log[Len(log)]) = EvaluationKey(event),
           log[Len(log)].origin = event.origin
    PROVE  Logged(log \o <<event>>, now, tick, rows, spent, permits, used, "nothing")
<1> DEFINE longer == log \o <<event>>
<1>1. /\ Grown(log, longer) /\ IsSequence(longer)
      /\ Len(log) \in Nat /\ Len(longer) = Len(log) + 1 /\ longer[Len(longer)] = event
      /\ Adds(log, longer, {event.kind})
      /\ Stays(longer, event, now, tick, rows, spent, permits, used, "answer")
  BY LoggedOne
<1> HIDE DEF longer
<1>3. /\ Formed(longer) /\ Ordered(longer, now) /\ Dated(longer, tick)
      /\ Counted(longer, Len(rows)) /\ Paid(longer, rows, spent) /\ Preceded(longer)
      /\ Permits(longer, permits) /\ Sifted(longer) /\ Tallied(longer, used)
      /\ Sealed(longer, FALSE) /\ Routed(longer, Len(rows)) /\ Done(longer, rows)
  <2>1. event.kind \in OpenKinds /\ ClockOf(event) = tick
    BY OpenAre DEF ClockOf, EvaluationKinds
  <2> QED
    BY <1>1, <2>1 DEF Stays, Permissions, Marks
<1>4. log[Len(log)].kind = "evaluation_attempt_completed" /\ Len(log) \in 1..Len(log)
      /\ longer[Len(log)] = log[Len(log)]
  BY <1>1 DEF At, Grown, IsLog
<1>5. Chained(longer, FALSE)
  <2>1. Chained(log, TRUE)
    BY DEF Logged
  <2>2. Len(log) \notin At(log, "evaluation_attempt_started")
    BY <1>4 DEF At
  <2>3. SameInvocation(longer, Len(log), Len(longer))
    BY <1>1, <1>4 DEF SameInvocation
  <2>4. Follows(longer, Len(log), "candidate_evaluated")
    BY <1>1, <2>3 DEF Follows
  <2> QED
    BY <1>1, <2>1, <2>2, <2>3, <2>4, ChainedNext
<1> QED
  BY <1>1, <1>3, <1>5 DEF Logged, longer

LEMMA FaultLogged ==
    ASSUME NEW log, NEW event,
           NEW now \in Nat, NEW clock \in Nat, NEW rows, NEW spent, NEW permits, NEW used,
           NEW owed \in {"nothing", "answer"}, NEW later,
           Len(rows) \in Nat, Logged(log, now, clock, rows, spent, permits, used, owed),
           event.kind = "run_fault", TurnBearing(event) => event.turn = now,
           Len(log) \in At(log, "evaluation_attempt_started")
                        \cup At(log, "evaluation_attempt_completed") =>
              /\ event.stage = "evaluation" /\ event.origin = log[Len(log)].origin
              /\ event.turn = log[Len(log)].turn,
           later = spent \/ AtTurn(log, "provider_turn_completed", Len(rows) + 1) = {}
    PROVE  Logged(log \o <<event>>, now, clock, rows, later, permits, used, "nothing")
<1> DEFINE longer == log \o <<event>>
<1>0. clock <= clock
  OBVIOUS
<1>1. /\ Grown(log, longer) /\ IsSequence(longer)
      /\ Len(log) \in Nat /\ Len(longer) = Len(log) + 1 /\ longer[Len(longer)] = event
      /\ Adds(log, longer, {event.kind})
      /\ Stays(longer, event, now, clock, rows, spent, permits, used, owed)
  BY <1>0, LoggedOne
<1> HIDE DEF longer
<1>3. /\ Formed(longer) /\ Ordered(longer, now) /\ Dated(longer, clock)
      /\ Counted(longer, Len(rows)) /\ Paid(longer, rows, spent) /\ Preceded(longer)
      /\ Permits(longer, permits) /\ Sifted(longer) /\ Tallied(longer, used)
      /\ Sealed(longer, FALSE) /\ Routed(longer, Len(rows)) /\ Done(longer, rows)
  <2>1. /\ event.kind \in OpenKinds
        /\ ~Clocked(event) /\ ~Settling(event)
    BY OpenAre DEF Clocked, Settling
  <2> QED
    BY <1>1, <2>1 DEF Stays, Permissions, Marks
<1>4. Len(log) \in 1..Len(log) => longer[Len(log)] = log[Len(log)]
  BY <1>1 DEF Grown
<1>5. Chained(longer, FALSE)
  <2>1. Chained(log, owed = "answer") /\ (owed = "answer") \in BOOLEAN
    BY DEF Logged
  <2>2. ASSUME Len(log) \in At(log, "evaluation_attempt_started")
                            \cup At(log, "evaluation_attempt_completed")
        PROVE  Interrupted(longer, Len(log))
    <3>1. Len(log) \in 1..Len(log)
      BY <1>1, <2>2 DEF At, Grown, IsLog
    <3> QED
      BY <1>1, <1>4, <2>2, <3>1 DEF Interrupted
  <2> QED
    BY <1>1, <2>1, <2>2, ChainedNext
<1>6. Paid(longer, rows, later)
  <2>1. CASE later = spent
    BY <1>3, <2>1
  <2>2. CASE AtTurn(log, "provider_turn_completed", Len(rows) + 1) = {}
    <3>1. "provider_turn_completed" \notin {event.kind}
      OBVIOUS
    <3>2. AtTurn(longer, "provider_turn_completed", Len(rows) + 1) = {}
      BY <1>1, <2>2, <3>1, AtTurnSame
    <3>3. ASSUME NEW i \in At(longer, "provider_turn_completed")
          PROVE  longer[i].turn <= Len(rows)
      <4>1. longer[i].turn \in 1..(Len(rows) + 1)
        BY <1>3 DEF Counted, Numbered
      <4>2. longer[i].turn # Len(rows) + 1
        BY <3>2 DEF AtTurn
      <4> QED
        BY <4>1, <4>2
    <3> QED
      BY <1>3, <3>3 DEF Paid
  <2> QED
    BY <2>1, <2>2
<1> QED
  BY <1>1, <1>3, <1>5, <1>6 DEF Logged, longer

-------------------------------------------------------------------------------
(* A turn is settled, and search closes *)

LEMMA DiagnosisLogged ==
    ASSUME NEW log, NEW event,
           NEW now \in Nat, NEW clock \in Nat, NEW rows, NEW spent, NEW permits, NEW used,
           Len(rows) \in Nat, Logged(log, now, clock, rows, spent, permits, used, "nothing"),
           event.kind = "diagnosis_routed", now = Len(rows) + 1, event.turn = now
    PROVE  Logged(log \o <<event>>, now, clock, rows, spent, permits, used, "selection")
<1> DEFINE longer == log \o <<event>>
<1>0. clock <= clock
  OBVIOUS
<1>1. /\ Grown(log, longer) /\ IsSequence(longer)
      /\ Len(log) \in Nat /\ Len(longer) = Len(log) + 1 /\ longer[Len(longer)] = event
      /\ Adds(log, longer, {event.kind})
      /\ Stays(longer, event, now, clock, rows, spent, permits, used, "nothing")
  BY <1>0, LoggedOne
<1> HIDE DEF longer
<1>2. event.kind \in OpenKinds /\ ~Clocked(event) /\ event.turn \notin 1..Len(rows)
  BY OpenAre DEF Clocked, SearchKinds
<1>3. /\ Formed(longer) /\ Ordered(longer, now) /\ Dated(longer, clock)
      /\ Counted(longer, Len(rows)) /\ Paid(longer, rows, spent) /\ Preceded(longer)
      /\ Permits(longer, permits) /\ Chained(longer, FALSE) /\ Tallied(longer, used)
      /\ Sifted(longer) /\ Sealed(longer, FALSE) /\ Done(longer, rows)
  BY <1>1, <1>2 DEF Stays, Permissions, EvaluationKinds, Marks
<1>4. Routed(longer, Len(rows) + 1)
  <2>1. At(longer, "diagnosis_routed") = At(log, "diagnosis_routed") \cup {Len(longer)}
    BY <1>1, AtNext
  <2>2. \A i \in At(log, "diagnosis_routed") : longer[i] = log[i]
    BY <1>1, AtMore
  <2>3. \A i \in At(log, "diagnosis_routed") : log[i].turn \in 1..Len(rows)
    BY DEF Logged, Routed
  <2> QED
    BY <1>1, <2>1, <2>2, <2>3 DEF Routed
<1> QED
  BY <1>1, <1>3, <1>4 DEF Logged, longer

LEMMA SelectionAwaited ==
    ASSUME NEW log, NEW now, NEW clock, NEW rows, NEW spent, NEW permits, NEW used,
           Len(rows) \in Nat, Logged(log, now, clock, rows, spent, permits, used, "nothing")
    PROVE  Logged(log, now, clock, rows, spent, permits, used, "selection")
<1>1. Routed(log, Len(rows) + 1)
  BY DEF Logged, Routed
<1> QED
  BY <1>1 DEF Logged

LEMMA SelectLogged ==
    ASSUME NEW log, NEW event,
           NEW now \in Nat, NEW clock \in Nat, NEW rows, NEW spent, NEW permits, NEW used,
           Len(rows) \in Nat, Logged(log, now, clock, rows, spent, permits, used, "selection"),
           event.kind = "candidate_selected", now = Len(rows) + 1, event.turn = now,
           AtTurn(log, "candidate_selected", now) = {},
           AtTurn(log, "author_actions_resolved", now) # {}
    PROVE  /\ Logged(log \o <<event>>, now, clock, rows, spent, permits, used, "selection")
           /\ AtTurn(log \o <<event>>, "candidate_selected", now) = {Len(log) + 1}
<1> DEFINE longer == log \o <<event>>
<1>0. clock <= clock
  OBVIOUS
<1>1. /\ Grown(log, longer) /\ IsSequence(longer)
      /\ Len(log) \in Nat /\ Len(longer) = Len(log) + 1 /\ longer[Len(longer)] = event
      /\ Adds(log, longer, {event.kind})
      /\ Stays(longer, event, now, clock, rows, spent, permits, used, "selection")
  BY <1>0, LoggedOne
<1> HIDE DEF longer
<1>2. event.kind \in OpenKinds /\ ~Clocked(event) /\ event.turn \notin 1..Len(rows)
  BY OpenAre DEF Clocked, SearchKinds
<1>3. /\ Formed(longer) /\ Ordered(longer, now) /\ Dated(longer, clock)
      /\ Paid(longer, rows, spent)
      /\ Permits(longer, permits) /\ Chained(longer, FALSE) /\ Tallied(longer, used)
      /\ Sifted(longer) /\ Sealed(longer, FALSE) /\ Done(longer, rows)
      /\ Routed(longer, Len(rows) + 1)
  BY <1>1, <1>2 DEF Stays, Permissions, EvaluationKinds
<1>4. Counted(longer, Len(rows))
  <2>1. Counted(log, Len(rows))
    BY DEF Logged
  <2> QED
    BY <1>1, <2>1, CountedNext
<1>5. Preceded(longer)
  <2>1. PICK j \in AtTurn(log, "author_actions_resolved", now) : TRUE
    OBVIOUS
  <2>2. j \in AtTurn(longer, "author_actions_resolved", now) /\ j \in 1..Len(log)
    BY <1>1, AtTurnMore
  <2>3. \A i \in 1..Len(longer) : i > Len(log) => i = Len(longer) /\ j < i
    BY <1>1, <2>2
  <2>4. Preceded(log)
    BY DEF Logged
  <2> QED
    BY <1>1, <2>2, <2>3, <2>4, PrecededGrows
<1>6. AtTurn(longer, "candidate_selected", now) = {Len(log) + 1}
  BY <1>1, AtNext
<1> QED
  BY <1>1, <1>3, <1>4, <1>5, <1>6 DEF Logged, longer

(* The turn in progress is done: its observation says what it showed. *)
LEMMA SettleLogged ==
    ASSUME NEW log, NEW now, NEW clock, NEW rows, NEW seen, NEW permits, NEW used,
           IsSequence(rows),
           Logged(log, now, clock, rows, seen.tokens, permits, used, "selection"),
           \A mark \in Marks : AtTurn(log, mark, Len(rows) + 1) # {},
           Settled(log, Len(rows) + 1, seen), NEW later
    PROVE  /\ Logged(log, now, clock, Append(rows, seen), later, permits, used, "nothing")
           /\ \A mark \in Marks : AtTurn(log, mark, Len(rows) + 2) = {}
<1> DEFINE more == Append(rows, seen)
<1>1. Len(rows) \in Nat /\ Len(more) = Len(rows) + 1
  BY GrowsOne, SequenceFacts
<1>2. ASSUME NEW mark \in Marks
      PROVE  Numbered(log, mark, Len(rows) + 1) /\ AtTurn(log, mark, Len(rows) + 2) = {}
  <2>1. Numbered(log, mark, Len(rows))
    BY DEF Logged, Counted, Marks
  <2> QED
    BY <1>1, <2>1, NumberedSettles
<1>3. Counted(log, Len(more))
  BY <1>1, <1>2 DEF Counted, Marks
<1>4. Paid(log, more, later)
  <2>1. /\ Numbered(log, "provider_turn_completed", Len(rows))
        /\ Paid(log, rows, seen.tokens)
    BY DEF Logged, Counted
  <2> QED
    BY <2>1, PaidObserved
<1>5. Done(log, more)
  BY DoneNext DEF Logged
<1>6. Routed(log, Len(more))
  BY <1>1 DEF Logged
<1> HIDE DEF more
<1>7. Logged(log, now, clock, more, later, permits, used, "nothing")
  BY <1>3, <1>4, <1>5, <1>6 DEF Logged
<1> QED
  BY <1>2, <1>7 DEF more

LEMMA ClosingLogged ==
    ASSUME NEW log, NEW event,
           NEW now \in Nat, NEW clock \in Nat, NEW rows, NEW spent, NEW permits, NEW used,
           NEW tick \in Nat, clock <= tick,
           Len(rows) \in Nat, Logged(log, now, clock, rows, spent, permits, used, "nothing"),
           event.kind \in {"search_completed", "candidate_nominated"},
           event.kind = "search_completed" => event.state.elapsed = tick
    PROVE  Logged(log \o <<event>>, now, tick, rows, spent, permits, used, "nothing")
<1> DEFINE longer == log \o <<event>>
<1>1. /\ Grown(log, longer) /\ IsSequence(longer)
      /\ Len(log) \in Nat /\ Len(longer) = Len(log) + 1 /\ longer[Len(longer)] = event
      /\ Adds(log, longer, {event.kind})
      /\ Stays(longer, event, now, tick, rows, spent, permits, used, "nothing")
  BY LoggedOne
<1> HIDE DEF longer
<1>2. /\ Clocked(event) => ClockOf(event) = tick
      /\ ~TurnBearing(event) /\ ~Settling(event)
  BY OpenAre DEF Clocked, ClockOf, TurnBearing, Settling, SearchKinds, EvaluationKinds
<1>5. event.kind \in OpenKinds
  BY OpenAre
<1>3. /\ Formed(longer) /\ Ordered(longer, now) /\ Dated(longer, tick)
      /\ Counted(longer, Len(rows)) /\ Paid(longer, rows, spent) /\ Preceded(longer)
      /\ Permits(longer, permits) /\ Chained(longer, FALSE) /\ Tallied(longer, used)
      /\ Sifted(longer) /\ Sealed(longer, FALSE) /\ Done(longer, rows)
      /\ Routed(longer, Len(rows))
  BY <1>1, <1>2, <1>5 DEF Stays, Permissions, EvaluationKinds, Marks
<1> QED
  BY <1>1, <1>3 DEF Logged, longer

-------------------------------------------------------------------------------
(* One build's permits: each granted one starts and completes, and the one *)
(* that is refused ends the build.                                         *)

LEMMA Pairing ==
    ASSUME NEW g \in Nat, NEW k \in 1..(2 * g)
    PROVE  \E p \in 1..g : k = 2 * p - 1 \/ k = 2 * p
<1>1. (k + 1) \div 2 \in 1..g /\ (k = 2 * ((k + 1) \div 2) - 1 \/ k = 2 * ((k + 1) \div 2))
  OBVIOUS
<1> QED
  BY <1>1

LEMMA PairParts ==
    ASSUME NEW p \in Nat \ {0}
    PROVE  /\ (2 * p - 1) % 2 = 1 /\ ((2 * p - 1) + 1) \div 2 = p
           /\ (2 * p) % 2 = 0 /\ (2 * p + 1) \div 2 = p
OBVIOUS

Odds(base, n) == {i \in Nat : \E q \in 1..n : i = base + 2 * q - 1}

LEMMA OddsCounted ==
    ASSUME NEW D, IsFiniteSet(D), NEW base \in Nat, D \subseteq 1..base, NEW n \in Nat
    PROVE  /\ IsFiniteSet(D \cup Odds(base, n))
           /\ Cardinality(D \cup Odds(base, n)) = Cardinality(D) + n
<1> DEFINE f == [q \in 1..n |-> base + 2 * q - 1]
<1>1. f \in [1..n -> Odds(base, n)]
  BY DEF Odds
<1>2. \A x, y \in 1..n : f[x] = f[y] => x = y
  OBVIOUS
<1>3. \A z \in Odds(base, n) : \E x \in 1..n : f[x] = z
  BY DEF Odds
<1>4. IsFiniteSet(Odds(base, n))
  <2>1. \A s \in Odds(base, n) : s <= base + 2 * n
    BY DEF Odds
  <2>2. Odds(base, n) \in SUBSET Nat /\ base + 2 * n \in Nat
    BY DEF Odds
  <2> QED
    BY <2>1, <2>2, FS_BoundedSetOfNaturals
<1> HIDE DEF f
<1>5. Cardinality(Odds(base, n)) = n
  <2>1. Cardinality(1..n) = Cardinality(Odds(base, n))
    BY <1>1, <1>2, <1>3, <1>4, AsMany
  <2>2. Cardinality(1..n) = n
    BY FS_Interval
  <2> QED
    BY <2>1, <2>2
<1>6. D \cap Odds(base, n) = {}
  BY DEF Odds
<1>7. /\ IsFiniteSet(D \cup Odds(base, n))
      /\ Cardinality(D \cup Odds(base, n))
            = Cardinality(D) + Cardinality(Odds(base, n)) - Cardinality(D \cap Odds(base, n))
  BY <1>4, FS_Union
<1>8. Cardinality(D) \in Nat /\ Cardinality(D \cap Odds(base, n)) = 0
  BY <1>6, FS_CardinalityType, FS_EmptySet
<1> QED
  BY <1>5, <1>7, <1>8

(* What such a block of events is. *)
Permitted(written, now, candidate, before, granted, from, till) ==
    /\ IsSequence(written) /\ Len(written) \in {2 * granted, 2 * granted + 1}
    /\ \A k \in 1..Len(written) : written[k].turn = now /\ written[k].candidate = candidate
    /\ \A p \in 1..granted :
          /\ written[2 * p - 1].kind = "compilation_started"
          /\ written[2 * p].kind = "compilation_completed"
          /\ written[2 * p - 1].number = before + p /\ written[2 * p].number = before + p
          /\ written[2 * p - 1].clock = IF p = 1 THEN from ELSE till
          /\ written[2 * p].clock = till
    /\ Len(written) = 2 * granted + 1 =>
          /\ written[Len(written)].kind = "compilation_refused"
          /\ before + granted = MaximumCompilations

LEMMA CompilationsPermitted ==
    ASSUME IInv, NEW asked \in Nat, NEW now \in Nat
    PROVE  /\ Granted(asked) \in Nat
           /\ Permitted(CompilationEvents(asked, now), turn, NextBuild, compilations,
                        Granted(asked), Rounded(elapsed), Rounded(now))
           /\ asked # Granted(asked) <=>
                 Len(CompilationEvents(asked, now)) = 2 * Granted(asked) + 1
<1> DEFINE g == Granted(asked)
           L == 2 * g + (IF asked > g THEN 1 ELSE 0)
           written == CompilationEvents(asked, now)
           Event(k) == LET permit == (k + 1) \div 2
                       IN IF permit > g THEN CandidateEvent("compilation_refused", NextBuild)
                          ELSE [kind |-> IF k % 2 = 1 THEN "compilation_started"
                                         ELSE "compilation_completed",
                                origin |-> "turn", turn |-> turn, candidate |-> NextBuild,
                                number |-> compilations + permit,
                                clock |-> Rounded(IF k = 1 THEN elapsed ELSE now)]
<1>1. /\ g \in Nat /\ g <= asked
      /\ asked > g => g = MaximumCompilations - compilations
  <2> DEFINE room == MaximumCompilations - compilations
  <2>1. room \in Nat
    BY BudgetAssumption, SMTT(30) DEF IInv, TypeOK
  <2>2. g \in {asked, room} /\ g <= asked /\ g <= room
    <3>1. {asked, room} \subseteq Int /\ asked \in {asked, room} /\ room \in {asked, room}
          /\ \E n \in {asked, room} : \A y \in {asked, room} : n <= y
      BY <2>1
    <3>2. PICK n \in {asked, room} : \A y \in {asked, room} : n <= y
      BY <3>1
    <3>3. \A m \in {asked, room} : (\A y \in {asked, room} : m <= y) => m = n
      BY <3>1, <3>2
    <3>4. g = Min({asked, room})
      BY DEF Granted
    <3>5. Min({asked, room}) = CHOOSE m \in {asked, room} : \A y \in {asked, room} : m <= y
      BY DEF Min
    <3>6. Min({asked, room}) \in {asked, room}
          /\ \A y \in {asked, room} : Min({asked, room}) <= y
      BY <3>2, <3>5
    <3> HIDE DEF room
    <3> QED
      BY <3>4, <3>6
  <2> QED
    BY <2>1, <2>2
<1>2. written = [k \in 1..L |-> Event(k)]
  BY DEF CompilationEvents
<1> HIDE DEF written
<1>3. /\ IsSequence(written) /\ Len(written) = L /\ L \in {2 * g, 2 * g + 1}
      /\ L = 2 * g + 1 <=> asked > g
      /\ \A k \in 1..L : written[k] = Event(k)
  <2>1. L \in Nat /\ L \in {2 * g, 2 * g + 1} /\ (L = 2 * g + 1 <=> asked > g)
    BY <1>1
  <2> HIDE DEF L
  <2>2. \A k \in 1..L : written[k] = Event(k)
    BY <1>2
  <2>3. written = [k \in 1..L |-> written[k]]
    BY <1>2
  <2> QED
    BY <2>1, <2>2, <2>3, FunctionIsSequence
<1> HIDE DEF L
<1>4. ASSUME NEW k \in 1..L
      PROVE  written[k].turn = turn /\ written[k].candidate = NextBuild
  <2>1. written[k] = Event(k)
    BY <1>3
  <2> QED
    BY <2>1 DEF CandidateEvent
<1>5. ASSUME NEW p \in 1..g
      PROVE  /\ written[2 * p - 1].kind = "compilation_started"
             /\ written[2 * p].kind = "compilation_completed"
             /\ written[2 * p - 1].number = compilations + p
             /\ written[2 * p].number = compilations + p
             /\ written[2 * p - 1].clock = IF p = 1 THEN Rounded(elapsed) ELSE Rounded(now)
             /\ written[2 * p].clock = Rounded(now)
  <2>1. /\ 2 * p - 1 \in 1..L /\ 2 * p \in 1..L /\ p <= g /\ p \in Nat \ {0}
        /\ 2 * p # 1 /\ (2 * p - 1 = 1 <=> p = 1)
    BY <1>1, <1>3
  <2>2. /\ (2 * p - 1) % 2 = 1 /\ ((2 * p - 1) + 1) \div 2 = p
        /\ (2 * p) % 2 = 0 /\ (2 * p + 1) \div 2 = p
    BY <2>1, PairParts
  <2>3. ~(p > g)
    BY <2>1, <1>1
  <2>4. written[2 * p - 1] = Event(2 * p - 1) /\ written[2 * p] = Event(2 * p)
    BY <1>3, <2>1
  <2>5. Event(2 * p - 1) =
          [kind |-> "compilation_started", origin |-> "turn", turn |-> turn,
           candidate |-> NextBuild, number |-> compilations + p,
           clock |-> Rounded(IF p = 1 THEN elapsed ELSE now)]
    BY <2>1, <2>2, <2>3
  <2>6. Event(2 * p) =
          [kind |-> "compilation_completed", origin |-> "turn", turn |-> turn,
           candidate |-> NextBuild, number |-> compilations + p, clock |-> Rounded(now)]
    BY <2>1, <2>2, <2>3
  <2> HIDE DEF Event
  <2> QED
    BY <2>4, <2>5, <2>6
<1>6. ASSUME L = 2 * g + 1
      PROVE  written[L].kind = "compilation_refused" /\ compilations + g = MaximumCompilations
  <2>1. asked > g /\ L \in 1..L /\ (L + 1) \div 2 = g + 1 /\ g + 1 > g
    BY <1>1, <1>3, <1>6
  <2>2. written[L] = CandidateEvent("compilation_refused", NextBuild)
    BY <1>3, <2>1
  <2>3. compilations + g = MaximumCompilations
    BY <1>1, <2>1, BudgetAssumption, SMTT(30) DEF IInv, TypeOK
  <2> QED
    BY <2>2, <2>3 DEF CandidateEvent
<1>7. asked # g <=> L = 2 * g + 1
  BY <1>1, <1>3
<1> HIDE DEF Event
<1>8. Permitted(written, turn, NextBuild, compilations, g, Rounded(elapsed), Rounded(now))
  BY <1>3, <1>4, <1>5, <1>6 DEF Permitted
<1> QED
  BY <1>1, <1>3, <1>7, <1>8 DEF written

(* Where the block's events come to stand. *)
Grants(log, longer, now, candidate, before, granted, from, till) ==
    /\ Grown(log, longer) /\ IsSequence(longer) /\ Len(log) \in Nat
    /\ Len(longer) \in Nat /\ Len(longer) <= Len(log) + 2 * granted + 1
    /\ Len(longer) >= Len(log) + 2 * granted
    /\ Adds(log, longer, Permissions)
    /\ \A i \in 1..Len(longer) : i > Len(log) =>
          /\ longer[i].turn = now /\ longer[i].candidate = candidate
          /\ \/ \E p \in 1..granted : i = Len(log) + 2 * p - 1 \/ i = Len(log) + 2 * p
             \/ /\ i = Len(log) + 2 * granted + 1 /\ i = Len(longer)
                /\ longer[i].kind = "compilation_refused"
                /\ before + granted = MaximumCompilations
    /\ \A p \in 1..granted :
          LET i == Len(log) + 2 * p - 1
          IN /\ i \in 1..Len(longer) /\ i + 1 \in 1..Len(longer)
             /\ longer[i].kind = "compilation_started"
             /\ longer[i + 1].kind = "compilation_completed"
             /\ longer[i].number = before + p /\ longer[i + 1].number = before + p
             /\ longer[i].clock = IF p = 1 THEN from ELSE till
             /\ longer[i + 1].clock = till

LEMMA PermittedStands ==
    ASSUME NEW log, IsSequence(log), NEW written, NEW now, NEW candidate, NEW before,
           NEW granted \in Nat, NEW from, NEW till,
           Permitted(written, now, candidate, before, granted, from, till)
    PROVE  Grants(log, log \o written, now, candidate, before, granted, from, till)
<1> DEFINE longer == log \o written
<1>0. IsSequence(written) /\ Len(written) \in {2 * granted, 2 * granted + 1}
  BY DEF Permitted
<1>1. /\ Grown(log, longer) /\ IsSequence(longer)
      /\ Len(longer) = Len(log) + Len(written) /\ Len(written) \in Nat
      /\ \A n \in 1..Len(written) : longer[Len(log) + n] = written[n]
      /\ \A i \in 1..Len(longer) : i > Len(log) =>
                    i - Len(log) \in 1..Len(written) /\ longer[i] = written[i - Len(log)]
  BY <1>0, GrowsBy
<1>2. Len(log) \in Nat
  BY <1>1 DEF Grown, IsLog
<1> HIDE DEF longer
<1>3. ASSUME NEW i \in 1..Len(longer), i > Len(log)
      PROVE  /\ longer[i].turn = now /\ longer[i].candidate = candidate
             /\ \/ \E p \in 1..granted : i = Len(log) + 2 * p - 1 \/ i = Len(log) + 2 * p
                \/ /\ i = Len(log) + 2 * granted + 1 /\ i = Len(longer)
                   /\ longer[i].kind = "compilation_refused"
                   /\ before + granted = MaximumCompilations
             /\ longer[i].kind \in Permissions
  <2> DEFINE k == i - Len(log)
  <2>1. k \in 1..Len(written) /\ longer[i] = written[k] /\ i = Len(log) + k
    BY <1>1, <1>2, <1>3
  <2>2. longer[i].turn = now /\ longer[i].candidate = candidate
    BY <2>1 DEF Permitted
  <2> HIDE DEF k
  <2>3. CASE k \in 1..(2 * granted)
    <3>1. PICK p \in 1..granted : k = 2 * p - 1 \/ k = 2 * p
      BY <2>3, Pairing
    <3>2. i = Len(log) + 2 * p - 1 \/ i = Len(log) + 2 * p
      BY <1>2, <2>1, <3>1
    <3>3. written[k].kind \in {"compilation_started", "compilation_completed"}
      BY <3>1 DEF Permitted
    <3>4. longer[i].kind \in Permissions
      BY <2>1, <3>3 DEF Permissions
    <3> QED
      BY <2>2, <3>2, <3>4
  <2>4. CASE k \notin 1..(2 * granted)
    <3>1. Len(written) = 2 * granted + 1 /\ k = Len(written)
      BY <1>0, <1>1, <2>1, <2>4
    <3>2. longer[i].kind = "compilation_refused" /\ before + granted = MaximumCompilations
      BY <2>1, <3>1 DEF Permitted
    <3>3. i = Len(log) + 2 * granted + 1 /\ i = Len(longer)
      BY <1>1, <1>2, <2>1, <3>1
    <3> QED
      BY <2>2, <3>2, <3>3 DEF Permissions
  <2> QED
    BY <2>3, <2>4
<1>4. ASSUME NEW p \in 1..granted
      PROVE  LET i == Len(log) + 2 * p - 1
             IN /\ i \in 1..Len(longer) /\ i + 1 \in 1..Len(longer)
                /\ longer[i].kind = "compilation_started"
                /\ longer[i + 1].kind = "compilation_completed"
                /\ longer[i].number = before + p /\ longer[i + 1].number = before + p
                /\ longer[i].clock = IF p = 1 THEN from ELSE till
                /\ longer[i + 1].clock = till
  <2> DEFINE i == Len(log) + 2 * p - 1
  <2>1. /\ 2 * p - 1 \in 1..Len(written) /\ 2 * p \in 1..Len(written)
        /\ i = Len(log) + (2 * p - 1) /\ i + 1 = Len(log) + 2 * p
        /\ i \in 1..Len(longer) /\ i + 1 \in 1..Len(longer)
    BY <1>0, <1>1, <1>2
  <2>2. longer[i] = written[2 * p - 1] /\ longer[i + 1] = written[2 * p]
    BY <1>1, <2>1
  <2> HIDE DEF i
  <2>3. /\ longer[i].kind = "compilation_started"
        /\ longer[i + 1].kind = "compilation_completed"
        /\ longer[i].number = before + p /\ longer[i + 1].number = before + p
        /\ longer[i].clock = IF p = 1 THEN from ELSE till
        /\ longer[i + 1].clock = till
    <3>1. /\ written[2 * p - 1].kind = "compilation_started"
          /\ written[2 * p].kind = "compilation_completed"
          /\ written[2 * p - 1].number = before + p /\ written[2 * p].number = before + p
          /\ written[2 * p - 1].clock = IF p = 1 THEN from ELSE till
          /\ written[2 * p].clock = till
      <4>1. \A q \in 1..granted :
              /\ written[2 * q - 1].kind = "compilation_started"
              /\ written[2 * q].kind = "compilation_completed"
              /\ written[2 * q - 1].number = before + q /\ written[2 * q].number = before + q
              /\ written[2 * q - 1].clock = IF q = 1 THEN from ELSE till
              /\ written[2 * q].clock = till
        BY DEF Permitted
      <4> QED
        BY ONLY <4>1, p \in 1..granted
    <3> QED
      BY ONLY <2>2, <3>1, Zenon
  <2> QED
    BY <2>1, <2>3 DEF i
<1>5. Adds(log, longer, Permissions)
  BY <1>1, <1>3 DEF Adds
<1>6. /\ Len(longer) \in Nat /\ Len(longer) <= Len(log) + 2 * granted + 1
      /\ Len(longer) >= Len(log) + 2 * granted
  BY <1>0, <1>1, <1>2
<1>7. \A i \in 1..Len(longer) : i > Len(log) =>
         /\ longer[i].turn = now /\ longer[i].candidate = candidate
         /\ \/ \E p \in 1..granted : i = Len(log) + 2 * p - 1 \/ i = Len(log) + 2 * p
            \/ /\ i = Len(log) + 2 * granted + 1 /\ i = Len(longer)
               /\ longer[i].kind = "compilation_refused"
               /\ before + granted = MaximumCompilations
  BY <1>3
<1>8. \A p \in 1..granted :
         LET i == Len(log) + 2 * p - 1
         IN /\ i \in 1..Len(longer) /\ i + 1 \in 1..Len(longer)
            /\ longer[i].kind = "compilation_started"
            /\ longer[i + 1].kind = "compilation_completed"
            /\ longer[i].number = before + p /\ longer[i + 1].number = before + p
            /\ longer[i].clock = IF p = 1 THEN from ELSE till
            /\ longer[i + 1].clock = till
  BY <1>4
<1> QED
  BY <1>1, <1>2, <1>5, <1>6, <1>7, <1>8 DEF longer, Grants

(* The permits of a build that is resolved and not yet filtered replay. *)
LEMMA PermitsNext ==
    ASSUME NEW log, IsSequence(log), NEW written, NEW now, NEW candidate, NEW before \in Nat,
           NEW granted \in Nat, NEW from, NEW till,
           Permitted(written, now, candidate, before, granted, from, till),
           Permits(log, before),
           AtTurn(log, "author_actions_resolved", now) # {},
           candidate \in Submitted(log, now),
           AtTurn(log, "candidate_set_filtered", now) = {},
           At(log, "search_completed") = {}
    PROVE  Permits(log \o written, before + granted)
<1> DEFINE longer == log \o written
           new(i) == \E p \in 1..granted : i = Len(log) + 2 * p - 1
<1>0. Grants(log, longer, now, candidate, before, granted, from, till)
  BY PermittedStands
<1> HIDE DEF longer
<1>1. /\ Grown(log, longer) /\ IsSequence(longer) /\ Len(log) \in Nat
      /\ Len(longer) \in Nat /\ Len(longer) <= Len(log) + 2 * granted + 1
      /\ Len(longer) >= Len(log) + 2 * granted
      /\ Adds(log, longer, Permissions)
  BY <1>0 DEF Grants
<1>2. \A i \in 1..Len(longer) : i > Len(log) =>
         /\ longer[i].turn = now /\ longer[i].candidate = candidate
         /\ \/ \E p \in 1..granted : i = Len(log) + 2 * p - 1 \/ i = Len(log) + 2 * p
            \/ /\ i = Len(log) + 2 * granted + 1 /\ i = Len(longer)
               /\ longer[i].kind = "compilation_refused"
               /\ before + granted = MaximumCompilations
  BY <1>0 DEF Grants
<1>3. \A p \in 1..granted :
         LET i == Len(log) + 2 * p - 1
         IN /\ i \in 1..Len(longer) /\ i + 1 \in 1..Len(longer)
            /\ longer[i].kind = "compilation_started"
            /\ longer[i + 1].kind = "compilation_completed"
            /\ longer[i].number = before + p /\ longer[i + 1].number = before + p
  BY <1>0 DEF Grants
<1>4. /\ IsLog(log) /\ IsLog(longer)
  BY <1>1 DEF Grown
<1>5. ASSUME NEW i \in At(longer, "compilation_started"), i > Len(log)
      PROVE  \E p \in 1..granted : i = Len(log) + 2 * p - 1
  <2>1. i \in 1..Len(longer) /\ longer[i].kind = "compilation_started"
    BY <1>4 DEF At, IsLog
  <2>2. ASSUME NEW p \in 1..granted, i = Len(log) + 2 * p PROVE FALSE
    <3>1. Len(log) + 2 * p - 1 + 1 = i
      BY <1>1, <2>2
    <3>2. longer[i].kind = "compilation_completed"
      BY <1>3, <3>1
    <3> QED
      BY <2>1, <3>2
  <2> QED
    BY <1>2, <1>5, <2>1, <2>2
<1>6. ASSUME NEW i \in At(longer, "compilation_completed"), i > Len(log)
      PROVE  \E p \in 1..granted : i = Len(log) + 2 * p
  <2>1. i \in 1..Len(longer) /\ longer[i].kind = "compilation_completed"
    BY <1>4 DEF At, IsLog
  <2>2. ASSUME NEW p \in 1..granted, i = Len(log) + 2 * p - 1 PROVE FALSE
    BY <1>3, <2>1, <2>2
  <2> QED
    BY <1>2, <1>6, <2>1, <2>2
<1>7. ASSUME NEW i \in At(longer, "compilation_refused"), i > Len(log)
      PROVE  i = Len(log) + 2 * granted + 1 /\ i = Len(longer)
             /\ before + granted = MaximumCompilations
  <2>1. i \in 1..Len(longer) /\ longer[i].kind = "compilation_refused"
    BY <1>4 DEF At, IsLog
  <2>2. ASSUME NEW p \in 1..granted, i = Len(log) + 2 * p - 1 PROVE FALSE
    BY <1>3, <2>1, <2>2
  <2>3. ASSUME NEW p \in 1..granted, i = Len(log) + 2 * p PROVE FALSE
    <3>1. Len(log) + 2 * p - 1 + 1 = i
      BY <1>1, <2>3
    <3>2. longer[i].kind = "compilation_completed"
      BY <1>3, <3>1
    <3> QED
      BY <2>1, <3>2
  <2> QED
    BY <1>2, <1>7, <2>1, <2>2, <2>3
<1>8. \A kind : \A i \in At(longer, kind) : i <= Len(log) =>
         i \in At(log, kind) /\ i \in 1..Len(log) /\ longer[i] = log[i]
  <2> TAKE kind
  <2>1. \A i \in At(longer, kind) : i <= Len(log) => i \in At(log, kind)
    BY <1>1, AtMore
  <2>2. \A i \in At(log, kind) : i \in 1..Len(log) /\ longer[i] = log[i]
    BY <1>1, AtMore
  <2> QED
    BY <2>1, <2>2
<1> DEFINE D == At(log, "compilation_started")
<1>9. /\ IsFiniteSet(D) /\ D \subseteq 1..Len(log) /\ Cardinality(D) = before
  BY <1>4, LogIsFinite DEF Permits, CompilationCount
<1>18. D = At(log, "compilation_started")
  OBVIOUS
<1> HIDE DEF D
<1>10. ASSUME NEW p \in 0..granted
       PROVE  {j \in At(longer, "compilation_started") : j < Len(log) + 2 * p + 1}
                 = D \cup Odds(Len(log), p)
  <2> DEFINE E == {j \in At(longer, "compilation_started") : j < Len(log) + 2 * p + 1}
  <2>1. ASSUME NEW j \in E PROVE j \in D \cup Odds(Len(log), p)
    <3>0. j \in 1..Len(longer) /\ j \in At(longer, "compilation_started")
      BY <1>4 DEF At, IsLog
    <3>1. CASE j <= Len(log)
      BY <1>8, <1>18, <3>0, <3>1
    <3>2. CASE j > Len(log)
      <4>1. PICK q \in 1..granted : j = Len(log) + 2 * q - 1
        BY <1>5, <3>0, <3>2
      <4>2. j \in Nat /\ q \in 1..p
        BY <1>1, <2>1, <3>0, <4>1
      <4> QED
        BY <4>1, <4>2 DEF Odds
    <3> QED
      BY <1>1, <3>0, <3>1, <3>2
  <2>2. ASSUME NEW j \in D PROVE j \in E
    <3>1. j \in 1..Len(log) /\ j \in At(longer, "compilation_started")
      BY <1>1, <1>18, AtMore
    <3> QED
      BY <1>1, <3>1
  <2>3. ASSUME NEW j \in Odds(Len(log), p) PROVE j \in E
    <3>1. PICK q \in 1..p : j = Len(log) + 2 * q - 1
      BY DEF Odds
    <3>2. q \in 1..granted
      OBVIOUS
    <3>3. j \in 1..Len(longer) /\ longer[j].kind = "compilation_started"
      BY <1>3, <3>1, <3>2
    <3>4. j < Len(log) + 2 * p + 1
      BY <1>1, <3>1
    <3> QED
      BY <1>4, <3>3, <3>4 DEF At, IsLog
  <2> QED
    BY <2>1, <2>2, <2>3
<1>11. ASSUME NEW p \in 0..granted
       PROVE  Earlier(At(longer, "compilation_started"), Len(log) + 2 * p + 1) = before + p
  <2>1. p \in Nat
    OBVIOUS
  <2>2. Cardinality(D \cup Odds(Len(log), p)) = Cardinality(D) + p
    BY <1>1, <1>9, <2>1, OddsCounted
  <2> QED
    BY <1>9, <1>10, <2>2 DEF Earlier
<1>12. CompilationCount(longer) = before + granted
  <2>1. granted \in 0..granted
    OBVIOUS
  <2>2. ASSUME NEW j \in At(longer, "compilation_started") PROVE j < Len(log) + 2 * granted + 1
    <3>1. j \in 1..Len(longer)
      BY <1>4 DEF At, IsLog
    <3>2. CASE j <= Len(log)
      BY <1>1, <3>1, <3>2
    <3>3. CASE j > Len(log)
      <4>1. PICK q \in 1..granted : j = Len(log) + 2 * q - 1
        BY <1>5, <3>3
      <4> QED
        BY <1>1, <4>1
    <3> QED
      BY <1>1, <3>1, <3>2, <3>3
  <2>3. At(longer, "compilation_started") = D \cup Odds(Len(log), granted)
    BY <1>10, <2>1, <2>2
  <2> QED
    <3>1. Cardinality(D \cup Odds(Len(log), granted)) = Cardinality(D) + granted
      BY <1>1, <1>9, OddsCounted
    <3> QED
      BY <1>9, <2>3, <3>1 DEF CompilationCount
<1>13. /\ AtTurn(longer, "author_actions_resolved", now)
            = AtTurn(log, "author_actions_resolved", now)
       /\ \A t : AtTurn(longer, "author_actions_resolved", t)
            = AtTurn(log, "author_actions_resolved", t)
       /\ AtTurn(longer, "candidate_set_filtered", now) = {}
       /\ At(longer, "search_completed") = {}
  <2>1. /\ "author_actions_resolved" \notin Permissions
        /\ "candidate_set_filtered" \notin Permissions /\ "search_completed" \notin Permissions
    BY DEF Permissions
  <2> QED
    BY <1>1, <2>1, AtSame
<1>14. ASSUME NEW i \in 1..Len(longer), i > Len(log) PROVE PermitPlaced(longer, i)
  <2>1. longer[i].turn = now /\ longer[i].candidate = candidate
    BY <1>2, <1>14
  <2>2. PICK j \in AtTurn(log, "author_actions_resolved", now) : TRUE
    OBVIOUS
  <2>3. j \in AtTurn(longer, "author_actions_resolved", now) /\ j \in 1..Len(log)
    BY <1>1, <2>2, AtTurnMore
  <2>4. j < i
    BY <1>1, <1>14, <2>3
  <2>5. candidate \in Submitted(longer, now)
    BY <1>1, <1>13, ResolvedSame
  <2> QED
    BY <1>13, <2>1, <2>3, <2>4, <2>5 DEF PermitPlaced
<1>15. ASSUME NEW i \in At(longer, "compilation_started")
       PROVE  /\ PermitPlaced(longer, i)
              /\ longer[i].number = Earlier(At(longer, "compilation_started"), i) + 1
              /\ i < Len(longer) /\ longer[i + 1].kind = "compilation_completed"
  <2>0. i \in 1..Len(longer)
    BY <1>4 DEF At, IsLog
  <2>1. CASE i <= Len(log)
    <3>1. i \in D /\ i \in 1..Len(log) /\ longer[i] = log[i]
      BY <1>8, <1>18, <2>1
    <3>2. /\ PermitPlaced(log, i) /\ log[i].number = Earlier(D, i) + 1
          /\ i < Len(log) /\ log[i + 1].kind = "compilation_completed"
      BY <1>18, <3>1 DEF Permits
    <3>3. PermitPlaced(longer, i)
      BY <1>1, <1>13, <3>1, <3>2, PermitPlacedGrows
    <3>4. Earlier(At(longer, "compilation_started"), i) = Earlier(D, i)
      <4>1. {j \in At(longer, "compilation_started") : j < i} = {j \in D : j < i}
        BY <1>1, <1>18, <3>1, EarlierGrows
      <4> QED
        BY <4>1 DEF Earlier
    <3>5. longer[i + 1] = log[i + 1] /\ i < Len(longer)
      BY <1>1, <3>1, <3>2 DEF Grown
    <3> QED
      BY <3>1, <3>2, <3>3, <3>4, <3>5
  <2>2. CASE i > Len(log)
    <3>1. PICK p \in 1..granted : i = Len(log) + 2 * p - 1
      BY <1>5, <2>2
    <3>2. /\ i + 1 \in 1..Len(longer)
          /\ longer[i + 1].kind = "compilation_completed" /\ longer[i].number = before + p
      BY <1>3, <3>1
    <3>3. p - 1 \in 0..granted /\ i = Len(log) + 2 * (p - 1) + 1
      BY <1>1, <3>1
    <3>4. Earlier(At(longer, "compilation_started"), i) = before + (p - 1)
      BY <1>11, <3>3
    <3>5. before + (p - 1) + 1 = before + p /\ i < Len(longer)
      BY <1>1, <2>0, <3>2
    <3> QED
      BY <1>14, <2>0, <2>2, <3>2, <3>4, <3>5, SMTT(30)
  <2> QED
    BY <1>1, <2>0, <2>1, <2>2
<1>16. ASSUME NEW i \in At(longer, "compilation_completed")
       PROVE  /\ i > 1 /\ longer[i - 1].kind = "compilation_started"
              /\ longer[i].turn = longer[i - 1].turn
              /\ longer[i].candidate = longer[i - 1].candidate
              /\ longer[i].number = longer[i - 1].number
  <2>0. i \in 1..Len(longer)
    BY <1>4 DEF At, IsLog
  <2>1. CASE i <= Len(log)
    <3>1. i \in At(log, "compilation_completed") /\ i \in 1..Len(log) /\ longer[i] = log[i]
      BY <1>8, <2>1
    <3>2. /\ i > 1 /\ log[i - 1].kind = "compilation_started"
          /\ log[i].turn = log[i - 1].turn /\ log[i].candidate = log[i - 1].candidate
          /\ log[i].number = log[i - 1].number
      BY <3>1 DEF Permits
    <3>3. longer[i - 1] = log[i - 1]
      BY <1>1, <3>1, <3>2 DEF Grown
    <3> QED
      BY <3>1, <3>2, <3>3
  <2>2. CASE i > Len(log)
    <3>1. PICK p \in 1..granted : i = Len(log) + 2 * p
      BY <1>6, <2>2
    <3>2. i - 1 = Len(log) + 2 * p - 1 /\ i - 1 + 1 = i /\ i - 1 > Len(log) /\ i > 1
      BY <1>1, <3>1
    <3>3. /\ i - 1 \in 1..Len(longer) /\ longer[i - 1].kind = "compilation_started"
          /\ longer[i].number = before + p /\ longer[i - 1].number = before + p
      BY <1>3, <3>2
    <3> QED
      BY <1>2, <2>0, <2>2, <3>2, <3>3
  <2> QED
    BY <1>1, <2>0, <2>1, <2>2
<1>17. ASSUME NEW i \in At(longer, "compilation_refused")
       PROVE  /\ PermitPlaced(longer, i)
              /\ Earlier(At(longer, "compilation_started"), i) = MaximumCompilations
              /\ Unlaunched(longer, i)
  <2>0. i \in 1..Len(longer)
    BY <1>4 DEF At, IsLog
  <2>1. CASE i <= Len(log)
    <3>1. i \in At(log, "compilation_refused") /\ i \in 1..Len(log) /\ longer[i] = log[i]
      BY <1>8, <2>1
    <3>2. /\ PermitPlaced(log, i) /\ Earlier(D, i) = MaximumCompilations
          /\ Unlaunched(log, i)
      BY <1>18, <3>1 DEF Permits
    <3>3. PermitPlaced(longer, i)
      BY <1>1, <1>13, <3>1, <3>2, PermitPlacedGrows
    <3>4. Earlier(At(longer, "compilation_started"), i) = Earlier(D, i)
      <4>1. {j \in At(longer, "compilation_started") : j < i} = {j \in D : j < i}
        BY <1>1, <1>18, <3>1, EarlierGrows
      <4> QED
        BY <4>1 DEF Earlier
    <3>5. "candidate_set_filtered" \notin Permissions
      BY DEF Permissions
    <3>6. Unlaunched(longer, i)
      BY <1>1, <3>1, <3>2, <3>5, UnlaunchedKept
    <3> QED
      BY <3>2, <3>3, <3>4, <3>6
  <2>2. CASE i > Len(log)
    <3>1. i = Len(log) + 2 * granted + 1 /\ before + granted = MaximumCompilations
      BY <1>7, <2>2
    <3>2. granted \in 0..granted
      OBVIOUS
    <3>3. Earlier(At(longer, "compilation_started"), i) = MaximumCompilations
      BY <1>11, <3>1, <3>2
    <3>4. Unlaunched(longer, i)
      BY <1>2, <1>13, <2>0, <2>2 DEF Unlaunched
    <3> QED
      BY <1>14, <2>0, <2>2, <3>3, <3>4
  <2> QED
    BY <1>1, <2>0, <2>1, <2>2
<1> QED
  BY <1>12, <1>15, <1>16, <1>17 DEF Permits, longer

RefusedLast(log, longer, candidate, full) ==
    \A i \in At(longer, "compilation_refused") :
        i > Len(log) => longer[i].candidate = candidate /\ full

LEMMA CompilationsLogged ==
    ASSUME NEW log, NEW written, NEW now \in Nat, NEW clock \in Nat, NEW rows, NEW spent,
           NEW permits \in Nat, NEW used, NEW tick \in Nat, clock <= tick,
           NEW candidate, NEW granted \in Nat,
           Len(rows) \in Nat, now = Len(rows) + 1,
           Logged(log, now, clock, rows, spent, permits, used, "nothing"),
           Permitted(written, now, candidate, permits, granted, clock, tick),
           AtTurn(log, "author_actions_resolved", now) # {},
           candidate \in Submitted(log, now),
           AtTurn(log, "candidate_set_filtered", now) = {},
           At(log, "search_completed") = {}
    PROVE  /\ Logged(log \o written, now, tick, rows, spent, permits + granted, used, "nothing")
           /\ Adds(log, log \o written, Permissions)
           /\ RefusedLast(log, log \o written, candidate, Len(written) = 2 * granted + 1)
<1> DEFINE longer == log \o written
<1>0. IsSequence(log)
  BY DEF Logged
<1>9. Grants(log, longer, now, candidate, permits, granted, clock, tick)
  BY <1>0, PermittedStands
<1>4. Permits(longer, permits + granted)
  <2>1. Permits(log, permits)
    BY DEF Logged
  <2> QED
    BY <1>0, <2>1, PermitsNext
<1>15. Len(longer) = Len(log) + Len(written) /\ Len(written) \in {2 * granted, 2 * granted + 1}
  <2>1. IsSequence(written) /\ Len(written) \in {2 * granted, 2 * granted + 1}
    BY DEF Permitted
  <2> QED
    BY <1>0, <2>1, GrowsBy
<1> HIDE DEF longer
<1>1. /\ Grown(log, longer) /\ IsSequence(longer) /\ Len(log) \in Nat
      /\ Len(longer) \in Nat
      /\ Adds(log, longer, Permissions)
  BY <1>9 DEF Grants
<1>2. \A i \in 1..Len(longer) : i > Len(log) =>
         /\ longer[i].turn = now /\ longer[i].candidate = candidate
         /\ \/ \E p \in 1..granted : i = Len(log) + 2 * p - 1 \/ i = Len(log) + 2 * p
            \/ /\ i = Len(log) + 2 * granted + 1 /\ i = Len(longer)
               /\ longer[i].kind = "compilation_refused"
  BY <1>9 DEF Grants
<1>3. \A p \in 1..granted :
         LET i == Len(log) + 2 * p - 1
         IN /\ i \in 1..Len(longer) /\ i + 1 \in 1..Len(longer)
            /\ longer[i].kind = "compilation_started"
            /\ longer[i + 1].kind = "compilation_completed"
            /\ longer[i].clock = IF p = 1 THEN clock ELSE tick
            /\ longer[i + 1].clock = tick
  BY <1>9 DEF Grants
<1>5. /\ Formed(longer) /\ Ordered(longer, now) /\ Counted(longer, Len(rows))
      /\ Paid(longer, rows, spent) /\ Preceded(longer)
      /\ Chained(longer, FALSE) /\ Tallied(longer, used) /\ Sifted(longer)
      /\ Sealed(longer, FALSE) /\ Routed(longer, Len(rows)) /\ Done(longer, rows)
  <2>1. /\ Permissions \subseteq OpenKinds /\ Permissions \cap Marks = {}
        /\ "provider_turn_completed" \notin Permissions
        /\ Permissions \cap {"author_actions_resolved", "candidate_set_filtered",
                          "candidate_rejected", "launchable_candidate_sealed",
                          "candidate_selected"} = {}
        /\ Permissions \cap EvaluationKinds = {}
        /\ "evaluation_attempt_started" \notin Permissions
        /\ Permissions \cap {"candidate_set_filtered", "candidate_rejected",
                          "author_actions_resolved"} = {}
        /\ "launchable_candidate_sealed" \notin Permissions
        /\ "diagnosis_routed" \notin Permissions
    BY OpenAre DEF Permissions, Marks, EvaluationKinds, SearchKinds
  <2>2. \A i \in 1..Len(longer) :
            i > Len(log) /\ TurnBearing(longer[i]) => longer[i].turn = now
    BY <1>2
  <2>3. \A i \in 1..Len(longer) : i > Len(log) /\ Settling(longer[i])
            => longer[i].turn \notin 1..Len(rows)
    BY <1>2
  <2>4. /\ Permissions \subseteq OpenKinds => Formed(longer)
        /\ (\A i \in 1..Len(longer) :
               i > Len(log) /\ TurnBearing(longer[i]) => longer[i].turn = now)
           => Ordered(longer, now)
        /\ Permissions \cap Marks = {} => Counted(longer, Len(rows))
        /\ "provider_turn_completed" \notin Permissions => Paid(longer, rows, spent)
        /\ Permissions \cap {"author_actions_resolved", "candidate_set_filtered",
                       "candidate_rejected", "launchable_candidate_sealed",
                       "candidate_selected"} = {} => Preceded(longer)
        /\ Permissions \cap EvaluationKinds = {} /\ "nothing" # "answer" => Chained(longer, FALSE)
        /\ "evaluation_attempt_started" \notin Permissions => Tallied(longer, used)
        /\ Permissions \cap {"candidate_set_filtered", "candidate_rejected",
                       "author_actions_resolved"} = {} => Sifted(longer)
        /\ "launchable_candidate_sealed" \notin Permissions /\ "nothing" # "start"
           => Sealed(longer, FALSE)
        /\ "diagnosis_routed" \notin Permissions
           => Routed(longer, IF "nothing" = "selection" THEN Len(rows) + 1 ELSE Len(rows))
        /\ (\A i \in 1..Len(longer) : i > Len(log) /\ Settling(longer[i])
               => longer[i].turn \notin 1..Len(rows))
           => Done(longer, rows)
    <3>1. /\ Adds(log, longer, Permissions) /\ now \in Nat /\ Len(rows) \in Nat
          /\ Logged(log, now, clock, rows, spent, permits, used, "nothing")
      BY <1>1
    <3> QED
      BY ONLY <3>1, LoggedKept
  <2> QED
    BY <2>1, <2>2, <2>3, <2>4
<1>6. ASSUME NEW i \in 1..Len(longer), i > Len(log), Clocked(longer[i])
      PROVE  ClockOf(longer[i]) = IF i = Len(log) + 1 THEN clock ELSE tick
  <2>1. longer[i].kind \in Permissions
    BY <1>1, <1>6 DEF Adds
  <2>2. ClockOf(longer[i]) = longer[i].clock /\ longer[i].kind # "compilation_refused"
    BY <1>6, <2>1 DEF ClockOf, Clocked, Permissions
  <2>3. PICK p \in 1..granted : i = Len(log) + 2 * p - 1 \/ i = Len(log) + 2 * p
    BY <1>2, <1>6, <2>2
  <2>4. CASE i = Len(log) + 2 * p - 1
    <3>1. longer[i].clock = IF p = 1 THEN clock ELSE tick
      BY <1>3, <2>4
    <3>2. i = Len(log) + 1 <=> p = 1
      BY <1>1, <2>4
    <3> QED
      BY <2>2, <3>1, <3>2
  <2>5. CASE i = Len(log) + 2 * p
    <3>1. Len(log) + 2 * p - 1 + 1 = i /\ i # Len(log) + 1
      BY <1>1, <2>5
    <3>2. longer[i].clock = tick
      BY <1>3, <3>1
    <3> QED
      BY <2>2, <3>1, <3>2
  <2> QED
    BY <2>3, <2>4, <2>5
<1>7. Dated(longer, tick)
  <2>1. \A i \in 1..Len(longer) : i > Len(log) /\ Clocked(longer[i])
              => /\ ClockOf(longer[i]) \in Nat
                 /\ clock <= ClockOf(longer[i]) /\ ClockOf(longer[i]) <= tick
    BY <1>6
  <2>2. \A i, j \in 1..Len(longer) :
              i > Len(log) /\ i < j /\ Clocked(longer[i]) /\ Clocked(longer[j])
              => ClockOf(longer[i]) <= ClockOf(longer[j])
    <3> SUFFICES ASSUME NEW i \in 1..Len(longer), NEW j \in 1..Len(longer),
                        i > Len(log), i < j, Clocked(longer[i]), Clocked(longer[j])
                 PROVE  ClockOf(longer[i]) <= ClockOf(longer[j])
      OBVIOUS
    <3>1. j > Len(log) /\ j # Len(log) + 1
      BY <1>1
    <3>2. ClockOf(longer[j]) = tick
      BY <1>6, <3>1
    <3>3. ClockOf(longer[i]) = IF i = Len(log) + 1 THEN clock ELSE tick
      BY <1>6
    <3> QED
      BY <3>2, <3>3
  <2>3. Dated(log, clock)
    BY DEF Logged
  <2> QED
    BY <1>1, <2>1, <2>2, <2>3, DatedGrows
<1>8. ASSUME NEW i \in At(longer, "compilation_refused"), i > Len(log)
      PROVE  longer[i].candidate = candidate /\ Len(written) = 2 * granted + 1
  <2>1. i \in 1..Len(longer) /\ longer[i].kind = "compilation_refused"
    BY <1>1 DEF At, Grown, IsLog
  <2>2. ASSUME NEW p \in 1..granted, i = Len(log) + 2 * p - 1 PROVE FALSE
    BY <1>3, <2>1, <2>2
  <2>3. ASSUME NEW p \in 1..granted, i = Len(log) + 2 * p PROVE FALSE
    <3>1. Len(log) + 2 * p - 1 + 1 = i
      BY <1>1, <2>3
    <3>2. longer[i].kind = "compilation_completed"
      BY <1>3, <3>1
    <3> QED
      BY <2>1, <3>2
  <2>4. i = Len(log) + 2 * granted + 1 /\ i = Len(longer) /\ longer[i].candidate = candidate
    BY <1>2, <1>8, <2>1, <2>2, <2>3
  <2> QED
    BY <1>1, <1>15, <2>4
<1>10. Logged(longer, now, tick, rows, spent, permits + granted, used, "nothing")
  BY <1>1, <1>4, <1>5, <1>7 DEF Logged
<1>11. RefusedLast(log, longer, candidate, Len(written) = 2 * granted + 1)
  BY <1>8 DEF RefusedLast
<1> QED
  BY <1>1, <1>10, <1>11 DEF longer

-------------------------------------------------------------------------------
(* One turn's filter, and a rejection of each candidate it turns down *)

Filtering(written, now, order, rejects) ==
    /\ IsSequence(written) /\ Len(rejects) \in Nat /\ Len(written) = Len(rejects) + 1
    /\ written[1].kind = "candidate_set_filtered"
    /\ written[1].turn = now /\ written[1].order = order
    /\ \A n \in 1..Len(rejects) :
          /\ written[n + 1].kind = "candidate_rejected" /\ written[n + 1].turn = now
          /\ written[n + 1].candidate = rejects[n].candidate

TurnedDown(order, rejects) ==
    /\ \A n \in 1..Len(rejects) : \E m \in DOMAIN order :
          order[m].candidate = rejects[n].candidate /\ ~order[m].launchable
    /\ \A m \in DOMAIN order : ~order[m].launchable =>
          \E n \in 1..Len(rejects) : rejects[n].candidate = order[m].candidate
    /\ \A n, m \in 1..Len(rejects) : rejects[n].candidate = rejects[m].candidate => n = m

LEMMA NumberedAdded ==
    ASSUME NEW log, NEW longer, Grown(log, longer), NEW kind, NEW settled \in Nat,
           NEW at \in 1..Len(longer), at > Len(log),
           longer[at].kind = kind, longer[at].turn = settled + 1,
           \A i \in 1..Len(longer) : i > Len(log) /\ longer[i].kind = kind => i = at,
           Numbered(log, kind, settled), AtTurn(log, kind, settled + 1) = {}
    PROVE  /\ Numbered(longer, kind, settled)
           /\ At(longer, kind) = At(log, kind) \cup {at}
           /\ AtTurn(longer, kind, settled + 1) = {at}
           /\ \A i \in At(log, kind) : longer[i] = log[i] /\ i \in 1..Len(log)
<1>1. \A i \in At(log, kind) : longer[i] = log[i] /\ i \in 1..Len(log) /\ i \in At(longer, kind)
  BY AtMore
<1>2. ASSUME NEW i \in At(longer, kind) PROVE i \in At(log, kind) \/ i = at
  <2>1. i \in 1..Len(longer) /\ longer[i].kind = kind
    BY DEF At, Grown, IsLog
  <2>2. CASE i > Len(log)
    BY <2>1, <2>2
  <2>3. CASE ~(i > Len(log))
    <3>1. i <= Len(log)
      BY <2>1, <2>3 DEF Grown, IsLog
    <3> QED
      BY <3>1, AtMore
  <2> QED
    BY <2>2, <2>3
<1>3. at \in At(longer, kind) /\ DOMAIN log \subseteq DOMAIN longer
  BY DEF At, Grown, IsLog
<1>4. At(longer, kind) = At(log, kind) \cup {at}
  BY <1>1, <1>2, <1>3
<1>5. AtTurn(longer, kind, settled + 1) = {at}
  BY <1>1, <1>4 DEF AtTurn
<1>6. ASSUME NEW t \in 1..settled PROVE \E i \in DOMAIN longer : AtTurn(longer, kind, t) = {i}
  <2>1. t # settled + 1
    OBVIOUS
  <2>2. AtTurn(longer, kind, t) = AtTurn(log, kind, t)
    BY <1>1, <1>4, <2>1 DEF AtTurn
  <2> QED
    BY <1>3, <2>2 DEF Numbered
<1>7. \A i \in At(longer, kind) : longer[i].turn \in 1..(settled + 1)
  BY <1>1, <1>4 DEF Numbered
<1> QED
  BY <1>1, <1>4, <1>5, <1>6, <1>7 DEF Numbered

(* The order holds what the turn resolved; what was refused a permit is not *)
(* launchable.                                                             *)
Sought(log, now, order) ==
    /\ Len(order) = Len(Resolved(log, now))
    /\ {order[n].candidate : n \in DOMAIN order} = Submitted(log, now)
    /\ \A i \in AtTurn(log, "compilation_refused", now) : \A n \in DOMAIN order :
          order[n].candidate = log[i].candidate => ~order[n].launchable
FilteredTo(log, longer, now, order) ==
    /\ Adds(log, longer, {"candidate_set_filtered", "candidate_rejected"})
    /\ AtTurn(longer, "candidate_set_filtered", now) = {Len(log) + 1}
    /\ Len(log) + 1 \in 1..Len(longer) /\ longer[Len(log) + 1].order = order

LEMMA FilterLogged ==
    ASSUME NEW log, NEW written, NEW now \in Nat, NEW clock \in Nat, NEW rows, NEW spent,
           NEW permits, NEW used, NEW order \in Seq(Row), NEW rejects,
           Len(rows) \in Nat, now = Len(rows) + 1,
           Logged(log, now, clock, rows, spent, permits, used, "nothing"),
           Filtering(written, now, order, rejects), TurnedDown(order, rejects),
           AtTurn(log, "author_actions_resolved", now) # {},
           AtTurn(log, "candidate_set_filtered", now) = {},
           Sought(log, now, order)
    PROVE  /\ Logged(log \o written, now, clock, rows, spent, permits, used, "nothing")
           /\ FilteredTo(log, log \o written, now, order)
<1> DEFINE longer == log \o written
           K == {"candidate_set_filtered", "candidate_rejected"}
           at == Len(log) + 1
<1>0. /\ Len(order) = Len(Resolved(log, now))
      /\ {order[n].candidate : n \in DOMAIN order} = Submitted(log, now)
      /\ \A i \in AtTurn(log, "compilation_refused", now) : \A n \in DOMAIN order :
            order[n].candidate = log[i].candidate => ~order[n].launchable
  BY Zenon DEF Sought
<1>1. /\ IsSequence(log) /\ IsSequence(written) /\ Len(rejects) \in Nat
      /\ Len(written) = Len(rejects) + 1
  BY DEF Logged, Filtering
<1>2. /\ Grown(log, longer) /\ IsSequence(longer)
      /\ Len(longer) = Len(log) + Len(written)
      /\ \A n \in 1..Len(written) : longer[Len(log) + n] = written[n]
  BY <1>1, GrowsBy
<1>3. Len(log) \in Nat /\ Len(longer) = Len(log) + Len(rejects) + 1
      /\ at \in 1..Len(longer) /\ at > Len(log)
  BY <1>1, <1>2 DEF Grown, IsLog
<1>4. longer[at].kind = "candidate_set_filtered" /\ longer[at].turn = now /\ longer[at].order = order
  <2>1. longer[at] = written[1]
    BY <1>1, <1>2
  <2> QED
    BY <2>1 DEF Filtering
<1>5. ASSUME NEW n \in 1..Len(rejects)
      PROVE  /\ at + n \in 1..Len(longer) /\ longer[at + n].kind = "candidate_rejected"
             /\ longer[at + n].turn = now /\ longer[at + n].candidate = rejects[n].candidate
  <2>1. n + 1 \in 1..Len(written) /\ at + n = Len(log) + (n + 1) /\ at + n \in 1..Len(longer)
    BY <1>1, <1>3
  <2>2. longer[at + n] = written[n + 1]
    BY <1>2, <2>1
  <2> HIDE DEF longer, at
  <2> QED
    BY <2>1, <2>2 DEF Filtering
<1>6. ASSUME NEW i \in 1..Len(longer), i > Len(log), i # at
      PROVE  i - at \in 1..Len(rejects) /\ i = at + (i - at)
  BY <1>1, <1>3, <1>6
<1> HIDE DEF longer, at, K
<1>7. ASSUME NEW i \in 1..Len(longer), i > Len(log)
      PROVE  /\ longer[i].kind \in K /\ longer[i].turn = now
             /\ longer[i].kind = "candidate_set_filtered" => i = at
             /\ longer[i].kind = "candidate_rejected" =>
                  \E n \in 1..Len(rejects) : i = at + n
                                             /\ longer[i].candidate = rejects[n].candidate
  <2>1. CASE i = at
    BY <2>1, <1>4 DEF K
  <2>2. CASE i # at
    <3>1. i - at \in 1..Len(rejects) /\ i = at + (i - at)
      BY <1>6, <1>7, <2>2
    <3> DEFINE n == i - at
    <3>2. n \in 1..Len(rejects) /\ i = at + n
      BY <3>1
    <3> HIDE DEF n
    <3> QED
      BY <1>5, <3>2 DEF K
  <2> QED
    BY <2>1, <2>2
<1>8. Adds(log, longer, K)
  BY <1>2, <1>7 DEF Adds
<1>9. /\ Formed(longer) /\ Ordered(longer, now) /\ Paid(longer, rows, spent)
      /\ Chained(longer, FALSE) /\ Tallied(longer, used)
      /\ Sealed(longer, FALSE) /\ Routed(longer, Len(rows)) /\ Done(longer, rows)
  <2>1. /\ K \subseteq OpenKinds
        /\ "provider_turn_completed" \notin K
        /\ K \cap EvaluationKinds = {}
        /\ "evaluation_attempt_started" \notin K
        /\ "launchable_candidate_sealed" \notin K
        /\ "diagnosis_routed" \notin K
    BY OpenAre DEF K, EvaluationKinds, SearchKinds
  <2>2. \A i \in 1..Len(longer) :
            i > Len(log) /\ TurnBearing(longer[i]) => longer[i].turn = now
    BY <1>7
  <2>3. \A i \in 1..Len(longer) : i > Len(log) /\ Settling(longer[i])
            => longer[i].turn \notin 1..Len(rows)
    BY <1>7
  <2>4. /\ K \subseteq OpenKinds => Formed(longer)
        /\ (\A i \in 1..Len(longer) :
               i > Len(log) /\ TurnBearing(longer[i]) => longer[i].turn = now)
           => Ordered(longer, now)
        /\ "provider_turn_completed" \notin K => Paid(longer, rows, spent)
        /\ K \cap EvaluationKinds = {} /\ "nothing" # "answer" => Chained(longer, FALSE)
        /\ "evaluation_attempt_started" \notin K => Tallied(longer, used)
        /\ "launchable_candidate_sealed" \notin K /\ "nothing" # "start"
           => Sealed(longer, FALSE)
        /\ "diagnosis_routed" \notin K
           => Routed(longer, IF "nothing" = "selection" THEN Len(rows) + 1 ELSE Len(rows))
        /\ (\A i \in 1..Len(longer) : i > Len(log) /\ Settling(longer[i])
               => longer[i].turn \notin 1..Len(rows))
           => Done(longer, rows)
    BY <1>8, LoggedKept
  <2> QED
    BY <2>1, <2>2, <2>3, <2>4
<1>10. Dated(longer, clock)
  <2>1. \A i \in 1..Len(longer) : i > Len(log) => ~Clocked(longer[i])
    BY <1>7 DEF K, Clocked
  <2>2. Dated(log, clock) /\ clock <= clock
    BY DEF Logged
  <2> QED
    BY <1>2, <2>1, <2>2, DatedGrows
<1>11. /\ Numbered(longer, "candidate_set_filtered", Len(rows))
       /\ At(longer, "candidate_set_filtered") = At(log, "candidate_set_filtered") \cup {at}
       /\ AtTurn(longer, "candidate_set_filtered", now) = {at}
       /\ \A i \in At(log, "candidate_set_filtered") : longer[i] = log[i] /\ i \in 1..Len(log)
  <2>1. Numbered(log, "candidate_set_filtered", Len(rows))
    BY DEF Logged, Counted
  <2>2. \A i \in 1..Len(longer) :
           i > Len(log) /\ longer[i].kind = "candidate_set_filtered" => i = at
    BY <1>7
  <2>3. /\ longer[at].kind = "candidate_set_filtered" /\ longer[at].turn = Len(rows) + 1
        /\ AtTurn(log, "candidate_set_filtered", Len(rows) + 1) = {}
    BY <1>4
  <2>4. /\ Numbered(longer, "candidate_set_filtered", Len(rows))
        /\ At(longer, "candidate_set_filtered") = At(log, "candidate_set_filtered") \cup {at}
        /\ AtTurn(longer, "candidate_set_filtered", Len(rows) + 1) = {at}
        /\ \A i \in At(log, "candidate_set_filtered") : longer[i] = log[i] /\ i \in 1..Len(log)
    BY <1>2, <1>3, <2>1, <2>2, <2>3, NumberedAdded
  <2> QED
    BY <2>4
<1>12. Counted(longer, Len(rows))
  <2> SUFFICES ASSUME NEW mark \in Marks PROVE Numbered(longer, mark, Len(rows))
    BY DEF Counted, Marks
  <2>1. CASE mark = "candidate_set_filtered"
    BY <1>11, <2>1
  <2>2. CASE mark # "candidate_set_filtered"
    <3>1. Numbered(log, mark, Len(rows)) /\ mark \notin K
      BY <2>2 DEF Logged, Counted, Marks, K
    <3> QED
      BY <1>8, <3>1, NumberedKept
  <2> QED
    BY <2>1, <2>2
<1>13. \A t : AtTurn(longer, "author_actions_resolved", t) = AtTurn(log, "author_actions_resolved", t)
  <2>1. "author_actions_resolved" \notin K
    BY DEF K
  <2> QED
    BY <1>8, <2>1, AtSame
<1>14. Preceded(longer)
  <2>1. PICK j \in AtTurn(log, "author_actions_resolved", now) : TRUE
    OBVIOUS
  <2>2. j \in AtTurn(longer, "author_actions_resolved", now) /\ j \in 1..Len(log)
    BY <1>2, AtTurnMore
  <2>3. \A i \in 1..Len(longer) : i > Len(log) =>
           j < i /\ longer[i].turn = now /\ longer[i].kind # "author_actions_resolved"
    BY <1>3, <1>7, <2>2 DEF K
  <2>4. Preceded(log)
    BY DEF Logged
  <2> QED
    BY <1>2, <2>2, <2>3, <2>4, PrecededGrows
<1>15. Permits(longer, permits)
  <2>1. ASSUME NEW i \in At(log, "compilation_refused") PROVE Unlaunched(longer, i)
    <3>1. i \in 1..Len(log) /\ longer[i] = log[i]
      BY <1>2, AtMore
    <3>2. Unlaunched(log, i)
      BY DEF Logged, Permits
    <3>3. ASSUME NEW j \in AtTurn(longer, "candidate_set_filtered", log[i].turn)
          PROVE  \A n \in DOMAIN longer[j].order :
                    longer[j].order[n].candidate = log[i].candidate
                    => ~longer[j].order[n].launchable
      <4>1. CASE j = at
        <5>1. log[i].turn = now
          BY <1>4, <4>1 DEF AtTurn
        <5>2. i \in AtTurn(log, "compilation_refused", now)
          BY <5>1 DEF AtTurn
        <5> QED
          BY <1>0, <1>4, <4>1, <5>2
      <4>2. CASE j # at
        <5>1. j \in At(log, "candidate_set_filtered") /\ longer[j] = log[j]
          BY <1>11, <4>2 DEF AtTurn
        <5>2. j \in AtTurn(log, "candidate_set_filtered", log[i].turn)
          BY <5>1 DEF AtTurn
        <5> QED
          BY <3>2, <5>1, <5>2 DEF Unlaunched
      <4> QED
        BY <4>1, <4>2
    <3> QED
      BY <3>1, <3>3 DEF Unlaunched
  <2>2. K \cap {"compilation_started", "compilation_completed", "compilation_refused"} = {}
    BY DEF K
  <2>3. Permits(log, permits)
    BY DEF Logged
  <2> QED
    BY <1>8, <1>13, <2>1, <2>2, <2>3, PermitsKept
<1>16. Sifted(log)
  BY DEF Logged
<1>17. ASSUME NEW i \in At(log, "candidate_rejected") PROVE log[i].turn # now
  BY <1>16 DEF Sifted
<1>18. ASSUME NEW i \in At(longer, "candidate_rejected")
       PROVE  \/ i \in At(log, "candidate_rejected") /\ longer[i] = log[i] /\ longer[i].turn # now
              \/ \E n \in 1..Len(rejects) : /\ i = at + n /\ longer[i].turn = now
                                            /\ longer[i].candidate = rejects[n].candidate
  <2>1. i \in 1..Len(longer) /\ longer[i].kind = "candidate_rejected"
    BY <1>2 DEF At, Grown, IsLog
  <2>2. CASE i > Len(log)
    BY <1>7, <2>1, <2>2
  <2>3. CASE ~(i > Len(log))
    <3>1. i <= Len(log)
      BY <1>3, <2>1, <2>3
    <3>2. i \in At(log, "candidate_rejected")
      BY <1>2, <3>1, AtMore
    <3>3. longer[i] = log[i]
      BY <1>2, <3>2, AtMore
    <3> QED
      BY <1>17, <3>2, <3>3
  <2> QED
    BY <2>2, <2>3
<1>19. ASSUME NEW i \in At(longer, "candidate_set_filtered")
       PROVE  /\ longer[i].order \in Seq(Row) /\ FilterReplays(longer, longer[i].turn)
              /\ \A n \in DOMAIN longer[i].order : ~longer[i].order[n].launchable =>
                    \E j \in AtTurn(longer, "candidate_rejected", longer[i].turn) :
                        longer[j].candidate = longer[i].order[n].candidate
  <2>1. CASE i = at
    <3>1. FilterReplays(longer, now)
      <4>1. Resolved(longer, now) = Resolved(log, now) /\ Submitted(longer, now) = Submitted(log, now)
        BY <1>2, <1>13, ResolvedSame
      <4> QED
        BY <1>0, <1>4, <1>11, <4>1 DEF FilterReplays
    <3>2. ASSUME NEW n \in DOMAIN order, ~order[n].launchable
          PROVE  \E j \in AtTurn(longer, "candidate_rejected", now) :
                    longer[j].candidate = order[n].candidate
      <4>1. PICK m \in 1..Len(rejects) : rejects[m].candidate = order[n].candidate
        BY <3>2 DEF TurnedDown
      <4>2. at + m \in AtTurn(longer, "candidate_rejected", now)
        BY <1>2, <1>5 DEF AtTurn, At, Grown, IsLog
      <4> QED
        BY <1>5, <4>1, <4>2
    <3> QED
      BY <1>4, <2>1, <3>1, <3>2
  <2>2. CASE i # at
    <3>1. i \in At(log, "candidate_set_filtered") /\ longer[i] = log[i]
      BY <1>11, <2>2
    <3>2. log[i].turn # now
      BY <3>1 DEF AtTurn
    <3>3. AtTurn(longer, "candidate_set_filtered", log[i].turn)
             = AtTurn(log, "candidate_set_filtered", log[i].turn)
      <4>1. \A k \in 1..Len(longer) :
               k > Len(log) /\ longer[k].kind = "candidate_set_filtered"
               => longer[k].turn # log[i].turn
        BY <1>7, <3>2
      <4> QED
        BY <1>2, <4>1, AtTurnApart
    <3>4. \A k \in At(log, "candidate_set_filtered") :
              /\ longer[k].order \in Seq(Row)
              /\ AtTurn(longer, "candidate_set_filtered", log[k].turn)
                   = AtTurn(log, "candidate_set_filtered", log[k].turn)
                 => FilterReplays(longer, longer[k].turn)
              /\ \A n \in DOMAIN longer[k].order : ~longer[k].order[n].launchable =>
                    \E j \in AtTurn(longer, "candidate_rejected", longer[k].turn) :
                        longer[j].candidate = longer[k].order[n].candidate
      <4>1. \A k \in At(log, "candidate_set_filtered") :
                AtTurn(longer, "author_actions_resolved", log[k].turn)
                   = AtTurn(log, "author_actions_resolved", log[k].turn)
        BY <1>13
      <4> QED
        <5>1. \A k \in At(log, "candidate_set_filtered") : FilterStays(log, longer, k)
          BY <1>2, <1>16, <4>1, FilterGrows
        <5> QED
          BY <5>1 DEF FilterStays
    <3> QED
      BY <3>1, <3>3, <3>4
  <2> QED
    BY <2>1, <2>2
<1>20. ASSUME NEW i \in At(longer, "candidate_rejected")
       PROVE  \E j \in AtTurn(longer, "candidate_set_filtered", longer[i].turn) :
              \E n \in DOMAIN longer[j].order :
                  /\ longer[j].order[n].candidate = longer[i].candidate
                  /\ ~longer[j].order[n].launchable
  <2>1. CASE i \in At(log, "candidate_rejected") /\ longer[i] = log[i]
    <3>1. PICK j \in AtTurn(log, "candidate_set_filtered", log[i].turn) :
             \E n \in DOMAIN log[j].order : /\ log[j].order[n].candidate = log[i].candidate
                                            /\ ~log[j].order[n].launchable
      BY <1>16, <2>1 DEF Sifted
    <3>2. j \in AtTurn(longer, "candidate_set_filtered", log[i].turn) /\ longer[j] = log[j]
      BY <1>2, AtTurnMore
    <3> QED
      BY <2>1, <3>1, <3>2
  <2>2. ASSUME NEW n \in 1..Len(rejects), longer[i].turn = now,
               longer[i].candidate = rejects[n].candidate
        PROVE  \E j \in AtTurn(longer, "candidate_set_filtered", longer[i].turn) :
               \E m \in DOMAIN longer[j].order :
                  /\ longer[j].order[m].candidate = longer[i].candidate
                  /\ ~longer[j].order[m].launchable
    <3>1. PICK m \in DOMAIN order : order[m].candidate = rejects[n].candidate
                                    /\ ~order[m].launchable
      BY DEF TurnedDown
    <3> QED
      BY <1>4, <1>11, <2>2, <3>1
  <2> QED
    BY <1>18, <2>1, <2>2
<1>21. ASSUME NEW i \in At(longer, "candidate_rejected"), NEW j \in At(longer, "candidate_rejected"),
              longer[i].turn = longer[j].turn, longer[i].candidate = longer[j].candidate
       PROVE  i = j
  <2>1. CASE longer[i].turn = now
    <3>1. PICK n \in 1..Len(rejects) : i = at + n /\ longer[i].candidate = rejects[n].candidate
      BY <1>18, <2>1
    <3>2. PICK m \in 1..Len(rejects) : j = at + m /\ longer[j].candidate = rejects[m].candidate
      BY <1>18, <1>21, <2>1
    <3>3. n = m
      BY <1>21, <3>1, <3>2 DEF TurnedDown
    <3> QED
      BY <3>1, <3>2, <3>3
  <2>2. CASE longer[i].turn # now
    <3>1. /\ i \in At(log, "candidate_rejected") /\ longer[i] = log[i]
          /\ j \in At(log, "candidate_rejected") /\ longer[j] = log[j]
      BY <1>18, <1>21, <2>2
    <3> QED
      BY <1>16, <1>21, <3>1 DEF Sifted
  <2> QED
    BY <2>1, <2>2
<1>22. Sifted(longer)
  BY <1>19, <1>20, <1>21 DEF Sifted
<1>23. Logged(longer, now, clock, rows, spent, permits, used, "nothing")
  BY <1>2, <1>9, <1>10, <1>12, <1>14, <1>15, <1>22 DEF Logged
<1>24. FilteredTo(log, longer, now, order)
  BY <1>3, <1>4, <1>8, <1>11 DEF FilteredTo, at, K
<1> QED
  BY <1>23, <1>24 DEF longer

-------------------------------------------------------------------------------
(* The order a turn's builds are filtered into: the same rows *)

Separate(rows) == \A i, j \in 1..Len(rows) : rows[i].candidate = rows[j].candidate => i = j

Picked(rows, D, s) ==
    /\ IsFiniteSet(D) /\ Cardinality(D) \in Nat /\ Len(s) = Cardinality(D)
    /\ IsSequence(s)
    /\ \A n \in 1..Len(s) : \E i \in D : s[n] = rows[i]
    /\ \A i \in D : \E n \in 1..Len(s) : s[n] = rows[i]
    /\ Separate(rows) => Separate(s)

LEMMA RowsChosen ==
    ASSUME NEW rows, NEW D, D \subseteq 1..Len(rows), Len(rows) \in Nat
    PROVE  Picked(rows, D, AtPositions(rows, D))
<1> DEFINE s == AtPositions(rows, D)
<1>1. IsFiniteSet(D) /\ D \subseteq Nat
  <2>1. IsFiniteSet(1..Len(rows))
    BY FS_Interval
  <2>2. IsFiniteSet(D)
    BY <2>1, FS_Subset
  <2> QED
    BY <2>2
<1>2. /\ Cardinality(D) \in Nat /\ IsSequence(s) /\ Len(s) = Cardinality(D)
      /\ \A i \in D : /\ Earlier(D, i) + 1 \in 1..Cardinality(D)
                      /\ s[Earlier(D, i) + 1] = rows[i]
      /\ \A n \in 1..Cardinality(D) : \E i \in D : n = Earlier(D, i) + 1
  BY <1>1, RowsAt
<1> HIDE DEF s
<1>3. \A n \in 1..Len(s) : \E i \in D : n = Earlier(D, i) + 1 /\ s[n] = rows[i]
  BY <1>2
<1>4. ASSUME Separate(rows) PROVE Separate(s)
  <2> SUFFICES ASSUME NEW n \in 1..Len(s), NEW m \in 1..Len(s), s[n].candidate = s[m].candidate
               PROVE  n = m
    BY DEF Separate
  <2>1. PICK i \in D : n = Earlier(D, i) + 1 /\ s[n] = rows[i]
    BY <1>3
  <2>2. PICK j \in D : m = Earlier(D, j) + 1 /\ s[m] = rows[j]
    BY <1>3
  <2>3. i = j
    BY <1>4, <2>1, <2>2 DEF Separate
  <2> QED
    BY <2>1, <2>2, <2>3
<1>5. \A i \in D : \E n \in 1..Len(s) : s[n] = rows[i]
  BY <1>2
<1> QED
  BY <1>1, <1>2, <1>3, <1>4, <1>5 DEF s, Picked

(* A sequence of the survivors, then the rejects, has the rows of both.    *)
LEMMA RowsJoined ==
    ASSUME NEW s, NEW t, IsSequence(s), IsSequence(t)
    PROVE  /\ Len(s) \in Nat /\ Len(t) \in Nat /\ Len(s \o t) = Len(s) + Len(t)
           /\ IsSequence(s \o t)
           /\ \A n \in 1..Len(s) : n \in 1..Len(s \o t) /\ (s \o t)[n] = s[n]
           /\ \A n \in 1..Len(t) : Len(s) + n \in 1..Len(s \o t) /\ (s \o t)[Len(s) + n] = t[n]
           /\ \A n \in 1..Len(s \o t) :
                 \/ n \in 1..Len(s)
                 \/ n - Len(s) \in 1..Len(t) /\ n = Len(s) + (n - Len(s))
<1>1. Len(s) \in Nat /\ Len(t) \in Nat
  BY SequenceFacts
<1>2. /\ IsSequence(s \o t) /\ Len(s \o t) = Len(s) + Len(t)
      /\ \A i \in 1..Len(s) : (s \o t)[i] = s[i]
      /\ \A i \in 1..Len(t) : (s \o t)[Len(s) + i] = t[i]
  BY ConcatIsSequence
<1> QED
  BY <1>1, <1>2

LEMMA FilterOrderRows ==
    ASSUME built \in Seq(Row)
    PROVE  /\ FilterOrder \in Seq(Row) /\ Len(FilterOrder) = Len(built) /\ Len(Rejects) \in Nat
           /\ \A n \in 1..Len(FilterOrder) : \E m \in 1..Len(built) : FilterOrder[n] = built[m]
           /\ \A m \in 1..Len(built) : \E n \in 1..Len(FilterOrder) : FilterOrder[n] = built[m]
           /\ Separate(built) => Separate(FilterOrder) /\ TurnedDown(FilterOrder, Rejects)
<1> DEFINE up == {n \in 1..Len(built) : built[n].launchable}
           down == {n \in 1..Len(built) : ~built[n].launchable}
           s == Survivors
           t == Rejects
           order == s \o t
<1>1. Len(built) \in Nat /\ DOMAIN built = 1..Len(built)
  OBVIOUS
<1>2. /\ IsFiniteSet(up) /\ Cardinality(up) \in Nat /\ Len(s) = Cardinality(up) /\ IsSequence(s)
      /\ \A n \in 1..Len(s) : \E i \in up : s[n] = built[i]
      /\ \A i \in up : \E n \in 1..Len(s) : s[n] = built[i]
      /\ Separate(built) => Separate(s)
  <2>1. Picked(built, up, AtPositions(built, up))
    BY <1>1, RowsChosen
  <2> QED
    BY <2>1 DEF Picked, Survivors
<1>3. /\ IsFiniteSet(down) /\ Cardinality(down) \in Nat /\ Len(t) = Cardinality(down)
      /\ IsSequence(t)
      /\ \A n \in 1..Len(t) : \E i \in down : t[n] = built[i]
      /\ \A i \in down : \E n \in 1..Len(t) : t[n] = built[i]
      /\ Separate(built) => Separate(t)
  <2>1. Picked(built, down, AtPositions(built, down))
    BY <1>1, RowsChosen
  <2> QED
    BY <2>1 DEF Picked, Rejects
<1>4. FilterOrder = order /\ FilterOrder \in Seq(Row)
  BY FilterOrderType DEF FilterOrder
<1>5. \A m \in 1..Len(built) : m \in up \/ m \in down
  OBVIOUS
<1>6. Cardinality(up) + Cardinality(down) = Len(built)
  <2>1. up \cup down = 1..Len(built) /\ up \cap down = {}
    OBVIOUS
  <2>5. IsFiniteSet(up) /\ IsFiniteSet(down)
    BY <1>2, <1>3
  <2> HIDE DEF up, down
  <2>2. Cardinality(up \cup down) = Cardinality(up) + Cardinality(down) - Cardinality(up \cap down)
    BY ONLY <2>5, FS_Union
  <2>3. Cardinality(1..Len(built)) = Len(built)
    BY <1>1, FS_Interval, SMTT(30)
  <2>4. Cardinality({}) = 0
    BY FS_EmptySet
  <2>6. Cardinality(up) \in Nat /\ Cardinality(down) \in Nat
    BY <1>2, <1>3
  <2> QED
    <3>1. Cardinality(up \cup down) = Len(built)
      BY <2>1, <2>3, Zenon
    <3>2. Cardinality(up \cap down) = 0
      BY <2>1, <2>4, Zenon
    <3> QED
      BY <3>1, <3>2, <2>2, <2>6
<1>7. /\ \A i \in up : i \in 1..Len(built) /\ built[i].launchable
      /\ \A i \in down : i \in 1..Len(built) /\ ~built[i].launchable
  OBVIOUS
<1> HIDE DEF up, down, s, t
<1>8. /\ Len(s) \in Nat /\ Len(t) \in Nat /\ Len(order) = Len(s) + Len(t)
      /\ \A n \in 1..Len(s) : n \in 1..Len(order) /\ order[n] = s[n]
      /\ \A n \in 1..Len(t) : Len(s) + n \in 1..Len(order) /\ order[Len(s) + n] = t[n]
      /\ \A n \in 1..Len(order) :
            n \in 1..Len(s) \/ (n - Len(s) \in 1..Len(t) /\ n = Len(s) + (n - Len(s)))
  <2>1. IsSequence(s) /\ IsSequence(t)
    BY <1>2, <1>3
  <2> QED
    BY <2>1, RowsJoined
<1> HIDE DEF order
<1>9. ASSUME NEW n \in 1..Len(order)
      PROVE  \/ n \in 1..Len(s) /\ order[n] = s[n] /\ \E m \in up : order[n] = built[m]
             \/ /\ n > Len(s) /\ n - Len(s) \in 1..Len(t) /\ order[n] = t[n - Len(s)]
                /\ \E m \in down : order[n] = built[m]
  <2>1. CASE n \in 1..Len(s)
    BY <1>2, <1>8, <2>1, SMTT(30)
  <2>2. CASE n - Len(s) \in 1..Len(t)
    <3> DEFINE k == n - Len(s)
    <3>1. k \in 1..Len(t) /\ n = Len(s) + k /\ n > Len(s)
      BY <1>8, <2>2
    <3> HIDE DEF k
    <3>2. order[n] = t[k]
      BY <1>8, <3>1
    <3>3. \E m \in down : t[k] = built[m]
      BY <1>3, <3>1
    <3> QED
      BY <3>1, <3>2, <3>3 DEF k
  <2> QED
    BY <1>8, <2>1, <2>2
<1>10. ASSUME NEW m \in 1..Len(built) PROVE \E n \in 1..Len(order) : order[n] = built[m]
  <2>1. CASE m \in up
    BY <1>2, <1>8, <2>1
  <2>2. CASE m \in down
    BY <1>3, <1>8, <2>2
  <2> QED
    BY <1>5, <2>1, <2>2
<1>11. ASSUME Separate(built), NEW n \in 1..Len(order), NEW m \in 1..Len(order),
              order[n].candidate = order[m].candidate
       PROVE  n = m
  <2>1. PICK i \in 1..Len(built) : order[n] = built[i]
    BY <1>7, <1>9
  <2>2. PICK j \in 1..Len(built) : order[m] = built[j]
    BY <1>7, <1>9
  <2>3. order[n] = order[m]
    BY <1>11, <2>1, <2>2 DEF Separate
  <2>6. /\ \A k \in up : built[k].launchable
        /\ \A k \in down : ~built[k].launchable
    BY <1>7
  <2>7. \/ m \in 1..Len(s) /\ order[m] = s[m] /\ \E k \in up : order[m] = built[k]
        \/ /\ m > Len(s) /\ m - Len(s) \in 1..Len(t) /\ order[m] = t[m - Len(s)]
           /\ \E k \in down : order[m] = built[k]
    BY ONLY <1>9, m \in 1..Len(order)
  <2>4. CASE n \in 1..Len(s) /\ order[n] = s[n]
    <3>1. built[i].launchable
      BY <1>2, <1>7, <2>1, <2>4
    <3>2. m \in 1..Len(s) /\ order[m] = s[m]
      BY ONLY <2>1, <2>3, <2>6, <2>7, <3>1
    <3> QED
      BY <1>2, <1>11, <2>4, <3>2 DEF Separate
  <2>5. CASE n > Len(s) /\ n - Len(s) \in 1..Len(t) /\ order[n] = t[n - Len(s)]
    <3>1. ~built[i].launchable
      BY <1>3, <1>7, <2>1, <2>5
    <3>2. m > Len(s) /\ m - Len(s) \in 1..Len(t) /\ order[m] = t[m - Len(s)]
      BY ONLY <2>1, <2>3, <2>6, <2>7, <3>1
    <3>3. t[n - Len(s)].candidate = t[m - Len(s)].candidate
      BY ONLY <1>11, <2>5, <3>2
    <3>4. Separate(t)
      BY <1>3, <1>11
    <3>5. n - Len(s) = m - Len(s)
      BY ONLY <2>5, <3>2, <3>3, <3>4 DEF Separate
    <3> QED
      BY <1>8, <3>5
  <2> QED
    BY <1>9, <2>4, <2>5
<1>12. ASSUME Separate(built) PROVE TurnedDown(order, t)
  <2>1. \A n \in 1..Len(t) : Len(s) + n \in 1..Len(order) /\ order[Len(s) + n] = t[n]
                             /\ ~t[n].launchable
    BY <1>3, <1>7, <1>8
  <2>2. ASSUME NEW m \in 1..Len(order), ~order[m].launchable
        PROVE  \E n \in 1..Len(t) : t[n] = order[m]
    <3>1. \A k \in up : built[k].launchable
      BY <1>7
    <3>2. m - Len(s) \in 1..Len(t) /\ order[m] = t[m - Len(s)]
      BY <1>9, <2>2, <3>1
    <3> QED
      BY <3>2
  <2>3. DOMAIN order = 1..Len(order)
    BY <1>4
  <2> QED
    <3>1. \A n \in 1..Len(t) : \E m \in DOMAIN order :
             order[m].candidate = t[n].candidate /\ ~order[m].launchable
      BY <2>1, <2>3
    <3>2. \A m \in DOMAIN order : ~order[m].launchable =>
             \E n \in 1..Len(t) : t[n].candidate = order[m].candidate
      BY <2>2, <2>3
    <3>3. Separate(t)
      BY <1>3, <1>12
    <3> QED
      BY <3>1, <3>2, <3>3 DEF TurnedDown, Separate
<1>13. Separate(built) => Separate(order) /\ TurnedDown(order, t)
  BY <1>11, <1>12 DEF Separate
<1>14. \A n \in 1..Len(order) : \E m \in 1..Len(built) : order[n] = built[m]
  BY <1>7, <1>9
<1>15. Len(order) = Len(built)
  BY <1>2, <1>3, <1>6, <1>8
<1> QED
  BY <1>4, <1>8, <1>10, <1>13, <1>14, <1>15 DEF t

LEMMA FilterEventsFiltering ==
    ASSUME built \in Seq(Row)
    PROVE  Filtering(FilterEvents, turn, FilterOrder, Rejects)
<1> DEFINE first == [kind |-> "candidate_set_filtered", origin |-> "turn", turn |-> turn,
                     order |-> FilterOrder]
           rest == [n \in 1..Len(Rejects) |->
                      CandidateEvent("candidate_rejected", Rejects[n].candidate)]
<1>1. Len(Rejects) \in Nat
  BY FilterOrderRows
<1>2. \A n \in 1..Len(Rejects) :
         /\ rest[n].kind = "candidate_rejected" /\ rest[n].turn = turn
         /\ rest[n].candidate = Rejects[n].candidate
  BY DEF CandidateEvent
<1>3. first.kind = "candidate_set_filtered" /\ first.turn = turn /\ first.order = FilterOrder
  OBVIOUS
<1>4. FilterEvents = <<first>> \o rest
  BY DEF FilterEvents
<1>5. rest = [n \in 1..Len(Rejects) |-> rest[n]]
  OBVIOUS
<1> HIDE DEF first, rest
<1>6. IsSequence(rest) /\ Len(rest) = Len(Rejects)
  BY <1>1, <1>5, FunctionIsSequence
<1>7. IsSequence(<<first>>) /\ Len(<<first>>) = 1 /\ <<first>>[1] = first
  <2>1. <<first>> \in Seq({first})
    OBVIOUS
  <2> QED
    BY <2>1 DEF IsSequence
<1>8. /\ IsSequence(<<first>> \o rest) /\ Len(<<first>> \o rest) = Len(<<first>>) + Len(rest)
      /\ \A i \in 1..Len(<<first>>) : (<<first>> \o rest)[i] = <<first>>[i]
      /\ \A i \in 1..Len(rest) : (<<first>> \o rest)[Len(<<first>>) + i] = rest[i]
  BY <1>6, <1>7, ConcatIsSequence
<1>9. /\ IsSequence(FilterEvents) /\ Len(FilterEvents) = Len(Rejects) + 1
      /\ FilterEvents[1] = first
      /\ \A n \in 1..Len(Rejects) : FilterEvents[n + 1] = rest[n]
  BY <1>1, <1>4, <1>6, <1>7, <1>8
<1> QED
  BY <1>1, <1>2, <1>3, <1>9 DEF Filtering

(* A plan measures no candidate twice. *)
LEMMA PlanIsSeparate ==
    ASSUME NEW order \in Seq(Row), Separate(order)
    PROVE  /\ \A i, j \in 1..Len(SearchPlan(order)) :
                 SearchPlan(order)[i] = SearchPlan(order)[j] => i = j
           /\ \A n \in 1..Len(SearchPlan(order)) : \E m \in 1..Len(order) :
                 order[m].launchable /\ order[m].candidate = SearchPlan(order)[n]
<1> DEFINE R == SearchedRows(order)
           s == AtPositions(order, R)
<1>1. R \subseteq 1..Len(order) /\ Len(order) \in Nat
  BY SearchedRowsType
<1>2. IsSequence(s) /\ Len(s) \in Nat /\ Separate(s)
  <2>1. Picked(order, R, AtPositions(order, R))
    BY <1>1, RowsChosen
  <2> QED
    BY <2>1 DEF Picked
<1>3. SearchPlan(order) = [n \in 1..Len(s) |-> s[n].candidate]
  BY DEF SearchPlan, CandidatesOf
<1>4. Len(SearchPlan(order)) = Len(s)
  <2>1. Len(SearchPlan(order)) = Cardinality(R)
    BY SearchPlanFits
  <2> QED
    BY <1>1, <2>1, RowsChosen DEF Picked
<1> HIDE DEF s
<1>5. \A n \in 1..Len(SearchPlan(order)) : \E i \in 1..Len(order) :
         order[i].launchable /\ SearchPlan(order)[n] = order[i].candidate
  BY SearchPlanMeasuresPrograms
<1> QED
  BY <1>2, <1>3, <1>4, <1>5 DEF Separate

-------------------------------------------------------------------------------
(* What a state of an unsealed Run shows, by name *)

LEMMA LogFacts ==
    ASSUME NEW log, IsSequence(log)
    PROVE  Len(log) \in Nat /\ IsLog(log)
BY SequenceFacts DEF IsLog

LEMMA KFacts ==
    ASSUME IInv, JInv, KInv, pc # "sealed"
    PROVE  /\ InOrder /\ Standing /\ Faulted /\ Unturned /\ Submitting /\ Measured
           /\ Launched /\ Closed /\ Confirmed
           /\ IsSequence(ledger) /\ Len(ledger) \in Nat /\ IsLog(ledger)
           /\ observations \in Seq(ObservationType) /\ IsSequence(observations)
           /\ Len(observations) \in Nat /\ Upcoming \in Nat
           /\ turn \in Nat /\ elapsed \in Nat /\ authoring \in Nat /\ tokens \in Nat
           /\ source \in Nat /\ compilations \in Nat /\ counts \in [Purposes -> Nat]
           /\ Rounded(elapsed) \in Nat
           /\ pc # "seal" => adherence = "adhered" /\ Faults(ledger) = {}
           /\ pc = "loop" \/ Measuring => turn = Upcoming
           /\ source = 0 /\ pc # "seal" => closedAt = {}
           /\ closedAt = {} => source = 0 /\ confirmation = {}
           /\ source # 0 => closedAt # {} /\ source \in 1..Len(observations)
           /\ confirmation # {} => source # 0
<1>1. /\ InOrder /\ Standing /\ Faulted /\ Unturned /\ Submitting /\ Measured
      /\ Launched /\ Closed /\ Confirmed
  BY DEF KInv
<1>2. IsSequence(ledger) /\ Len(ledger) \in Nat /\ IsLog(ledger)
  BY LogFacts DEF JInv, Recorded
<1>3. /\ observations \in Seq(ObservationType)
      /\ turn \in Nat /\ elapsed \in Nat /\ authoring \in Nat /\ tokens \in Nat
      /\ source \in Nat /\ compilations \in Nat /\ counts \in [Purposes -> Nat]
  BY BudgetAssumption DEF IInv, TypeOK
<1>4. IsSequence(observations) /\ Len(observations) \in Nat
  BY <1>3, SequenceFacts DEF IsSequence
<1>5. Upcoming \in Nat
  BY <1>4 DEF Upcoming
<1>6. Rounded(elapsed) \in Nat
  BY <1>3, RoundedType
<1>7. pc # "seal" => adherence = "adhered" /\ Faults(ledger) = {}
  BY <1>1 DEF Faulted
<1>8. pc = "loop" \/ Measuring => turn = Upcoming
  <2>1. pc = "loop" \/ Measuring => Len(observations) = turn - 1
    BY DEF JInv, Turned
  <2> QED
    BY <1>3, <1>4, <2>1 DEF Upcoming
<1>9. source = 0 /\ pc # "seal" => closedAt = {}
  BY DEF IInv, InPhase
<1>10. confirmation # {} => source # 0
  BY DEF JInv, Nominated
<1>11. source # 0 => closedAt # {} /\ source \in 1..Len(observations)
  BY DEF IInv, InPhase, JInv, Nominated
<1> QED
  BY <1>1, <1>2, <1>3, <1>4, <1>5, <1>6, <1>7, <1>8, <1>9, <1>10, <1>11

LEMMA LoggedNow ==
    ASSUME InOrder
    PROVE  Logged(ledger, turn, Rounded(elapsed), observations, tokens, compilations, counts,
                  IF pc = "evaluate" THEN "answer" ELSE "nothing")
BY DEF InOrder

LEMMA ConfirmationsSame ==
    ASSUME NEW log, NEW longer, NEW kinds, Adds(log, longer, kinds),
           "candidate_evaluated" \notin kinds
    PROVE  /\ At(longer, "candidate_evaluated") = At(log, "candidate_evaluated")
           /\ \A i \in At(log, "candidate_evaluated") : longer[i] = log[i]
           /\ ConfirmationsAt(longer) = ConfirmationsAt(log)
<1>1. /\ At(longer, "candidate_evaluated") = At(log, "candidate_evaluated")
      /\ \A i \in At(log, "candidate_evaluated") : longer[i] = log[i]
  BY AtSame
<1> QED
  BY <1>1 DEF ConfirmationsAt

LEMMA CountsBeforeSame ==
    ASSUME NEW log, NEW longer, Grown(log, longer), NEW i \in 1..Len(log)
    PROVE  CountsBefore(longer, i) = CountsBefore(log, i)
<1>1. {j \in At(longer, "evaluation_attempt_started") : j < i}
         = {j \in At(log, "evaluation_attempt_started") : j < i}
  BY EarlierGrows
<1>2. \A j \in At(log, "evaluation_attempt_started") : longer[j] = log[j]
  BY AtMore
<1>3. ASSUME NEW purpose \in Purposes
      PROVE  {j \in At(longer, "evaluation_attempt_started") :
                 j < i /\ longer[j].purpose = purpose}
               = {j \in At(log, "evaluation_attempt_started") :
                    j < i /\ log[j].purpose = purpose}
  BY <1>1, <1>2
<1>4. ASSUME NEW purpose \in Purposes
      PROVE  Cardinality({j \in At(longer, "evaluation_attempt_started") :
                             j < i /\ longer[j].purpose = purpose})
               = Cardinality({j \in At(log, "evaluation_attempt_started") :
                    j < i /\ log[j].purpose = purpose})
  BY <1>3, Zenon
<1> QED
  BY <1>4, Zenon DEF CountsBefore

-------------------------------------------------------------------------------
(* What a step leaves of the close and of the confirmation *)

LEMMA ClosedOpen ==
    ASSUME Closed, closedAt = {}, closedAt' = {}, authoring' <= elapsed',
           NEW kinds, Adds(ledger, ledger', kinds),
           kinds \cap {"search_completed", "candidate_nominated"} = {}
    PROVE  Closed'
<1>1. /\ At(ledger', "search_completed") = At(ledger, "search_completed")
      /\ At(ledger', "candidate_nominated") = At(ledger, "candidate_nominated")
  BY AtSame
<1> QED
  BY <1>1 DEF Closed

LEMMA ClosedKept ==
    ASSUME Closed, closedAt # {},
           UNCHANGED <<closedAt, tokens, compilations, observations, source, authoring>>,
           elapsed \in Nat, elapsed' \in Nat, elapsed <= elapsed', authoring \in Nat,
           adherence' = "adhered" => adherence = "adhered" /\ reason' = reason,
           NEW kinds, Adds(ledger, ledger', kinds),
           kinds \cap (SearchKinds \cup {"search_completed", "candidate_nominated"}) = {}
    PROVE  Closed'
<1>1. PICK i \in DOMAIN ledger :
          /\ At(ledger, "search_completed") = {i}
          /\ At(ledger, "candidate_nominated") = {i + 1}
          /\ ledger[i].state.iteration = NextIteration(observations)
          /\ ledger[i].state.tokens = tokens
          /\ closedAt = {ledger[i].state.elapsed}
          /\ ledger[i].state.elapsed \in Nat /\ ledger[i].state.elapsed <= Rounded(elapsed)
          /\ ledger[i].state.authoring = Rounded(authoring)
          /\ Rounded(authoring) <= ledger[i].state.elapsed
          /\ ledger[i].state.counts = CountsBefore(ledger, i)
          /\ ledger[i].state.counts["confirmatory"] = 0
          /\ ledger[i].state.compilations = compilations
          /\ ledger[i].state.searchElapsed = ledger[i].state.elapsed
          /\ ledger[i].state.exceeded = ExceededBudgets(tokens, Rounded(authoring),
                    ledger[i].state.elapsed, ledger[i].state.elapsed)
          /\ ledger[i].state.reason # "none"
          /\ ledger[i].state.reason = StopReason(ledger[i].state.iteration, tokens,
                  ledger[i].state.elapsed, ledger[i].state.authoring,
                  ledger[i].state.counts, compilations)
          /\ adherence = "adhered" => reason = ledger[i].state.reason
          /\ ledger[i + 1].turn = source
          /\ ledger[i + 1].candidate = IF source = 0 THEN NoCandidate
                                       ELSE observations[source].candidate
          /\ \A j \in (i + 1)..Len(ledger) : ledger[j].kind \notin SearchKinds
          /\ source = 0 => Nominee(observations) = {}
  BY DEF Closed
<1>2. i \in 1..Len(ledger) /\ ledger'[i] = ledger[i] /\ i \in DOMAIN ledger'
      /\ Len(ledger) \in Nat /\ Len(ledger') \in Nat
  BY DEF Adds, Grown, IsLog
<1>3. i + 1 \in 1..Len(ledger) /\ ledger'[i + 1] = ledger[i + 1]
  <2>1. i + 1 \in At(ledger, "candidate_nominated")
    BY <1>1
  <2> QED
    BY <2>1 DEF Adds, Grown, IsLog, At
<1>4. At(ledger', "search_completed") = {i} /\ At(ledger', "candidate_nominated") = {i + 1}
  <2>1. "search_completed" \notin kinds /\ "candidate_nominated" \notin kinds
    OBVIOUS
  <2> QED
    BY <1>1, <2>1, AtSame
<1>5. CountsBefore(ledger', i) = CountsBefore(ledger, i)
  BY <1>2, CountsBeforeSame DEF Adds
<1>6. \A j \in (i + 1)..Len(ledger') : ledger'[j].kind \notin SearchKinds
  <2> SUFFICES ASSUME NEW j \in (i + 1)..Len(ledger') PROVE ledger'[j].kind \notin SearchKinds
    OBVIOUS
  <2>1. CASE j <= Len(ledger)
    <3>1. j \in (i + 1)..Len(ledger) /\ j \in 1..Len(ledger)
      BY <1>2, <2>1
    <3> QED
      BY <1>1, <3>1 DEF Adds, Grown
  <2>2. CASE ~(j <= Len(ledger))
    <3>1. j \in 1..Len(ledger') /\ j > Len(ledger)
      BY <1>2, <2>2
    <3> QED
      BY <3>1 DEF Adds
  <2> QED
    BY <2>1, <2>2
<1>7. Rounded(elapsed) <= Rounded(elapsed') /\ Rounded(elapsed) \in Nat /\ Rounded(elapsed') \in Nat
  BY RoundedGrows
<1>8. ledger'[i].state.elapsed \in Nat /\ ledger'[i].state.elapsed <= Rounded(elapsed')
  BY <1>1, <1>2, <1>7
<1>9. authoring' <= elapsed'
  BY DEF Closed
<1> HIDE DEF Adds
<1>10. /\ ledger'[i].state.iteration = NextIteration(observations')
       /\ ledger'[i].state.tokens = tokens'
       /\ closedAt' = {ledger'[i].state.elapsed}
       /\ ledger'[i].state.authoring = Rounded(authoring')
       /\ Rounded(authoring') <= ledger'[i].state.elapsed
       /\ ledger'[i].state.counts = CountsBefore(ledger', i)
       /\ ledger'[i].state.counts["confirmatory"] = 0
       /\ ledger'[i].state.compilations = compilations'
       /\ ledger'[i].state.searchElapsed = ledger'[i].state.elapsed
       /\ ledger'[i].state.exceeded = ExceededBudgets(tokens', Rounded(authoring'),
                 ledger'[i].state.elapsed, ledger'[i].state.elapsed)
       /\ ledger'[i].state.reason # "none"
       /\ ledger'[i].state.reason = StopReason(ledger'[i].state.iteration, tokens',
               ledger'[i].state.elapsed, ledger'[i].state.authoring,
               ledger'[i].state.counts, compilations')
       /\ adherence' = "adhered" => reason' = ledger'[i].state.reason
       /\ ledger'[i + 1].turn = source'
       /\ ledger'[i + 1].candidate = IF source' = 0 THEN NoCandidate
                                     ELSE observations'[source'].candidate
       /\ source' = 0 => Nominee(observations') = {}
  BY <1>1, <1>2, <1>3, <1>5
<1> QED
  BY <1>2, <1>4, <1>6, <1>8, <1>9, <1>10 DEF Closed

LEMMA ConfirmedOpen ==
    ASSUME Confirmed, source = 0, source' = 0, confirmation' = {},
           ConfirmationsAt(ledger) = {}, NEW kinds, Adds(ledger, ledger', kinds),
           \A i \in 1..Len(ledger') :
              i > Len(ledger) /\ ledger'[i].kind = "candidate_evaluated" =>
                 ledger'[i].purpose = "search" \/ (ledger'[i].purpose = "attribution" /\ ProfileEach)
    PROVE  Confirmed'
<1>1. Grown(ledger, ledger')
  BY DEF Adds
<1>2. ASSUME NEW i \in At(ledger', "candidate_evaluated")
      PROVE  \/ i \in At(ledger, "candidate_evaluated") /\ ledger'[i] = ledger[i]
             \/ ledger'[i].purpose = "search"
             \/ ledger'[i].purpose = "attribution" /\ ProfileEach
  <2>1. i \in 1..Len(ledger') /\ Len(ledger) \in Nat /\ ledger'[i].kind = "candidate_evaluated"
    BY <1>1 DEF At, Grown, IsLog
  <2>2. CASE i > Len(ledger)
    BY <2>1, <2>2
  <2>3. CASE ~(i > Len(ledger))
    <3>1. i <= Len(ledger)
      BY <2>1, <2>3
    <3> QED
      BY <1>1, <3>1, AtMore
  <2> QED
    BY <2>2, <2>3
<1>3. ConfirmationsAt(ledger') = {}
  <2>1. \A i \in At(ledger', "candidate_evaluated") : ledger'[i].purpose # "confirmatory"
    BY <1>2 DEF ConfirmationsAt
  <2> QED
    BY <2>1 DEF ConfirmationsAt
<1>4. ~ProfileEach => \A i \in At(ledger', "candidate_evaluated") :
         ledger'[i].purpose # "attribution"
  <2>1. ~ProfileEach => \A i \in At(ledger, "candidate_evaluated") :
           ledger[i].purpose # "attribution"
    BY DEF Confirmed
  <2> QED
    BY <1>2, <2>1
<1> QED
  BY <1>3, <1>4 DEF Confirmed

-------------------------------------------------------------------------------
(* A recorded fault *)

LEMMA ConfirmedKept ==
    ASSUME Confirmed, source' = source, observations' = observations, tokens' = tokens,
           confirmation' = confirmation, NEW kinds, Adds(ledger, ledger', kinds),
           "candidate_evaluated" \notin kinds,
           pc' = "seal", adherence' # "adhered", active' = {}
    PROVE  Confirmed'
<1>1. /\ At(ledger', "candidate_evaluated") = At(ledger, "candidate_evaluated")
      /\ \A i \in At(ledger, "candidate_evaluated") : ledger'[i] = ledger[i]
      /\ ConfirmationsAt(ledger') = ConfirmationsAt(ledger)
  BY ConfirmationsSame
<1>2. \A i \in ConfirmationsAt(ledger) : i \in At(ledger, "candidate_evaluated")
  BY DEF ConfirmationsAt
<1>3. InFlight("attribution")' = 0
  BY DEF InFlight
<1>4. \A i \in ConfirmationsAt(ledger') :
          /\ source' # 0 /\ ledger'[i].turn = source'
          /\ ledger'[i].candidate = observations'[source'].candidate
  BY <1>1, <1>2 DEF Confirmed
<1>5. \A c \in confirmation' : c.source = source' /\ c.tokens = tokens'
  BY DEF Confirmed
<1>6. ~ProfileEach => \A i \in At(ledger', "candidate_evaluated") :
          ledger'[i].purpose = "attribution" =>
             /\ Attribution = "selected" /\ source' # 0 /\ ledger'[i].turn = source'
             /\ ledger'[i].candidate = observations'[source'].candidate
             /\ confirmation' # {} /\ \A c \in confirmation' : c.latency > 0
  BY <1>1 DEF Confirmed
<1> QED
  BY <1>3, <1>4, <1>5, <1>6 DEF Confirmed

LEMMA FaultStands ==
    ASSUME IInv, JInv, KInv,
           pc \in {"loop", "resolve", "build", "search", "evaluate", "profile"},
           NEW written, IsSequence(written), NEW live, NEW fault,
           fault \in {"provider_fault", "harness_fault", "broker_fault"}, NEW usage \in Nat,
           RecordFault(written, live, fault, usage),
           NEW owed \in {"nothing", "answer"},
           elapsed' \in Nat, elapsed <= elapsed', authoring' <= elapsed',
           Logged(ledger \o written, turn, Rounded(elapsed'), observations, tokens,
                  compilations', counts, owed),
           NEW kinds, Adds(ledger, ledger \o written, kinds),
           kinds \subseteq Permissions \cup {"evaluation_attempt_completed"},
           \/ /\ Len(ledger \o written) \notin At(ledger \o written, "evaluation_attempt_started")
              /\ Len(ledger \o written) \notin At(ledger \o written, "evaluation_attempt_completed")
           \/ /\ live = "evaluation"
              /\ Origin.origin = (ledger \o written)[Len(ledger \o written)].origin
              /\ Origin.turn = (ledger \o written)[Len(ledger \o written)].turn,
           live = "provider" <=> pc = "loop", live # "provider" => usage = 0,
           pc = "loop" => written = << >>,
           counts' = counts, closedAt' = closedAt,
           source # 0 => /\ live = "evaluation" /\ kinds \subseteq {"evaluation_attempt_completed"}
                         /\ compilations' = compilations /\ authoring' = authoring
    PROVE  KInv'
<1> DEFINE event == [kind |-> "run_fault", origin |-> Origin.origin, turn |-> Origin.turn,
                     stage |-> live, fault |-> fault, tokens |-> tokens', usage |-> usage]
           log == ledger \o written
           longer == log \o <<event>>
<1>1. /\ tokens' = tokens + usage /\ adherence' = fault /\ reason' = fault
      /\ pc' = "seal" /\ active' = {} /\ ledger' = longer
      /\ turn' = turn /\ observations' = observations /\ source' = source
      /\ confirmation' = confirmation
  BY DEF RecordFault, resultVars
<1>2. /\ event.kind = "run_fault" /\ event.origin = Origin.origin /\ event.turn = Origin.turn
      /\ event.stage = live /\ event.fault = fault /\ event.tokens = tokens'
      /\ event.usage = usage
  OBVIOUS
<1>3. Origin.origin = (IF source = 0 THEN "turn" ELSE "source_turn")
      /\ Origin.turn = (IF source = 0 THEN turn ELSE source)
      /\ Origin' = Origin
  BY <1>1 DEF Origin
<1>4. pc # "sealed" /\ pc # "seal" /\ pc # "confirm" /\ pc # "close"
  OBVIOUS
<1> HIDE DEF event, log, longer
<1>5. /\ Standing /\ Faulted /\ Unturned /\ Closed /\ Confirmed
      /\ IsSequence(ledger) /\ Len(ledger) \in Nat
      /\ Len(observations) \in Nat /\ turn \in Nat /\ elapsed \in Nat /\ authoring \in Nat
      /\ Upcoming \in Nat /\ tokens \in Nat
      /\ adherence = "adhered" /\ Faults(ledger) = {}
      /\ pc = "loop" \/ Measuring => turn = Upcoming
      /\ source = 0 => closedAt = {}
      /\ closedAt = {} => source = 0 /\ confirmation = {}
      /\ source # 0 => closedAt # {} /\ source \in 1..Len(observations)
      /\ confirmation # {} => source # 0
  BY <1>4, KFacts
<1>6. Rounded(elapsed') \in Nat
  BY RoundedType
<1>7. /\ Grown(log, longer) /\ Adds(log, longer, {"run_fault"})
      /\ Len(log) \in Nat /\ Len(longer) = Len(log) + 1 /\ longer[Len(longer)] = event
      /\ IsSequence(log) /\ IsSequence(longer)
  <2>1. IsSequence(log)
    BY <1>5, GrowsBy DEF log
  <2>2. Len(log) \in Nat
    BY <2>1, LogFacts
  <2>3. /\ Grown(log, log \o <<event>>) /\ IsSequence(log \o <<event>>)
        /\ Len(log \o <<event>>) = Len(log) + 1 /\ (log \o <<event>>)[Len(log) + 1] = event
        /\ Adds(log, log \o <<event>>, {event.kind})
    BY <2>1, GrowsOne
  <2> QED
    BY <1>2, <2>1, <2>2, <2>3 DEF longer
<1>8. Adds(ledger, longer, kinds \cup {"run_fault"})
  BY <1>7, AddsMore DEF log
<1>9. /\ "provider_turn_completed" \notin kinds \cup {"run_fault"}
      /\ "author_actions_resolved" \notin kinds \cup {"run_fault"}
      /\ "candidate_set_filtered" \notin kinds \cup {"run_fault"}
      /\ "candidate_selected" \notin kinds \cup {"run_fault"}
      /\ "candidate_evaluated" \notin kinds \cup {"run_fault"}
      /\ "search_completed" \notin kinds \cup {"run_fault"}
      /\ "candidate_nominated" \notin kinds \cup {"run_fault"}
      /\ "run_fault" \notin kinds
  BY DEF Permissions
<1>10. \A mark \in Marks : AtTurn(longer, mark, Upcoming) = AtTurn(ledger, mark, Upcoming)
  BY <1>8, <1>9, AtTurnSame DEF Marks
<1>11. Upcoming' = Upcoming /\ \A mark \in Marks : Has(mark)' <=> Has(mark)
  BY <1>1, <1>10 DEF Has, Upcoming
<1>12. Has("provider_turn_completed") <=> Measuring
  BY <1>5 DEF Standing
<1>13. Measuring <=> pc # "loop" /\ source = 0
  <2>1. pc \in {"loop", "resolve", "build", "search"} => source = 0
    BY DEF IInv, InPhase
  <2> QED
    BY <1>4, <2>1 DEF Measuring
<1>14. InOrder'
  <2>1. tokens' = tokens \/ AtTurn(log, "provider_turn_completed", Len(observations) + 1) = {}
    <3>1. CASE pc = "loop"
      <4>1. AtTurn(log, "provider_turn_completed", Upcoming)
               = AtTurn(ledger, "provider_turn_completed", Upcoming)
        <5>1. "provider_turn_completed" \notin kinds
          BY <1>9
        <5> QED
          BY <5>1, AtTurnSame DEF log
      <4>2. ~Has("provider_turn_completed")
        BY <1>12, <1>13, <3>1
      <4> QED
        BY <4>1, <4>2 DEF Has, Upcoming
    <3>2. CASE pc # "loop"
      BY <1>1, <1>5, <3>2
    <3> QED
      BY <3>1, <3>2
  <2>2. TurnBearing(event) => event.turn = turn
    BY <1>2, <1>3 DEF TurnBearing
  <2>3. Len(log) \in At(log, "evaluation_attempt_started")
                        \cup At(log, "evaluation_attempt_completed") =>
              /\ event.stage = "evaluation" /\ event.origin = log[Len(log)].origin
              /\ event.turn = log[Len(log)].turn
    BY <1>2 DEF log
  <2>4. Logged(log, turn, Rounded(elapsed'), observations, tokens, compilations', counts, owed)
    BY DEF log
  <2>5. Logged(log \o <<event>>, turn, Rounded(elapsed'), observations, tokens', compilations',
               counts, "nothing")
    BY <1>2, <1>5, <1>6, <2>1, <2>2, <2>3, <2>4, FaultLogged
  <2> QED
    BY <1>1, <2>5 DEF InOrder, longer
<1>15. Standing'
  <2>1. /\ ~Has("candidate_selected")
        /\ Has("candidate_set_filtered") => Has("author_actions_resolved")
        /\ Has("author_actions_resolved") => Has("provider_turn_completed")
    BY <1>5 DEF Standing
  <2>2. /\ ~Has("candidate_selected")'
        /\ Has("candidate_set_filtered")' => Has("author_actions_resolved")'
        /\ Has("author_actions_resolved")' => Has("provider_turn_completed")'
    BY <1>11, <2>1 DEF Marks
  <2> QED
    BY <1>1, <2>2 DEF Standing
<1>16. Faulted'
  <2>1. Faults(ledger') = {Len(ledger')}
    <3>1. At(log, "run_fault") = {}
      <4>1. At(log, "run_fault") = At(ledger, "run_fault")
        BY <1>9, AtSame DEF log
      <4> QED
        BY <1>5, <4>1 DEF Faults
    <3>2. At(longer, "run_fault") = At(log, "run_fault") \cup {Len(longer)}
      BY <1>2, <1>7, AtNext
    <3> QED
      BY <1>1, <3>1, <3>2 DEF Faults
  <2>2. ledger'[Len(ledger')] = event
    BY <1>1, <1>7
  <2>3. BeforeTokens' = BeforeTokens
    BY <1>1 DEF BeforeTokens
  <2>4. ~Measuring => tokens = BeforeTokens
    BY <1>5 DEF Faulted
  <2>5. source = 0 => /\ turn' = Upcoming' /\ closedAt' = {}
                      /\ Has("provider_turn_completed")' <=> live # "provider"
                      /\ live = "provider" => tokens' = BeforeTokens' + usage
                      /\ live # "provider" =>
                            \A i \in 1..Len(observations') : observations'[i].tokens < tokens'
    <3>1. source = 0 => turn = Upcoming
      BY <1>5, <1>13
    <3>2. source = 0 => (Has("provider_turn_completed")' <=> live # "provider")
      BY <1>11, <1>12, <1>13 DEF Marks
    <3>3. live = "provider" => tokens = BeforeTokens
      BY <1>13, <2>4
    <3>4. source = 0 /\ live # "provider" =>
             \A i \in 1..Len(observations') : observations'[i].tokens < tokens'
      <4>1. source = 0 /\ live # "provider" => Measuring /\ tokens' = tokens
        BY <1>1, <1>5, <1>13
      <4>2. Measuring => \A i \in 1..Len(observations) : observations[i].tokens < tokens
        BY DEF JInv, Turned
      <4> QED
        BY <1>1, <4>1, <4>2
    <3> QED
      BY <1>1, <1>5, <1>11, <2>3, <3>1, <3>2, <3>3, <3>4
  <2>6. source # 0 => /\ live = "evaluation" /\ tokens' = BeforeTokens'
                      /\ ~Has("provider_turn_completed")'
    <3>1. source # 0 => tokens = BeforeTokens
      BY <1>13, <2>4
    <3>2. source # 0 => ~Has("provider_turn_completed")'
      BY <1>11, <1>12, <1>13 DEF Marks
    <3> QED
      BY <1>1, <1>5, <2>3, <3>1, <3>2
  <2> QED
    BY <1>1, <1>2, <1>3, <2>1, <2>2, <2>5, <2>6 DEF Faulted
<1>17. Unturned'
  <2> SUFFICES ASSUME observations' = << >>, ~Has("provider_turn_completed")'
               PROVE  closedAt' = {} /\ Len(ledger') = 2
    BY <1>1 DEF Unturned
  <2>1. source = 0
    <3>1. Len(observations) = 0
      BY <1>1
    <3> QED
      BY <1>5, <3>1
  <2>2. pc = "loop"
    BY <1>11, <1>12, <1>13, <2>1 DEF Marks
  <2>3. Len(ledger) = 1
    BY <1>1, <1>5, <1>11, <2>1 DEF Unturned, Marks
  <2>4. log = ledger
    <3>1. written = << >>
      BY <2>2
    <3>2. Len(log) = Len(ledger) + Len(written)
      BY <1>5, GrowsBy DEF log
    <3>3. Len(written) = 0
      BY <3>1
    <3>4. Len(log) = Len(ledger)
      BY <1>5, <3>2, <3>3
    <3>5. \A i \in 1..Len(ledger) : log[i] = ledger[i]
      BY DEF Adds, Grown, log
    <3> QED
      BY <1>5, <1>7, <3>4, <3>5, SameSequence
  <2>5. Len(log) = 1
    BY <2>3, <2>4, Zenon
  <2>6. Len(longer) = 2
    BY <1>7, <2>5
  <2> QED
    BY <1>1, <1>5, <2>1, <2>6
<1>18. Submitting' /\ Measured' /\ Launched'
  BY <1>1 DEF Submitting, Measured, Launched, InSearch
<1>19. Closed'
  <2>1. CASE source = 0
    <3>1. closedAt = {} /\ closedAt' = {}
      BY <1>5, <2>1
    <3>2. (kinds \cup {"run_fault"}) \cap {"search_completed", "candidate_nominated"} = {}
      BY <1>9
    <3> QED
      BY <1>1, <1>5, <1>8, <3>1, <3>2, ClosedOpen
  <2>2. CASE source # 0
    <3>1. closedAt # {} /\ tokens' = tokens
      BY <1>1, <1>5, <2>2
    <3>2. (kinds \cup {"run_fault"})
             \cap (SearchKinds \cup {"search_completed", "candidate_nominated"}) = {}
      BY <2>2 DEF SearchKinds
    <3>3. UNCHANGED <<closedAt, tokens, compilations, observations, source, authoring>>
      BY <1>1, <2>2, <3>1
    <3>4. adherence' # "adhered"
      BY <1>1
    <3> QED
      BY <1>1, <1>5, <1>8, <3>1, <3>2, <3>3, <3>4, ClosedKept
  <2> QED
    BY <2>1, <2>2
<1>20. Confirmed'
  <2>1. CASE source = 0
    <3>1. confirmation' = {} /\ source' = 0 /\ ConfirmationsAt(ledger) = {}
      BY <1>1, <1>5, <2>1 DEF Confirmed
    <3>2. \A i \in 1..Len(longer) : i > Len(ledger) => longer[i].kind # "candidate_evaluated"
      BY <1>8, <1>9 DEF Adds
    <3> QED
      BY <1>1, <1>5, <1>8, <2>1, <3>1, <3>2, ConfirmedOpen
  <2>2. CASE source # 0
    <3>1. tokens' = tokens /\ adherence' # "adhered"
      BY <1>1, <1>5, <2>2
    <3> QED
      BY <1>1, <1>5, <1>8, <1>9, <3>1, ConfirmedKept
  <2> QED
    BY <2>1, <2>2
<1> QED
  BY <1>14, <1>15, <1>16, <1>17, <1>18, <1>19, <1>20 DEF KInv

-------------------------------------------------------------------------------
(* The faults of a Run *)

LEMMA AppendNothing ==
    ASSUME NEW log, IsSequence(log)
    PROVE  log \o << >> = log /\ Adds(log, log, {}) /\ IsSequence(<< >>)
<1>1. IsSequence(<< >>)
  <2>1. << >> \in Seq({})
    OBVIOUS
  <2> QED
    BY <2>1 DEF IsSequence
<1>2. PICK S : log \in Seq(S)
  BY DEF IsSequence
<1>3. log \o << >> = log
  BY <1>2
<1>4. Adds(log, log, {})
  BY SequenceFacts DEF Adds, Grown, IsLog
<1> QED
  BY <1>1, <1>3, <1>4

LEMMA NothingInFlight ==
    ASSUME NEW log, NEW now, NEW clock, NEW rows, NEW spent, NEW permits, NEW used,
           Logged(log, now, clock, rows, spent, permits, used, "nothing")
    PROVE  /\ Len(log) \notin At(log, "evaluation_attempt_started")
           /\ Len(log) \notin At(log, "evaluation_attempt_completed")
<1>1. Chained(log, FALSE)
  BY DEF Logged
<1> QED
  BY <1>1 DEF Chained

LEMMA AuthorFaultStands == IInv /\ JInv /\ KInv /\ AuthorFault => KInv'
<1> SUFFICES ASSUME IInv, JInv, KInv, AuthorFault PROVE KInv'
  OBVIOUS
<1>1. PICK duration \in Durations, usage \in {0} \cup TokenSpends :
         Author(duration) /\ RecordFault(<< >>, "provider", "provider_fault", usage)
  BY DEF AuthorFault
<1>2. duration \in Nat /\ usage \in Nat
  BY InputAssumption
<1>3. /\ pc = "loop" /\ elapsed' = elapsed + duration /\ authoring' = authoring + duration
      /\ counts' = counts /\ compilations' = compilations /\ closedAt' = closedAt
  BY <1>1 DEF Author, budgetVars
<1>4. /\ InOrder /\ Closed /\ IsSequence(ledger) /\ elapsed \in Nat /\ authoring \in Nat
      /\ turn \in Nat /\ Rounded(elapsed) \in Nat
  BY <1>3, KFacts
<1>5. /\ elapsed' \in Nat /\ elapsed <= elapsed' /\ authoring' <= elapsed'
  BY <1>2, <1>3, <1>4 DEF Closed
<1>6. /\ Rounded(elapsed') \in Nat /\ Rounded(elapsed) <= Rounded(elapsed')
  BY <1>4, <1>5, RoundedGrows
<1>7. Logged(ledger, turn, Rounded(elapsed), observations, tokens, compilations, counts, "nothing")
  BY <1>3, <1>4, LoggedNow
<1>8. Logged(ledger, turn, Rounded(elapsed'), observations, tokens, compilations', counts, "nothing")
  BY <1>3, <1>4, <1>6, <1>7, LoggedLater
<1>9. /\ ledger \o << >> = ledger /\ Adds(ledger, ledger \o << >>, {}) /\ IsSequence(<< >>)
  BY <1>4, AppendNothing
<1>10. Logged(ledger \o << >>, turn, Rounded(elapsed'), observations, tokens, compilations',
              counts, "nothing")
  BY <1>8, <1>9
<1>11. source = 0
  BY <1>3, KFacts DEF IInv, InPhase
<1>12. /\ Len(ledger \o << >>) \notin At(ledger \o << >>, "evaluation_attempt_started")
       /\ Len(ledger \o << >>) \notin At(ledger \o << >>, "evaluation_attempt_completed")
  BY <1>10, NothingInFlight
<1>13. "nothing" \in {"nothing", "answer"} /\ {} \subseteq Permissions \cup {"evaluation_attempt_completed"}
  OBVIOUS
<1>14. "provider_fault" \in {"provider_fault", "harness_fault", "broker_fault"}
  OBVIOUS
<1> QED
  BY <1>1, <1>2, <1>3, <1>5, <1>9, <1>10, <1>11, <1>12, <1>13, <1>14, FaultStands

LEMMA ResolveFaultStands == IInv /\ JInv /\ KInv /\ (ResolveFault \/ SealFault) => KInv'
<1> SUFFICES ASSUME IInv, JInv, KInv, ResolveFault \/ SealFault PROVE KInv'
  OBVIOUS
<1>1. PICK live \in {"environment", "evaluation"} :
         /\ RecordFault(<< >>, live, FaultOf(live), 0)
         /\ pc \in {"resolve", "search"}
         /\ UNCHANGED <<clockVars, budgetVars>>
  <2>1. CASE ResolveFault
    BY <2>1 DEF ResolveFault, FaultOf
  <2>2. CASE SealFault
    <3>1. pc = "search"
      BY <2>2 DEF SealFault
    <3>2. stage \in {"environment", "evaluation"}
      BY <3>1, KFacts DEF Standing, IInv, TypeOK
    <3> QED
      BY <2>2, <3>1, <3>2 DEF SealFault
  <2> QED
    BY <2>1, <2>2
<1>2. FaultOf(live) \in {"provider_fault", "harness_fault", "broker_fault"}
  BY FaultOfType
<1>3. /\ elapsed' = elapsed /\ authoring' = authoring
      /\ counts' = counts /\ compilations' = compilations /\ closedAt' = closedAt
  BY <1>1 DEF budgetVars, clockVars
<1>4. /\ InOrder /\ Closed /\ IsSequence(ledger) /\ elapsed \in Nat /\ authoring \in Nat
      /\ turn \in Nat /\ Rounded(elapsed) \in Nat
  BY <1>1, KFacts
<1>5. /\ elapsed' \in Nat /\ elapsed <= elapsed' /\ authoring' <= elapsed'
  BY <1>3, <1>4 DEF Closed
<1>6. Logged(ledger, turn, Rounded(elapsed), observations, tokens, compilations, counts, "nothing")
  BY <1>1, <1>4, LoggedNow
<1>7. /\ ledger \o << >> = ledger /\ Adds(ledger, ledger \o << >>, {}) /\ IsSequence(<< >>)
  BY <1>4, AppendNothing
<1>8. Logged(ledger \o << >>, turn, Rounded(elapsed'), observations, tokens, compilations',
             counts, "nothing")
  BY <1>3, <1>6, <1>7
<1>9. source = 0
  BY <1>1, KFacts DEF IInv, InPhase
<1>10. /\ Len(ledger \o << >>) \notin At(ledger \o << >>, "evaluation_attempt_started")
       /\ Len(ledger \o << >>) \notin At(ledger \o << >>, "evaluation_attempt_completed")
  BY <1>8, NothingInFlight
<1>11. "nothing" \in {"nothing", "answer"} /\ {} \subseteq Permissions \cup {"evaluation_attempt_completed"}
       /\ 0 \in Nat
  OBVIOUS
<1>12. pc # "loop" /\ live # "provider"
       /\ pc \in {"loop", "resolve", "build", "search", "evaluate", "profile"}
  BY <1>1
<1> QED
  BY <1>1, <1>2, <1>3, <1>5, <1>7, <1>8, <1>9, <1>10, <1>11, <1>12, FaultStands

LEMMA BuildLogged ==
    ASSUME IInv, JInv, KInv, NEW asked \in 0..MaxPermits, NEW duration \in Durations,
           BuildStep(asked, duration)
    PROVE  LET written == CompilationEvents(asked, elapsed')
           IN /\ Logged(ledger \o written, turn, Rounded(elapsed'), observations, tokens,
                        compilations', counts, "nothing")
              /\ Adds(ledger, ledger \o written, Permissions) /\ IsSequence(written)
              /\ \A i \in At(ledger \o written, "compilation_refused") : i > Len(ledger) =>
                    (ledger \o written)[i].candidate = NextBuild /\ asked # Granted(asked)
              /\ elapsed' \in Nat /\ elapsed <= elapsed'
<1> DEFINE written == CompilationEvents(asked, elapsed')
<1>1. /\ pc = "build" /\ Len(built) < Len(resolved) /\ elapsed' = elapsed + duration
      /\ compilations' = compilations + Granted(asked)
  BY DEF BuildStep
<1>2. duration \in Nat /\ asked \in Nat
  BY InputAssumption
<1>3. /\ InOrder /\ Standing /\ Submitting /\ IsSequence(ledger) /\ elapsed \in Nat
      /\ turn \in Nat /\ Rounded(elapsed) \in Nat /\ adherence = "adhered"
      /\ Len(observations) \in Nat /\ turn = Upcoming /\ compilations \in Nat /\ closedAt = {}
  <2>1. source = 0 /\ Measuring
    BY <1>1 DEF IInv, InPhase, Measuring
  <2> QED
    BY <1>1, <2>1, KFacts
<1>4. elapsed' \in Nat /\ elapsed <= elapsed'
  BY <1>1, <1>2, <1>3
<1>5. Rounded(elapsed') \in Nat /\ Rounded(elapsed) <= Rounded(elapsed')
  BY <1>3, <1>4, RoundedGrows
<1>6. Logged(ledger, turn, Rounded(elapsed), observations, tokens, compilations, counts, "nothing")
  BY <1>1, <1>3, LoggedNow
<1>7. /\ Granted(asked) \in Nat
      /\ Permitted(CompilationEvents(asked, elapsed'), turn, NextBuild, compilations,
                   Granted(asked), Rounded(elapsed), Rounded(elapsed'))
      /\ asked # Granted(asked) <=>
            Len(CompilationEvents(asked, elapsed')) = 2 * Granted(asked) + 1
  BY <1>2, <1>4, CompilationsPermitted
<1>8. /\ AtTurn(ledger, "author_actions_resolved", turn) # {}
      /\ AtTurn(ledger, "candidate_set_filtered", turn) = {}
  BY <1>1, <1>3 DEF Standing, Has, InSearch
<1>9. NextBuild \in Submitted(ledger, turn)
  <2>1. Resolved(ledger, turn) = resolved
    BY <1>1, <1>3 DEF Submitting
  <2>2. Len(built) + 1 \in DOMAIN resolved
    BY <1>1 DEF IInv, TypeOK
  <2> QED
    BY <2>1, <2>2 DEF Submitted, NextBuild
<1>10. At(ledger, "search_completed") = {}
  BY <1>3 DEF JInv, Recorded
<1> HIDE DEF written
<1>11. /\ Logged(ledger \o written, turn, Rounded(elapsed'), observations, tokens,
                 compilations + Granted(asked), counts, "nothing")
       /\ Adds(ledger, ledger \o written, Permissions)
       /\ \A i \in At(ledger \o written, "compilation_refused") :
             i > Len(ledger) => /\ (ledger \o written)[i].candidate = NextBuild
                                /\ Len(written) = 2 * Granted(asked) + 1
  <2>1. turn = Len(observations) + 1
    BY <1>3 DEF Upcoming
  <2>2. Permitted(written, turn, NextBuild, compilations, Granted(asked), Rounded(elapsed),
                  Rounded(elapsed'))
    BY <1>7 DEF written
  <2>3. /\ turn \in Nat /\ Rounded(elapsed) \in Nat /\ compilations \in Nat
        /\ Rounded(elapsed') \in Nat /\ Rounded(elapsed) <= Rounded(elapsed')
        /\ Granted(asked) \in Nat /\ Len(observations) \in Nat
    BY <1>3, <1>5, <1>7
  <2>4. /\ Logged(ledger \o written, turn, Rounded(elapsed'), observations, tokens,
                  compilations + Granted(asked), counts, "nothing")
        /\ Adds(ledger, ledger \o written, Permissions)
        /\ RefusedLast(ledger, ledger \o written, NextBuild,
                       Len(written) = 2 * Granted(asked) + 1)
    BY <1>6, <1>8, <1>9, <1>10, <2>1, <2>2, <2>3, CompilationsLogged
  <2> QED
    BY <2>4 DEF RefusedLast
<1>12. IsSequence(written)
  BY <1>7 DEF Permitted, written
<1> QED
  BY <1>1, <1>4, <1>7, <1>11, <1>12 DEF written

LEMMA BuildFaultStands == IInv /\ JInv /\ KInv /\ BuildFault => KInv'
<1> SUFFICES ASSUME IInv, JInv, KInv, BuildFault PROVE KInv'
  OBVIOUS
<1>1. PICK asked \in 0..MaxPermits, duration \in Durations :
         /\ BuildStep(asked, duration)
         /\ RecordFault(CompilationEvents(asked, elapsed'), "environment", "harness_fault", 0)
  BY DEF BuildFault
<1> DEFINE written == CompilationEvents(asked, elapsed')
<1>2. /\ Logged(ledger \o written, turn, Rounded(elapsed'), observations, tokens,
                compilations', counts, "nothing")
      /\ Adds(ledger, ledger \o written, Permissions) /\ IsSequence(written)
      /\ elapsed' \in Nat /\ elapsed <= elapsed'
  BY <1>1, BuildLogged
<1>3. RecordFault(written, "environment", "harness_fault", 0)
  BY <1>1
<1> HIDE DEF written
<1>4. pc = "build" /\ authoring' = authoring /\ counts' = counts /\ closedAt' = closedAt
  BY <1>1 DEF BuildStep
<1>5. authoring' <= elapsed'
  <2>1. authoring <= elapsed /\ authoring \in Nat /\ elapsed \in Nat
    BY <1>4, KFacts DEF Closed
  <2> QED
    BY <1>2, <1>4, <2>1
<1>6. source = 0
  BY <1>4 DEF IInv, InPhase
<1>7. /\ Len(ledger \o written) \notin At(ledger \o written, "evaluation_attempt_started")
      /\ Len(ledger \o written) \notin At(ledger \o written, "evaluation_attempt_completed")
  BY <1>2, NothingInFlight
<1>8. "nothing" \in {"nothing", "answer"} /\ 0 \in Nat
      /\ Permissions \subseteq Permissions \cup {"evaluation_attempt_completed"}
      /\ "harness_fault" \in {"provider_fault", "harness_fault", "broker_fault"}
      /\ pc # "loop" /\ pc \in {"loop", "resolve", "build", "search", "evaluate", "profile"}
  BY <1>4
<1> QED
  BY <1>2, <1>3, <1>4, <1>5, <1>6, <1>7, <1>8, FaultStands

LEMMA EvaluationFaultStands == IInv /\ JInv /\ KInv /\ EvaluationFault => KInv'
<1> SUFFICES ASSUME IInv, JInv, KInv, EvaluationFault PROVE KInv'
  OBVIOUS
<1>1. pc = "evaluate" /\ UNCHANGED <<authoring, budgetVars, turnVars>>
  BY DEF EvaluationFault
<1>2. PICK invocation \in active, duration \in Durations :
         /\ elapsed' = elapsed + duration
         /\ \/ \E fault \in {"broker_fault", "harness_fault"} :
                  RecordFault(<< >>, "evaluation", fault, 0)
            \/ \E answered \in BOOLEAN :
                  RecordFault(<<CompletedEvent(invocation, answered)>>,
                              "evaluation", "broker_fault", 0)
  BY DEF EvaluationFault
<1>3. duration \in Nat
  BY InputAssumption
<1>4. /\ counts' = counts /\ compilations' = compilations /\ closedAt' = closedAt
      /\ authoring' = authoring
  BY <1>1 DEF budgetVars
<1>5. /\ InOrder /\ Closed /\ Launched /\ IsSequence(ledger) /\ elapsed \in Nat
      /\ authoring \in Nat /\ turn \in Nat /\ Rounded(elapsed) \in Nat
      /\ Len(ledger) \in Nat /\ Len(observations) \in Nat
  BY <1>1, KFacts
<1>6. /\ elapsed' \in Nat /\ elapsed <= elapsed' /\ authoring' <= elapsed'
  BY <1>2, <1>3, <1>4, <1>5, SMTT(30) DEF Closed
<1>7. /\ Rounded(elapsed') \in Nat /\ Rounded(elapsed) <= Rounded(elapsed')
  BY <1>5, <1>6, RoundedGrows
<1>8. Logged(ledger, turn, Rounded(elapsed), observations, tokens, compilations, counts, "answer")
  BY <1>1, <1>5, LoggedNow
<1>9. Logged(ledger, turn, Rounded(elapsed'), observations, tokens, compilations', counts, "answer")
  BY <1>4, <1>5, <1>7, <1>8, LoggedLater
<1>10. /\ ledger[Len(ledger)] = EvaluationEvent("evaluation_attempt_started", invocation)
       /\ invocation.origin = Origin.origin /\ invocation.turn = Origin.turn
  <2>1. PICK other \in active :
           /\ ledger[Len(ledger)] = EvaluationEvent("evaluation_attempt_started", other)
           /\ other.origin = Origin.origin /\ other.turn = Origin.turn
    BY <1>1, <1>5 DEF Launched
  <2>2. other = invocation
    BY DEF IInv, TypeOK, AtMostOne
  <2> QED
    BY <2>1, <2>2
<1>11. 0 \in Nat /\ pc # "loop" /\ pc \in {"loop", "resolve", "build", "search", "evaluate", "profile"}
       /\ "answer" \in {"nothing", "answer"}
  BY <1>1
<1>12. CASE \E fault \in {"broker_fault", "harness_fault"} :
               RecordFault(<< >>, "evaluation", fault, 0)
  <2>1. PICK fault \in {"broker_fault", "harness_fault"} :
           RecordFault(<< >>, "evaluation", fault, 0)
    BY <1>12
  <2>2. ledger \o << >> = ledger /\ Adds(ledger, ledger \o << >>, {}) /\ IsSequence(<< >>)
    BY <1>5, AppendNothing
  <2>3. Logged(ledger \o << >>, turn, Rounded(elapsed'), observations, tokens, compilations',
               counts, "answer")
    BY <1>9, <2>2
  <2>4. /\ Origin.origin = (ledger \o << >>)[Len(ledger \o << >>)].origin
        /\ Origin.turn = (ledger \o << >>)[Len(ledger \o << >>)].turn
    BY <1>10, <2>2 DEF EvaluationEvent
  <2>5. /\ {} \subseteq Permissions \cup {"evaluation_attempt_completed"}
        /\ {} \subseteq {"evaluation_attempt_completed"}
        /\ fault \in {"provider_fault", "harness_fault", "broker_fault"}
    OBVIOUS
  <2> QED
    BY <1>4, <1>6, <1>11, <2>1, <2>2, <2>3, <2>4, <2>5, FaultStands
<1>13. ASSUME NEW answered \in BOOLEAN,
              RecordFault(<<CompletedEvent(invocation, answered)>>, "evaluation",
                          "broker_fault", 0)
       PROVE  KInv'
  <2> DEFINE event == CompletedEvent(invocation, answered)
  <2>1. /\ event.kind = "evaluation_attempt_completed" /\ event.origin = invocation.origin
        /\ event.turn = invocation.turn
        /\ EvaluationKey(event) = <<invocation.turn, invocation.purpose, invocation.candidate>>
    BY DEF CompletedEvent, EvaluationKey
  <2>2. /\ ledger[Len(ledger)].kind = "evaluation_attempt_started"
        /\ ledger[Len(ledger)].origin = invocation.origin
        /\ EvaluationKey(ledger[Len(ledger)]) =
              <<invocation.turn, invocation.purpose, invocation.candidate>>
    BY <1>10 DEF EvaluationEvent, EvaluationKey
  <2> HIDE DEF event
  <2>3. Len(ledger) \in At(ledger, "evaluation_attempt_started")
    <3>1. Len(ledger) >= 1
      BY <1>9 DEF Logged, Formed
    <3> QED
      BY <1>5, <2>2, <3>1, SequenceFacts DEF At
  <2>4. TurnBearing(event) => event.turn = turn
    BY <1>10, <2>1 DEF TurnBearing, Origin
  <2>5. Logged(ledger \o <<event>>, turn, Rounded(elapsed'), observations, tokens, compilations',
               counts, "answer")
    BY <1>5, <1>7, <1>9, <2>1, <2>2, <2>3, <2>4, CompletedLogged
  <2>6. /\ Adds(ledger, ledger \o <<event>>, {event.kind})
        /\ Len(ledger \o <<event>>) = Len(ledger) + 1
        /\ (ledger \o <<event>>)[Len(ledger) + 1] = event
    BY <1>5, GrowsOne
  <2>7. IsSequence(<<event>>)
    <3>1. <<event>> \in Seq({event})
      OBVIOUS
    <3> QED
      BY <3>1 DEF IsSequence
  <2>8. /\ Origin.origin = (ledger \o <<event>>)[Len(ledger \o <<event>>)].origin
        /\ Origin.turn = (ledger \o <<event>>)[Len(ledger \o <<event>>)].turn
    BY <1>10, <2>1, <2>6
  <2>9. {"evaluation_attempt_completed"} \subseteq Permissions \cup {"evaluation_attempt_completed"}
        /\ "broker_fault" \in {"provider_fault", "harness_fault", "broker_fault"}
    OBVIOUS
  <2>10. Adds(ledger, ledger \o <<event>>, {"evaluation_attempt_completed"})
    BY <2>1, <2>6
  <2>11. RecordFault(<<event>>, "evaluation", "broker_fault", 0)
    BY <1>13 DEF event
  <2> QED
    BY <1>4, <1>6, <1>11, <2>5, <2>7, <2>8, <2>9, <2>10, <2>11, FaultStands
<1> QED
  BY <1>2, <1>12, <1>13

-------------------------------------------------------------------------------
(* Turns seen by a step *)

LEMMA LastAtTurn ==
    ASSUME NEW log, NEW longer, Grown(log, longer), Len(longer) = Len(log) + 1,
           NEW event, longer[Len(longer)] = event
    PROVE  AtTurn(longer, event.kind, event.turn)
              = AtTurn(log, event.kind, event.turn) \cup {Len(longer)}
<1> DEFINE kind == event.kind
<1>1. longer[Len(longer)].kind = kind
  OBVIOUS
<1> HIDE DEF kind
<1>2. \A t : longer[Len(longer)].turn = t =>
          AtTurn(longer, kind, t) = AtTurn(log, kind, t) \cup {Len(longer)}
  BY <1>1, AtNext
<1>3. longer[Len(longer)].turn = event.turn
  OBVIOUS
<1>4. AtTurn(longer, kind, event.turn) = AtTurn(log, kind, event.turn) \cup {Len(longer)}
  BY <1>2, <1>3
<1> QED
  BY <1>4 DEF kind

LEMMA MarksKept ==
    ASSUME NEW kinds, Adds(ledger, ledger', kinds), observations' = observations,
           NEW mark, mark \notin kinds
    PROVE  Has(mark)' <=> Has(mark)
<1>1. AtTurn(ledger', mark, Upcoming) = AtTurn(ledger, mark, Upcoming)
  BY AtTurnSame
<1>2. Upcoming' = Upcoming
  BY DEF Upcoming
<1> QED
  BY <1>1, <1>2 DEF Has

(* A step of an adhering Run that has not closed its search. *)
LEMMA OpenStep ==
    ASSUME IInv, JInv, KInv, pc \notin {"sealed", "seal"}, source = 0,
           adherence' = "adhered", source' = 0, closedAt' = {}, confirmation' = {},
           authoring' <= elapsed', ~Measuring' => tokens' = BeforeTokens',
           NEW kinds, Adds(ledger, ledger', kinds),
           kinds \cap {"run_fault", "search_completed", "candidate_nominated"} = {},
           \A i \in 1..Len(ledger') :
              i > Len(ledger) /\ ledger'[i].kind = "candidate_evaluated" =>
                 ledger'[i].purpose = "search" \/ (ledger'[i].purpose = "attribution" /\ ProfileEach)
    PROVE  Faulted' /\ Closed' /\ Confirmed'
<1>1. /\ Faulted /\ Closed /\ Confirmed /\ Faults(ledger) = {} /\ closedAt = {}
  BY KFacts
<1>2. Faulted'
  <2>1. Faults(ledger') = {}
    BY <1>1, AtSame DEF Faults
  <2> QED
    BY <2>1 DEF Faulted
<1>3. Closed'
  BY <1>1, ClosedOpen
<1>4. Confirmed'
  <2>1. ConfirmationsAt(ledger) = {}
    BY <1>1 DEF Confirmed
  <2> QED
    BY <1>1, <2>1, ConfirmedOpen
<1> QED
  BY <1>2, <1>3, <1>4

-------------------------------------------------------------------------------
(* A close that finds no reason *)

(* The stage a fault of the close is blamed on: a Run that stops before its *)
(* first turn has spent no time.                                           *)
Staged ==
    stage = "provider" =>
        /\ pc \in {"loop", "resolve", "close", "confirm", "seal", "sealed"}
        /\ pc \in {"loop", "close"} => elapsed = 0 /\ authoring = 0

(* Nothing is asked of such a Run's ledger: it goes straight to its seal.  *)
Undeclared == pc \in {"seal", "sealed"} /\ IsSequence(ledger) /\ StopUndeclared

LEMMA NextStaged == Staged /\ [Next]_vars => Staged'
<1> SUFFICES ASSUME Staged, [Next]_vars PROVE Staged'
  OBVIOUS
<1> USE DEF clockVars, budgetVars, turnVars, resultVars, outcomeVars
<1>1. CASE Authoring
  BY <1>1 DEF Authoring, AuthorTurn, AuthorFault, ResolveActions, ResolveFault, RecordFault,
              Staged
<1>2. CASE Building
  <2>1. BuildCandidate \/ BuildFault \/ FilterSurvivors => Staged'
    BY DEF BuildCandidate, BuildFault, BuildStep, FilterSurvivors, FilterReady, RecordFault,
           Staged
  <2>2. FilterEmpty \/ FilterAllRejected => Staged'
    BY DEF FilterEmpty, FilterAllRejected, FilterReady, Staged
  <2> QED
    BY <1>2, <2>1, <2>2 DEF Building
<1>3. CASE Evaluating
  <2>1. StartSearch \/ SealFault \/ StartAttribution \/ StartConfirmation => Staged'
    BY DEF StartSearch, SealFault, StartAttribution, StartConfirmation, Begin, RecordFault,
           Staged
  <2>2. AnswerSearch \/ AnswerConfirmation \/ AnswerAttribution \/ EvaluationFault => Staged'
    BY DEF AnswerSearch, AnswerConfirmation, AnswerAttribution, Answer, EvaluationFault,
           RecordFault, Staged
  <2>3. SelectCandidate => Staged'
    BY DEF SelectCandidate, Staged
  <2> QED
    BY <1>3, <2>1, <2>2, <2>3 DEF Evaluating
<1>4. CASE Closing
  BY <1>4 DEF Closing, StopSearch, CloseSearch, RecordFault, SealRun, Staged
<1>5. CASE UNCHANGED vars
  BY <1>5 DEF vars, Staged
<1> QED
  BY <1>1, <1>2, <1>3, <1>4, <1>5 DEF Next

LEMMA SealIsLast == Next /\ pc \in {"seal", "sealed"} => SealRun
<1> SUFFICES ASSUME Next, pc \in {"seal", "sealed"} PROVE SealRun
  OBVIOUS
<1>1. ~Authoring
  BY DEF Authoring, AuthorTurn, AuthorFault, Author, ResolveActions, ResolveFault
<1>2. ~Building
  BY DEF Building, BuildCandidate, BuildFault, BuildStep, FilterEmpty, FilterAllRejected,
         FilterSurvivors, FilterReady
<1>3. ~Evaluating
  BY DEF Evaluating, StartSearch, SealFault, StartAttribution, StartConfirmation,
         AnswerSearch, AnswerConfirmation, AnswerAttribution, Answer, EvaluationFault,
         SelectCandidate
<1>4. ~StopSearch /\ ~CloseSearch
  BY DEF StopSearch, CloseSearch
<1> QED
  BY <1>1, <1>2, <1>3, <1>4 DEF Next, Closing

(* Only the seal ends a Run. *)
LEMMA OnlySealRunSeals == Next => SealRun \/ pc' # "sealed"
<1>1. Authoring => pc' # "sealed"
  BY DEF Authoring, AuthorTurn, AuthorFault, ResolveActions, ResolveFault, RecordFault
<1>2. Building => pc' # "sealed"
  <2>1. BuildCandidate \/ BuildFault \/ FilterSurvivors => pc' # "sealed"
    BY DEF BuildCandidate, BuildFault, BuildStep, FilterSurvivors, RecordFault
  <2>2. FilterEmpty \/ FilterAllRejected => pc' # "sealed"
    BY DEF FilterEmpty, FilterAllRejected, EndTurn
  <2> QED
    BY <2>1, <2>2 DEF Building
<1>3. Evaluating => pc' # "sealed"
  <2>1. StartSearch \/ SealFault \/ StartAttribution \/ StartConfirmation => pc' # "sealed"
    BY DEF StartSearch, SealFault, StartAttribution, StartConfirmation, Begin, RecordFault
  <2>2. AnswerSearch \/ AnswerConfirmation \/ AnswerAttribution \/ EvaluationFault
           => pc' # "sealed"
    BY DEF AnswerSearch, AnswerConfirmation, AnswerAttribution, EvaluationFault, RecordFault
  <2>3. SelectCandidate => pc' # "sealed"
    BY DEF SelectCandidate, EndTurn
  <2> QED
    BY <2>1, <2>2, <2>3 DEF Evaluating
<1>4. Closing => SealRun \/ pc' # "sealed"
  BY DEF Closing, StopSearch, CloseSearch, RecordFault
<1> QED
  BY <1>1, <1>2, <1>3, <1>4 DEF Next

LEMMA CloseFaults ==
    ASSUME IInv, JInv, KInv, Staged, CloseSearch, CloseReason(elapsed') = "none"
    PROVE  Undeclared'
<1>1. PICK duration \in Durations :
         /\ pc = "close" /\ elapsed' = elapsed + duration
         /\ RecordFault(<< >>, stage, FaultOf(stage), 0) /\ UNCHANGED closedAt
  BY DEF CloseSearch
<1>2. /\ InOrder /\ Standing /\ IsSequence(ledger) /\ elapsed \in Nat /\ authoring \in Nat
      /\ adherence = "adhered" /\ closedAt = {} /\ duration \in Nat
  BY <1>1, KFacts, InputAssumption DEF IInv, InPhase
<1>3. Short /\ Upcoming = turn
  <2>1. CloseReason(elapsed + duration) = "none"
    BY <1>1, Zenon
  <2> QED
    BY <1>1, <1>2, <2>1 DEF JInv, Declared, Upcoming
<1>4. stage # "provider"
  <2>1. \A wall \in {SearchWall, AuthoringLimit} : wall \in Nat \ {0}
    BY GridAssumption
  <2> QED
    BY <1>1, <1>3, <2>1 DEF Staged, Short, RoundedShort
<1> DEFINE event == [kind |-> "run_fault", origin |-> Origin.origin, turn |-> Origin.turn,
                     stage |-> stage, fault |-> FaultOf(stage), tokens |-> tokens', usage |-> 0]
<1>5. /\ ledger' = ledger \o << >> \o <<event>> /\ pc' = "seal" /\ turn' = turn
      /\ stage' = stage /\ adherence' = FaultOf(stage) /\ closedAt' = {}
  BY <1>1, <1>2 DEF RecordFault
<1>6. FaultOf(stage) # "adhered"
  BY DEF IInv, TypeOK, FaultOf
<1>7. event.kind = "run_fault"
  OBVIOUS
<1> HIDE DEF event
<1>8. ledger' = ledger \o <<event>>
  BY <1>2, <1>5, AppendNothing
<1>9. IsSequence(ledger') /\ Adds(ledger, ledger', {"run_fault"})
  BY <1>2, <1>7, <1>8, GrowsOne
<1>10. AtTurn(ledger', "provider_turn_completed", turn) = {}
  <2>1. ~Measuring
    BY <1>1 DEF Measuring
  <2>2. AtTurn(ledger, "provider_turn_completed", turn) = {}
    BY <1>2, <1>3, <2>1 DEF Standing, Has
  <2> QED
    BY <1>9, <2>2, AtTurnSame
<1> QED
  BY <1>4, <1>5, <1>6, <1>9, <1>10 DEF Undeclared, StopUndeclared
===============================================================================
