------------------------- MODULE StudyExecutionProofs -------------------------
(***************************************************************************)
(* For every Study, however many executors are started and wherever they   *)
(* die: nothing replaces or completes what an executor left, and an        *)
(* estimand is about the Runs of one executor.  The first rests on who may *)
(* have worked on an untouched Study (Alone), the second on the order in   *)
(* which an executor finishes its allocations (InOrder) and on what the    *)
(* auditor's rows say of the disk (RowsAreRead).  The bounds of an effect  *)
(* cover it by induction over the conditions, which MinimalSubset derives  *)
(* from the order of the subsets of a finite set.                          *)
(***************************************************************************)
EXTENDS StudyExecution, FiniteSetTheorems, TLAPS

Attempting == {"attempt", "run", "sealed", "record", "write"}

OutcomeSet == [status : {"missing"} \cup Results, terminal : BOOLEAN,
               verified : BOOLEAN, by : SUBSET Executors]

(* Executor e left allocation i finished: sealed, or recorded as failed.   *)
Finished(i, e) ==
    \/ \E r \in failure[i] : r.by = e /\ r.whole
    \/ \E r \in evidence[i] : r.by = e /\ r.result # "open"

(* Both artifacts are created exclusively, and only their creator writes   *)
(* them.                                                                   *)
Exclusive ==
    /\ \A i \in Allocations :
          /\ \A r, s \in failure[i] : r = s
          /\ \A r, s \in evidence[i] : r = s
    /\ \A e \in Executors :
          /\ pc[e] = "run" => evidence[at[e]] = {[by |-> e, result |-> "open"]}
          /\ pc[e] = "sealed" =>
                \E result \in Results : evidence[at[e]] = {[by |-> e, result |-> result]}
          /\ pc[e] = "write" => failure[at[e]] = {[by |-> e, whole |-> FALSE]}

(* Whoever finished an allocation finished every earlier one.              *)
InOrder ==
    /\ \A e \in Executors : pc[e] \notin Attempting => at[e] = 1
    /\ \A e \in Executors, j \in Allocations :
          pc[e] = "returned" \/ (pc[e] \in Attempting /\ j < at[e]) => Finished(j, e)
    /\ \A e \in Executors, i, j \in Allocations :
          Finished(i, e) /\ j < i => Finished(j, e)

(* While no two have worked at once, the one that works found the Study    *)
(* untouched and has not been ahead of itself.                             *)
OnlyWorker == \A e, f \in Executors : pc[e] \in Working /\ pc[f] \in Working => e = f
OneAuthor == \A a, b \in Artifacts : a.by = b.by
UntouchedAhead(e) ==
    /\ \A a \in Artifacts : a.by = e
    /\ \A j \in Allocations :
          /\ j > at[e] => ~Attempted(j)
          /\ j < at[e] => Ended(failure[j], evidence[j])
    /\ pc[e] \in {"attempt", "run", "sealed", "record"} => failure[at[e]] = {}
    /\ pc[e] = "attempt" => evidence[at[e]] = {}
Alone ==
    ~overlapped =>
        /\ OnlyWorker /\ OneAuthor
        /\ \A e \in Executors :
              /\ pc[e] \in Attempting => UntouchedAhead(e)
              /\ pc[e] = "returned" =>
                    \A j \in Allocations : Ended(failure[j], evidence[j])

(* What a row says was on disk when it was read, and still is while nobody *)
(* works.                                                                  *)
RowIsRead(i) ==
    /\ rows[i].outcome.by \subseteq Authors(failure[i] \cup evidence[i])
    /\ rows[i].outcome.terminal => rows[i].outcome.by # {}
    /\ quiet => rows[i].outcome = Outcome(failure[i], evidence[i])
RowsAreRead ==
    /\ quiet => \A e \in Executors : pc[e] \notin Working
    /\ \A i \in 1 .. Len(rows) : RowIsRead(i)
    /\ auditPc = "evidence" =>
          LET next == Len(rows) + 1 IN
          /\ Authors(seen) \subseteq Authors(failure[next])
          /\ quiet => seen = failure[next]

RowsTyped ==
    /\ rows \in Seq([condition : {Condition[i] : i \in Allocations}, outcome : OutcomeSet])
    /\ seen \in SUBSET [by : Executors, whole : BOOLEAN]
    /\ auditPc = "idle" => Len(rows) = 0
    /\ auditPc \in {"failure", "evidence"} => Len(rows) < Len(Condition)
    /\ auditPc = "report" => Len(rows) = Len(Condition)

IInv == TypeOK /\ RowsTyped /\ Exclusive /\ InOrder /\ Alone /\ RowsAreRead

-------------------------------------------------------------------------------
(* Rows and outcomes *)

LEMMA OutcomeType ==
    ASSUME NEW f \in SUBSET [by : Executors, whole : BOOLEAN],
           NEW v \in SUBSET [by : Executors, result : Results \cup {"open"}]
    PROVE  Outcome(f, v) \in OutcomeSet
<1>1. Authors(f) \in SUBSET Executors /\ Authors(f \cup v) \in SUBSET Executors
  BY DEF Authors
<1>2. /\ Unverified(f, v) \in OutcomeSet /\ FailureRow(f) \in OutcomeSet
      /\ RefusedRow(f, v) \in OutcomeSet
  BY <1>1 DEF Unverified, FailureRow, RefusedRow, Row, OutcomeSet
<1>4. CASE v = {}
  BY <1>2, <1>4 DEF Outcome
<1>5. CASE v # {}
  <2> DEFINE run == CHOOSE r \in v : TRUE
  <2>1. run \in v
    BY <1>5
  <2>2. run.by \in Executors /\ run.result \in Results \cup {"open"}
    BY <2>1
  <2>3. /\ run.result # "open" => SealedRow(run) \in OutcomeSet
        /\ UnverifiedRow(run) \in OutcomeSet
    BY <2>2 DEF SealedRow, UnverifiedRow, Row, OutcomeSet
  <2> HIDE DEF run
  <2>4. Outcome(f, v) \in {Unverified(f, v), RefusedRow(f, v), UnverifiedRow(run)}
        \/ (run.result # "open" /\ Outcome(f, v) = SealedRow(run))
    BY <1>5 DEF Outcome, Refused, run
  <2> QED
    BY <1>2, <2>3, <2>4
<1> QED
  BY <1>4, <1>5

(* An outcome that ends the allocation has an author, and all its authors  *)
(* left an artifact.                                                       *)
LEMMA OutcomeAuthors ==
    ASSUME NEW f \in SUBSET [by : Executors, whole : BOOLEAN],
           NEW v \in SUBSET [by : Executors, result : Results \cup {"open"}]
    PROVE  /\ Outcome(f, v).by \subseteq Authors(f \cup v)
           /\ Outcome(f, v).terminal => Outcome(f, v).by # {}
           /\ f = {} /\ v = {} => ~Outcome(f, v).terminal
<1>1. Authors(f) \subseteq Authors(f \cup v) /\ (f # {} => Authors(f) # {} /\ Authors(f \cup v) # {})
  BY DEF Authors
<1>2. /\ Unverified(f, v).by = Authors(f \cup v) /\ Unverified(f, v).terminal = FALSE
      /\ FailureRow(f).by = Authors(f) /\ FailureRow(f).terminal = (f # {})
      /\ RefusedRow(f, v).by = Authors(f \cup v) /\ RefusedRow(f, v).terminal = (f # {})
  BY DEF Unverified, FailureRow, RefusedRow, Row
<1>4. CASE v = {}
  BY <1>1, <1>2, <1>4 DEF Outcome
<1>5. CASE v # {}
  <2> DEFINE run == CHOOSE r \in v : TRUE
  <2>1. run \in v
    BY <1>5
  <2>2. run.by \in Authors(f \cup v)
    BY <2>1 DEF Authors
  <2>3. SealedRow(run).by = {run.by} /\ UnverifiedRow(run).by = {run.by}
    BY DEF SealedRow, UnverifiedRow, Row
  <2> HIDE DEF run
  <2>4. Outcome(f, v) \in {Unverified(f, v), RefusedRow(f, v), UnverifiedRow(run), SealedRow(run)}
    BY <1>5 DEF Outcome, run
  <2> QED
    BY <1>1, <1>2, <2>2, <2>3, <2>4, <1>5
<1> QED
  BY <1>4, <1>5

LEMMA ChosenOfOne == ASSUME NEW x PROVE (CHOOSE r \in {x} : TRUE) = x
  OBVIOUS

(* An allocation whose outcome counts has one artifact, and that is final. *)
LEMMA OutcomeCounts ==
    ASSUME NEW f \in SUBSET [by : Executors, whole : BOOLEAN],
           NEW v \in SUBSET [by : Executors, result : Results \cup {"open"}],
           \A r, s \in f : r = s, \A r, s \in v : r = s,
           Outcome(f, v).terminal, Outcome(f, v).verified
    PROVE  \/ /\ v = {}
              /\ \E r \in f : f = {r} /\ r.whole /\ Outcome(f, v).by = {r.by}
           \/ /\ f = {}
              /\ \E r \in v : v = {r} /\ r.result # "open" /\ Outcome(f, v).by = {r.by}
<1>1. /\ Unverified(f, v).verified = FALSE
      /\ FailureRow(f).by = Authors(f) /\ FailureRow(f).terminal = (f # {})
      /\ RefusedRow(f, v).verified = FALSE
  BY DEF Unverified, FailureRow, RefusedRow, Row
<1>2. ~ \E r \in f : ~r.whole
  BY <1>1 DEF Outcome
<1>3. CASE v = {}
  <2>1. Outcome(f, v) = FailureRow(f)
    BY <1>2, <1>3 DEF Outcome
  <2>2. PICK r \in f : TRUE
    BY <1>1, <2>1
  <2>3. f = {r}
    BY <2>2
  <2>4. Authors(f) = {r.by}
    BY <2>3 DEF Authors
  <2>5. r.whole
    BY <1>2, <2>2
  <2> QED
    BY <1>1, <1>3, <2>1, <2>2, <2>3, <2>4, <2>5
<1>4. CASE v # {}
  <2>1. PICK run \in v : v = {run}
    BY <1>4
  <2>2. (CHOOSE r \in v : TRUE) = run
    BY <2>1, ChosenOfOne
  <2>3. ~Refused(run)
    BY <1>1, <1>2, <1>4, <2>2 DEF Outcome
  <2>4. SealedRow(run).by = {run.by} /\ UnverifiedRow(run).verified = FALSE
    BY DEF SealedRow, UnverifiedRow, Row
  <2>5. f = {} /\ Outcome(f, v) = SealedRow(run)
    BY <1>1, <1>2, <1>4, <2>2, <2>3, <2>4 DEF Outcome
  <2> QED
    BY <2>1, <2>3, <2>4, <2>5 DEF Refused
<1> QED
  BY <1>3, <1>4

(* A finished allocation has ended: what its failure record or its archive *)
(* amounts to is an outcome, or contradicts the other.                     *)
LEMMA FinishedIsEnded ==
    ASSUME NEW f \in SUBSET [by : Executors, whole : BOOLEAN],
           NEW v \in SUBSET [by : Executors, result : Results \cup {"open"}]
    PROVE  /\ (\E r \in f : f = {r} /\ r.whole) => Ended(f, v)
           /\ f = {} /\ (\E r \in v : v = {r} /\ r.result # "open") => Ended(f, v)
<1>1. ASSUME NEW r \in f, f = {r}, r.whole PROVE Ended(f, v)
  <2>1. f # {} /\ ~ \E s \in f : ~s.whole
    BY <1>1
  <2>2. FailureRow(f).terminal /\ RefusedRow(f, v).terminal
    BY <2>1 DEF FailureRow, RefusedRow, Row
  <2>3. CASE v = {}
    BY <2>1, <2>2, <2>3 DEF Outcome, Ended
  <2>4. CASE v # {}
    <3> DEFINE run == CHOOSE s \in v : TRUE
    <3>1. run \in v /\ UnverifiedRow(run).terminal
      BY <2>4 DEF UnverifiedRow, Row
    <3> HIDE DEF run
    <3>2. CASE Refused(run) \/ run.result = "unverified"
      BY <2>1, <2>2, <2>4, <3>1, <3>2 DEF Outcome, Ended, run
    <3>3. CASE ~Refused(run) /\ run.result # "unverified"
      BY <2>1, <3>1, <3>3 DEF Ended, Contradicted, Refused
    <3> QED
      BY <3>2, <3>3
  <2> QED
    BY <2>3, <2>4
<1>2. ASSUME f = {}, NEW r \in v, v = {r}, r.result # "open" PROVE Ended(f, v)
  <2>1. (CHOOSE s \in v : TRUE) = r
    BY <1>2, ChosenOfOne
  <2>2. SealedRow(r).terminal /\ UnverifiedRow(r).terminal
    BY DEF SealedRow, UnverifiedRow, Row
  <2>3. CASE r.result = "refused"
    BY <1>2, <2>3 DEF Ended, Contradicted
  <2>4. CASE r.result # "refused"
    <3>1. ~Refused(r) /\ v # {} /\ ~ \E s \in f : ~s.whole
      BY <1>2, <2>4 DEF Refused
    <3> QED
      BY <1>2, <2>1, <2>2, <3>1 DEF Outcome, Ended
  <2> QED
    BY <2>3, <2>4
<1> QED
  BY <1>1, <1>2

-------------------------------------------------------------------------------
(* The state is typed *)

LEMMA Places ==
    /\ Len(Condition) \in Nat \ {0}
    /\ 1 \in Allocations
    /\ \A i \in Allocations : i \in Nat /\ 1 <= i /\ i <= Len(Condition)
    /\ Working = {"check"} \cup Attempting
BY StudyAssumption DEF Allocations, Working, Attempting

LEMMA AdvanceType ==
    ASSUME TypeOK, NEW e \in Executors, Advance(e)
    PROVE  /\ at' \in [Executors -> Allocations \cup {1}]
           /\ pc' \in [Executors -> {"idle"} \cup Working \cup Stopped]
<1>1. at[e] \in Allocations
  BY Places DEF TypeOK
<1>2. at[e] < Len(Condition) => at[e] + 1 \in Allocations
  BY <1>1, Places DEF Allocations
<1> QED
  BY <1>2 DEF Advance, Goto, TypeOK, Working, Stopped

LEMMA TypeInit == Init => TypeOK /\ RowsTyped
<1> SUFFICES ASSUME Init PROVE TypeOK /\ RowsTyped
  OBVIOUS
<1>1. 0 \in 0 .. MaxDeaths /\ 0 \in 0 .. MaxReports
  BY StudyAssumption
<1>2. TypeOK
  BY <1>1 DEF Init, TypeOK
<1>3. RowsTyped
  BY Places DEF Init, RowsTyped
<1> QED
  BY <1>2, <1>3

LEMMA TypeStep == TypeOK /\ RowsTyped /\ [Next]_vars => TypeOK' /\ RowsTyped'
<1> SUFFICES ASSUME TypeOK, RowsTyped, [Next]_vars PROVE TypeOK' /\ RowsTyped'
  OBVIOUS
<1> USE DEF TypeOK
<1>1. ASSUME UNCHANGED <<auditVars>> PROVE RowsTyped'
  BY <1>1 DEF RowsTyped, auditVars
<1>2. CASE Prepare
  <2>1. TypeOK'
    BY <1>2 DEF Prepare, BeginPreparation, EndPreparation, executorVars, auditVars
  <2> QED
    BY <1>1, <1>2, <2>1 DEF Prepare
<1>3. ASSUME NEW e \in Executors, Start(e) PROVE TypeOK' /\ RowsTyped'
  <2>1. pc' \in [Executors -> {"idle"} \cup Working \cup Stopped]
    BY <1>3 DEF Start, Goto, Working, Stopped
  <2>2. overlapped' \in BOOLEAN /\ quiet' \in BOOLEAN
    BY <1>3 DEF Start
  <2>3. TypeOK'
    BY <1>3, <2>1, <2>2 DEF Start, diskVars, auditVars
  <2> QED
    BY <1>1, <1>3, <2>3 DEF Start
<1>4. ASSUME NEW e \in Executors, Check(e) PROVE TypeOK' /\ RowsTyped'
  <2>1. pc' \in [Executors -> {"idle"} \cup Working \cup Stopped]
    BY <1>4 DEF Check, Goto, Working, Stopped
  <2>2. TypeOK'
    BY <1>4, <2>1 DEF Check, diskVars, auditVars
  <2> QED
    BY <1>1, <1>4, <2>2 DEF Check
<1>5. ASSUME NEW e \in Executors, Admit(e) PROVE TypeOK' /\ RowsTyped'
  <2>1. pc' \in [Executors -> {"idle"} \cup Working \cup Stopped]
    BY <1>5 DEF Admit, Goto, Working, Stopped
  <2>2. {[by |-> e, result |-> "open"]} \in SUBSET [by : Executors, result : Results \cup {"open"}]
    OBVIOUS
  <2>3. TypeOK'
    BY <1>5, <2>1, <2>2 DEF Admit, auditVars
  <2> QED
    BY <1>1, <1>5, <2>3 DEF Admit
<1>6. ASSUME NEW e \in Executors, Seal(e) PROVE TypeOK' /\ RowsTyped'
  <2>1. evidence' \in [Allocations -> SUBSET [by : Executors, result : Results \cup {"open"}]]
    <3>1. PICK result \in Results :
             evidence' = [evidence EXCEPT ![at[e]] = {[by |-> e, result |-> result]}]
      BY <1>6 DEF Seal
    <3>2. {[by |-> e, result |-> result]} \in SUBSET [by : Executors, result : Results \cup {"open"}]
      OBVIOUS
    <3> QED
      BY <3>1, <3>2
  <2>2. pc' \in [Executors -> {"idle"} \cup Working \cup Stopped]
    BY <1>6 DEF Seal, Goto, Working, Stopped
  <2>3. TypeOK'
    BY <1>6, <2>1, <2>2 DEF Seal, auditVars
  <2> QED
    BY <1>1, <1>6, <2>3 DEF Seal
<1>7. ASSUME NEW e \in Executors, Raise(e) PROVE TypeOK' /\ RowsTyped'
  <2>1. pc' \in [Executors -> {"idle"} \cup Working \cup Stopped]
    BY <1>7 DEF Raise, Goto, Working, Stopped
  <2>2. TypeOK'
    BY <1>7, <2>1 DEF Raise, diskVars, auditVars
  <2> QED
    BY <1>1, <1>7, <2>2 DEF Raise
<1>16. ASSUME NEW e \in Executors, ReturnRun(e) PROVE TypeOK' /\ RowsTyped'
  <2>1. TypeOK'
    BY <1>16, AdvanceType DEF ReturnRun, diskVars, auditVars
  <2> QED
    BY <1>1, <1>16, <2>1 DEF ReturnRun
<1>8. ASSUME NEW e \in Executors, OpenRecord(e) PROVE TypeOK' /\ RowsTyped'
  <2>1. pc' \in [Executors -> {"idle"} \cup Working \cup Stopped]
    BY <1>8 DEF OpenRecord, Goto, Working, Stopped
  <2>2. {[by |-> e, whole |-> FALSE]} \in SUBSET [by : Executors, whole : BOOLEAN]
    OBVIOUS
  <2>3. at' \in [Executors -> Allocations \cup {1}]
    BY <1>8 DEF OpenRecord
  <2>4. TypeOK'
    BY <1>8, <2>1, <2>2, <2>3 DEF OpenRecord, auditVars
  <2> QED
    BY <1>1, <1>8, <2>4 DEF OpenRecord
<1>9. ASSUME NEW e \in Executors, WriteRecord(e) PROVE TypeOK' /\ RowsTyped'
  <2>1. {[by |-> e, whole |-> TRUE]} \in SUBSET [by : Executors, whole : BOOLEAN]
    OBVIOUS
  <2>2. /\ at' \in [Executors -> Allocations \cup {1}]
        /\ pc' \in [Executors -> {"idle"} \cup Working \cup Stopped]
    <3>1. CASE Advance(e)
      BY <3>1, AdvanceType
    <3>2. CASE Goto(e, "escaped") /\ at' = [at EXCEPT ![e] = 1]
      BY <3>2 DEF Goto, Stopped
    <3> QED
      BY <1>9, <3>1, <3>2 DEF WriteRecord
  <2>3. TypeOK'
    BY <1>9, <2>1, <2>2 DEF WriteRecord, auditVars
  <2> QED
    BY <1>1, <1>9, <2>3 DEF WriteRecord
<1>10. ASSUME NEW e \in Executors, Die(e) PROVE TypeOK' /\ RowsTyped'
  <2>1. pc' \in [Executors -> {"idle"} \cup Working \cup Stopped]
    BY <1>10 DEF Die, Goto, Stopped
  <2>2. deaths' \in 0 .. MaxDeaths
    BY <1>10, StudyAssumption DEF Die
  <2>3. TypeOK'
    BY <1>10, <2>1, <2>2 DEF Die, diskVars, auditVars
  <2> QED
    BY <1>1, <1>10, <2>3 DEF Die
<1>11. CASE BeginAudit
  <2>1. reports' \in 0 .. MaxReports
    BY <1>11, StudyAssumption DEF BeginAudit
  <2>2. TypeOK'
    BY <1>11, <2>1 DEF BeginAudit, diskVars, executorVars
  <2> QED
    BY <1>11, <2>2, Places DEF BeginAudit, RowsTyped
<1>12. CASE ReadFailure
  <2>1. Len(rows) + 1 \in Allocations
    BY <1>12, Places DEF ReadFailure, RowsTyped, Allocations
  <2>2. TypeOK'
    BY <1>12 DEF ReadFailure, diskVars, executorVars
  <2> QED
    BY <1>12, <2>1, <2>2 DEF ReadFailure, RowsTyped
<1>13. CASE ReadEvidence
  <2> DEFINE n == Len(rows) + 1
             row == [condition |-> Condition[n], outcome |-> Outcome(seen, evidence[n])]
             RowSet == [condition : {Condition[i] : i \in Allocations}, outcome : OutcomeSet]
  <2>1. n \in Allocations
    BY <1>13, Places DEF ReadEvidence, RowsTyped, Allocations
  <2>2. Outcome(seen, evidence[n]) \in OutcomeSet
    BY <2>1, OutcomeType DEF RowsTyped
  <2>3. row \in RowSet
    BY <2>1, <2>2
  <2>4. rows \in Seq(RowSet) /\ rows' = Append(rows, row)
    BY <1>13 DEF ReadEvidence, RowsTyped
  <2> HIDE DEF RowSet, row
  <2>5. rows' \in Seq(RowSet) /\ Len(rows') = Len(rows) + 1
    BY <2>3, <2>4
  <2>6. TypeOK'
    BY <1>13 DEF ReadEvidence, diskVars, executorVars
  <2> QED
    BY <1>13, <2>1, <2>5, <2>6, Places DEF ReadEvidence, RowsTyped, RowSet, Allocations
<1>14. CASE Report
  <2>1. TypeOK'
    BY <1>14 DEF Report, diskVars, executorVars
  <2> QED
    BY <1>14, <2>1 DEF Report, RowsTyped
<1>15. CASE UNCHANGED vars
  BY <1>15 DEF vars, diskVars, executorVars, auditVars, RowsTyped
<1> QED
  BY <1>2, <1>3, <1>4, <1>5, <1>6, <1>7, <1>8, <1>9, <1>10, <1>11, <1>12, <1>13, <1>14, <1>15, <1>16
  DEF Next, Execute, Attempt, Audit

-------------------------------------------------------------------------------
(* Executors *)

Executor == TypeOK /\ Exclusive /\ InOrder /\ Alone

(* Where the step of one executor leaves everybody else.                   *)
LEMMA OthersStay ==
    ASSUME TypeOK, NEW e \in Executors, Start(e) \/ Execute(e) \/ Die(e),
           NEW f \in Executors, f # e
    PROVE  pc'[f] = pc[f] /\ at'[f] = at[f]
BY DEF TypeOK, Start, Execute, Attempt, Check, Admit, Seal, ReturnRun, Raise, OpenRecord, WriteRecord,
       Die, Advance, Goto, diskVars

(* The steps of executor e, told by its place before and after.            *)
Ends(e) ==
    /\ pc[e] \in Working /\ pc'[e] \in {"refused", "escaped", "dead"}
    /\ at'[e] = 1 /\ UNCHANGED <<failure, evidence, overlapped>>
Starts(e) ==
    /\ pc[e] = "idle" /\ pc'[e] \in {"check", "refused"} /\ at'[e] = at[e]
    /\ overlapped' = (overlapped \/ \E f \in Executors : pc[f] \in Working)
    /\ UNCHANGED <<failure, evidence>>
Begins(e) ==
    /\ pc[e] = "check" /\ pc'[e] = "attempt" /\ at'[e] = at[e]
    /\ \A i \in Allocations : ~Attempted(i)
    /\ UNCHANGED <<failure, evidence, overlapped>>
Fails(e) ==
    /\ pc[e] \in {"attempt", "run", "sealed"} /\ pc'[e] = "record" /\ at'[e] = at[e]
    /\ UNCHANGED <<failure, evidence, overlapped>>
Opens(e, k) ==
    /\ pc[e] = "attempt" /\ pc'[e] = "run" /\ at'[e] = k
    /\ evidence[k] = {} /\ evidence' = [evidence EXCEPT ![k] = {[by |-> e, result |-> "open"]}]
    /\ UNCHANGED <<failure, overlapped>>
Records(e, k) ==
    /\ pc[e] = "record" /\ pc'[e] = "write" /\ at'[e] = k
    /\ failure[k] = {} /\ failure' = [failure EXCEPT ![k] = {[by |-> e, whole |-> FALSE]}]
    /\ UNCHANGED <<evidence, overlapped>>
MovesOn(e, k) ==
    \/ k < Len(Condition) /\ pc'[e] = "attempt" /\ at'[e] = k + 1
    \/ k = Len(Condition) /\ pc'[e] = "returned" /\ at'[e] = 1
Seals(e, k) ==
    /\ pc[e] = "run" /\ pc'[e] = "sealed" /\ at'[e] = k
    /\ \E result \in Results : evidence' = [evidence EXCEPT ![k] = {[by |-> e, result |-> result]}]
    /\ UNCHANGED <<failure, overlapped>>
Returns(e, k) ==
    /\ pc[e] = "sealed" /\ MovesOn(e, k)
    /\ UNCHANGED <<failure, evidence, overlapped>>
Writes(e, k) ==
    /\ pc[e] = "write" /\ MovesOn(e, k)
    /\ failure' = [failure EXCEPT ![k] = {[by |-> e, whole |-> TRUE]}]
    /\ UNCHANGED <<evidence, overlapped>>

LEMMA ExecutorShape ==
    ASSUME TypeOK, InOrder, NEW e \in Executors, Start(e) \/ Execute(e) \/ Die(e),
           NEW k \in Allocations, k = at[e]
    PROVE  \/ Ends(e) \/ Starts(e) \/ Begins(e) \/ Fails(e)
           \/ Opens(e, k) \/ Records(e, k) \/ Seals(e, k) \/ Returns(e, k) \/ Writes(e, k)
<1> USE DEF TypeOK, Goto
<1>1. CASE Start(e)
  BY <1>1 DEF Start, Starts, diskVars
<1>2. CASE Check(e)
  <2>1. pc[e] \notin Attempting => at[e] = 1
    BY DEF InOrder
  <2>2. at[e] = 1
    BY <1>2, <2>1 DEF Check, Attempting
  <2> QED
    BY <1>2, <2>2 DEF Check, Ends, Begins, Working, diskVars
<1>3. CASE Admit(e)
  BY <1>3 DEF Admit, Opens, Fails
<1>4. ASSUME Advance(e) PROVE MovesOn(e, k)
  BY <1>4, Places DEF Advance, MovesOn
<1>5. CASE Seal(e)
  BY <1>5 DEF Seal, Seals
<1>10. CASE ReturnRun(e)
  <2>1. Advance(e)
    BY <1>10 DEF ReturnRun
  <2> QED
    BY <1>4, <1>10, <2>1 DEF ReturnRun, Returns, diskVars
<1>6. CASE Raise(e)
  BY <1>6 DEF Raise, Fails, diskVars
<1>7. CASE OpenRecord(e)
  BY <1>7 DEF OpenRecord, Records, Ends, Working
<1>8. CASE WriteRecord(e)
  <2>1. CASE Advance(e) /\ failure' = [failure EXCEPT ![at[e]] = {[by |-> e, whole |-> TRUE]}]
    BY <1>4, <1>8, <2>1 DEF WriteRecord, Writes
  <2>2. CASE Goto(e, "escaped") /\ at' = [at EXCEPT ![e] = 1] /\ UNCHANGED failure
    BY <1>8, <2>2 DEF WriteRecord, Ends, Working
  <2> QED
    BY <1>8, <2>1, <2>2 DEF WriteRecord
<1>9. CASE Die(e)
  BY <1>9 DEF Die, Ends, diskVars
<1> QED
  BY <1>1, <1>2, <1>3, <1>5, <1>6, <1>7, <1>8, <1>9, <1>10 DEF Execute, Attempt

(* What a step does to the artifacts: nothing that was finished is lost,   *)
(* and e finishes only the allocation it stands at.                        *)
LEMMA ArtifactsStep ==
    ASSUME Executor, NEW e \in Executors, NEW k \in Allocations, k = at[e],
           \/ Ends(e) \/ Starts(e) \/ Begins(e) \/ Fails(e)
           \/ Opens(e, k) \/ Records(e, k) \/ Seals(e, k) \/ Returns(e, k) \/ Writes(e, k),
           NEW j \in Allocations
    PROVE  /\ j # k => failure'[j] = failure[j] /\ evidence'[j] = evidence[j]
           /\ Authors(failure[j]) \subseteq Authors(failure[j])'
           /\ Authors(evidence[j]) \subseteq Authors(evidence[j])'
           /\ Authors(failure[j] \cup evidence[j])' \subseteq Authors(failure[j] \cup evidence[j]) \cup {e}
           /\ \A r, s \in failure'[j] : r = s
           /\ \A r, s \in evidence'[j] : r = s
           /\ \A f \in Executors :
                 /\ Finished(j, f) => Finished(j, f)'
                 /\ Finished(j, f)' => Finished(j, f) \/
                       (f = e /\ j = k /\ (Seals(e, k) \/ Writes(e, k)))
           /\ Returns(e, k) \/ Writes(e, k) => Finished(k, e)'
<1> USE DEF Executor
<1>1. CASE Ends(e) \/ Starts(e) \/ Begins(e) \/ Fails(e) \/ Returns(e, k)
  <2>1. failure' = failure /\ evidence' = evidence
    BY <1>1 DEF Ends, Starts, Begins, Fails, Returns
  <2>2. ~Writes(e, k)
    BY <1>1 DEF Ends, Starts, Begins, Fails, Returns, Writes, MovesOn, Working
  <2>3. ASSUME Returns(e, k) PROVE Finished(k, e)'
    <3>1. PICK result \in Results : evidence[k] = {[by |-> e, result |-> result]}
      BY <2>3 DEF Returns, Exclusive
    <3>2. result # "open"
      BY <3>1, StudyAssumption
    <3> QED
      BY <2>1, <3>1, <3>2 DEF Finished
  <2> QED
    BY <2>1, <2>2, <2>3 DEF Finished, Exclusive, Authors
<1>2. CASE Opens(e, k)
  <2> DEFINE new == [by |-> e, result |-> "open"]
  <2>1. /\ failure' = failure /\ evidence[k] = {} /\ evidence'[k] = {new}
        /\ j # k => evidence'[j] = evidence[j]
        /\ new.by = e /\ new.result = "open"
    BY <1>2 DEF Opens, TypeOK
  <2>2. ~Returns(e, k) /\ ~Writes(e, k)
    BY <1>2 DEF Opens, Returns, Writes
  <2> HIDE DEF new
  <2> QED
    BY <2>1, <2>2 DEF Finished, Exclusive, Authors
<1>3. CASE Records(e, k)
  <2> DEFINE new == [by |-> e, whole |-> FALSE]
  <2>1. /\ evidence' = evidence /\ failure[k] = {} /\ failure'[k] = {new}
        /\ j # k => failure'[j] = failure[j]
        /\ new.by = e /\ new.whole = FALSE
    BY <1>3 DEF Records, TypeOK
  <2>2. ~Returns(e, k) /\ ~Writes(e, k)
    BY <1>3 DEF Records, Returns, Writes
  <2> HIDE DEF new
  <2> QED
    BY <2>1, <2>2 DEF Finished, Exclusive, Authors
<1>4. CASE Seals(e, k)
  <2> DEFINE old == [by |-> e, result |-> "open"]
             new(result) == [by |-> e, result |-> result]
  <2>1. PICK result \in Results : evidence' = [evidence EXCEPT ![k] = {new(result)}]
    BY <1>4 DEF Seals
  <2>2. /\ failure' = failure /\ evidence[k] = {old} /\ evidence'[k] = {new(result)}
        /\ j # k => evidence'[j] = evidence[j]
        /\ old.by = e /\ old.result = "open"
        /\ new(result).by = e /\ new(result).result = result /\ result # "open"
    BY <1>4, <2>1, StudyAssumption DEF Seals, TypeOK, Exclusive
  <2>3. ~Returns(e, k) /\ ~Writes(e, k)
    BY <1>4 DEF Seals, Returns, Writes
  <2> HIDE DEF old, new
  <2> QED
    BY <1>4, <2>2, <2>3 DEF Finished, Exclusive, Authors
<1>5. CASE Writes(e, k)
  <2> DEFINE old == [by |-> e, whole |-> FALSE]
             new == [by |-> e, whole |-> TRUE]
  <2>1. /\ evidence' = evidence /\ failure[k] = {old} /\ failure'[k] = {new}
        /\ j # k => failure'[j] = failure[j]
        /\ old.by = e /\ old.whole = FALSE /\ new.by = e /\ new.whole = TRUE
    BY <1>5 DEF Writes, TypeOK, Exclusive
  <2> HIDE DEF old, new
  <2> QED
    BY <1>5, <2>1 DEF Finished, Exclusive, Authors
<1> QED
  BY <1>1, <1>2, <1>3, <1>4, <1>5

Step(e, k) ==
    \/ Ends(e) \/ Starts(e) \/ Begins(e) \/ Fails(e)
    \/ Opens(e, k) \/ Records(e, k) \/ Seals(e, k) \/ Returns(e, k) \/ Writes(e, k)
StandStill(e) == \A f \in Executors \ {e} : pc'[f] = pc[f] /\ at'[f] = at[f]

LEMMA ExclusiveStep ==
    ASSUME Executor, NEW e \in Executors, NEW k \in Allocations, k = at[e],
           Step(e, k), StandStill(e)
    PROVE  Exclusive'
<1>0. ASSUME NEW j \in Allocations, j # k
      PROVE  failure'[j] = failure[j] /\ evidence'[j] = evidence[j]
  BY <1>0 DEF Step, Ends, Starts, Begins, Fails, Opens, Records, Seals, Returns, Writes, Executor, TypeOK
<1> USE DEF Executor
<1>1. \A i \in Allocations : /\ \A r, s \in failure'[i] : r = s
                             /\ \A r, s \in evidence'[i] : r = s
  BY ArtifactsStep DEF Step
<1>2. ASSUME NEW f \in Executors
      PROVE  /\ pc'[f] = "run" => evidence'[at'[f]] = {[by |-> f, result |-> "open"]}
             /\ pc'[f] = "sealed" =>
                   \E result \in Results : evidence'[at'[f]] = {[by |-> f, result |-> result]}
             /\ pc'[f] = "write" => failure'[at'[f]] = {[by |-> f, whole |-> FALSE]}
  <2>1. CASE f = e
    BY <2>1 DEF Step, Ends, Starts, Begins, Fails, Opens, Records, Seals, Returns, Writes, MovesOn,
                Exclusive, TypeOK
  <2>2. CASE f # e
    <3>1. PICK l \in Allocations : l = at[f] /\ l = at'[f] /\ pc'[f] = pc[f]
      BY <2>2, Places DEF StandStill, TypeOK
    <3>2. ASSUME pc[f] = "run" PROVE evidence'[l] = {[by |-> f, result |-> "open"]}
      <4>1. evidence[l] = {[by |-> f, result |-> "open"]}
        BY <3>1, <3>2 DEF Exclusive
      <4>2. pc[e] = "run" => evidence[k] = {[by |-> e, result |-> "open"]}
        BY DEF Exclusive
      <4>3. [by |-> f, result |-> "open"] # [by |-> e, result |-> "open"]
        BY <2>2
      <4>4. evidence' = evidence \/ l # k
        BY <4>1, <4>2, <4>3 DEF Step, Ends, Starts, Begins, Fails, Opens, Records, Seals, Returns, Writes
      <4> QED
        BY <1>0, <4>1, <4>4
    <3>3. ASSUME pc[f] = "write" PROVE failure'[l] = {[by |-> f, whole |-> FALSE]}
      <4>1. failure[l] = {[by |-> f, whole |-> FALSE]}
        BY <3>1, <3>3 DEF Exclusive
      <4>2. pc[e] = "write" => failure[k] = {[by |-> e, whole |-> FALSE]}
        BY DEF Exclusive
      <4>3. [by |-> f, whole |-> FALSE] # [by |-> e, whole |-> FALSE]
        BY <2>2
      <4>4. failure' = failure \/ l # k
        BY <4>1, <4>2, <4>3 DEF Step, Ends, Starts, Begins, Fails, Opens, Records, Seals, Returns, Writes
      <4> QED
        BY <1>0, <4>1, <4>4
    <3>4. ASSUME pc[f] = "sealed"
          PROVE  \E result \in Results : evidence'[l] = {[by |-> f, result |-> result]}
      <4>1. PICK result \in Results : evidence[l] = {[by |-> f, result |-> result]}
        BY <3>1, <3>4 DEF Exclusive
      <4>2. pc[e] = "run" => evidence[k] = {[by |-> e, result |-> "open"]}
        BY DEF Exclusive
      <4>3. [by |-> f, result |-> result] # [by |-> e, result |-> "open"]
        BY <2>2
      <4>4. evidence' = evidence \/ l # k
        BY <4>1, <4>2, <4>3
        DEF Step, Ends, Starts, Begins, Fails, Opens, Records, Seals, Returns, Writes
      <4> QED
        BY <1>0, <4>1, <4>4
    <3> QED
      BY <3>1, <3>2, <3>3, <3>4
  <2> QED
    BY <2>1, <2>2
<1> QED
  BY <1>1, <1>2 DEF Exclusive

LEMMA InOrderStep ==
    ASSUME Executor, NEW e \in Executors, NEW k \in Allocations, k = at[e],
           Step(e, k), StandStill(e)
    PROVE  InOrder'
<1>4. \A j \in Allocations, f \in Executors :
         /\ Finished(j, f) => Finished(j, f)'
         /\ Finished(j, f)' => Finished(j, f) \/
               (f = e /\ j = k /\ (Seals(e, k) \/ Writes(e, k)))
  BY ArtifactsStep DEF Step
<1> USE DEF Executor
<1>1. ASSUME NEW f \in Executors, pc'[f] \notin Attempting PROVE at'[f] = 1
  <2>1. CASE f = e
    BY <1>1, <2>1 DEF Step, Ends, Starts, Begins, Fails, Opens, Records, Seals, Returns, Writes, MovesOn,
                      InOrder, Attempting
  <2>2. CASE f # e
    BY <1>1, <2>2 DEF StandStill, InOrder
  <2> QED
    BY <2>1, <2>2
<1>2. ASSUME NEW f \in Executors, NEW j \in Allocations,
             pc'[f] = "returned" \/ (pc'[f] \in Attempting /\ j < at'[f])
      PROVE  Finished(j, f)'
  <2>1. CASE f # e
    BY <1>2, <2>1, <1>4 DEF StandStill, InOrder
  <2>2. CASE f = e
    <3>1. CASE Ends(e) \/ Starts(e) \/ Begins(e)
      <4>1. at'[e] = 1 /\ pc'[e] # "returned"
        BY <3>1 DEF Ends, Starts, Begins, InOrder, Attempting
      <4> QED
        BY <1>2, <2>2, <4>1, Places
    <3>2. CASE Fails(e) \/ Opens(e, k) \/ Records(e, k) \/ Seals(e, k)
      <4>1. at'[e] = k /\ pc'[e] # "returned" /\ pc[e] \in Attempting
        BY <3>2 DEF Fails, Opens, Records, Seals, Attempting
      <4> QED
        BY <1>2, <2>2, <4>1, <1>4 DEF InOrder
    <3>3. CASE Returns(e, k) \/ Writes(e, k)
      <4>1. pc[e] \in Attempting /\ j <= k
        BY <1>2, <2>2, <3>3, Places DEF Returns, Writes, MovesOn, Attempting
      <4>2. j < k => Finished(j, e)
        BY <4>1 DEF InOrder
      <4>3. Finished(k, e)'
        BY <3>3, ArtifactsStep
      <4>4. j < k \/ j = k
        BY <4>1, Places
      <4> QED
        BY <2>2, <4>2, <4>3, <4>4, <1>4
    <3> QED
      BY <3>1, <3>2, <3>3 DEF Step
  <2> QED
    BY <2>1, <2>2
<1>3. ASSUME NEW f \in Executors, NEW i \in Allocations, NEW j \in Allocations,
             Finished(i, f)', j < i
      PROVE  Finished(j, f)'
  <2>1. CASE Finished(i, f)
    BY <1>3, <2>1, <1>4 DEF InOrder
  <2>2. CASE f = e /\ i = k /\ (Seals(e, k) \/ Writes(e, k))
    <3>1. pc[e] \in Attempting
      BY <2>2 DEF Seals, Returns, Writes, Attempting
    <3>2. Finished(j, f)
      BY <1>3, <2>2, <3>1 DEF InOrder
    <3> QED
      BY <3>2, <1>4
  <2> QED
    BY <1>3, <2>1, <2>2, <1>4
<1> QED
  BY <1>1, <1>2, <1>3 DEF InOrder

(* Whoever acts on a Study that only it has touched leaves it so.          *)
LEMMA UntouchedStep ==
    ASSUME Executor, NEW e \in Executors, NEW k \in Allocations, k = at[e],
           Step(e, k), pc'[e] \in Attempting \cup {"returned"},
           pc[e] \in Attempting => UntouchedAhead(e)
    PROVE  /\ \A a \in Artifacts' : a.by = e
           /\ pc'[e] \in Attempting => UntouchedAhead(e)'
           /\ pc'[e] = "returned" =>
                 \A j \in Allocations : Ended(failure'[j], evidence'[j])
<1>0. ASSUME NEW j \in Allocations, j # k
      PROVE  failure'[j] = failure[j] /\ evidence'[j] = evidence[j]
  BY <1>0 DEF Step, Ends, Starts, Begins, Fails, Opens, Records, Seals, Returns, Writes, Executor, TypeOK
<1> USE DEF Executor
<1>1. CASE Ends(e) \/ Starts(e)
  BY <1>1 DEF Ends, Starts, Attempting
<1>2. CASE Begins(e)
  <2>1. \A i \in Allocations : failure'[i] = {} /\ evidence'[i] = {}
    BY <1>2 DEF Begins, Attempted
  <2>2. at'[e] = 1 /\ pc'[e] = "attempt"
    BY <1>2 DEF Begins, InOrder, Attempting
  <2>3. Artifacts' = {}
    BY <2>1 DEF Artifacts
  <2> QED
    BY <2>1, <2>2, <2>3, Places DEF UntouchedAhead, Attempted
<1>3. CASE ~(Ends(e) \/ Starts(e) \/ Begins(e))
  <2>1. UntouchedAhead(e)
    BY <1>3 DEF Step, Fails, Opens, Records, Seals, Returns, Writes, Attempting
  <2>2. ASSUME NEW j \in Allocations, NEW a \in failure'[j] \cup evidence'[j] PROVE a.by = e
    <3>1. a.by \in Authors(failure[j] \cup evidence[j])'
      BY DEF Authors
    <3>2. Authors(failure[j] \cup evidence[j]) \subseteq {e}
      BY <2>1 DEF UntouchedAhead, Artifacts, Authors
    <3> QED
      BY <3>1, <3>2, ArtifactsStep DEF Step
  <2>3. \A a \in Artifacts' : a.by = e
    BY <2>2 DEF Artifacts
  <2>4. CASE Fails(e) \/ Opens(e, k) \/ Records(e, k) \/ Seals(e, k)
    <3>1. at'[e] = k /\ pc'[e] \in {"run", "sealed", "record", "write"}
      BY <2>4 DEF Fails, Opens, Records, Seals
    <3>2. ASSUME NEW j \in Allocations
          PROVE  /\ j > k => ~Attempted(j)'
                 /\ j < k => Ended(failure'[j], evidence'[j])
      BY <1>0, <2>1, Places DEF UntouchedAhead, Attempted
    <3>3. pc'[e] \in {"run", "sealed", "record"} => failure'[k] = {}
      BY <2>1, <2>4 DEF Fails, Opens, Records, Seals, UntouchedAhead
    <3> QED
      BY <2>3, <3>1, <3>2, <3>3 DEF UntouchedAhead, Attempting
  <2>5. CASE Returns(e, k) \/ Writes(e, k)
    <3>1. failure'[k] \in SUBSET [by : Executors, whole : BOOLEAN]
          /\ evidence'[k] \in SUBSET [by : Executors, result : Results \cup {"open"}]
      <4>1. {[by |-> e, whole |-> TRUE]} \in SUBSET [by : Executors, whole : BOOLEAN]
        OBVIOUS
      <4> QED
        BY <2>5, <4>1 DEF Returns, Writes, TypeOK
    <3>2. Ended(failure'[k], evidence'[k])
      <4>1. CASE Returns(e, k)
        <5>1. failure'[k] = {}
          BY <2>1, <4>1 DEF Returns, UntouchedAhead
        <5>2. PICK result \in Results : evidence'[k] = {[by |-> e, result |-> result]}
          BY <4>1 DEF Returns, Exclusive
        <5>3. \E r \in evidence'[k] : evidence'[k] = {r} /\ r.result # "open"
          BY <5>2, StudyAssumption
        <5> QED
          BY <3>1, <5>1, <5>3, FinishedIsEnded
      <4>2. CASE Writes(e, k)
        <5>1. \E r \in failure'[k] : failure'[k] = {r} /\ r.whole
          BY <4>2 DEF Writes, TypeOK
        <5> QED
          BY <3>1, <5>1, FinishedIsEnded
      <4> QED
        BY <2>5, <4>1, <4>2
    <3>3. ASSUME NEW j \in Allocations
          PROVE  /\ j > k => ~Attempted(j)'
                 /\ j <= k => Ended(failure'[j], evidence'[j])
      <4>1. j > k => ~Attempted(j)'
        BY <1>0, <2>1, Places DEF UntouchedAhead, Attempted
      <4>2. j < k => Ended(failure'[j], evidence'[j])
        BY <1>0, <2>1, Places DEF UntouchedAhead
      <4>3. j <= k => j < k \/ j = k
        BY Places
      <4> QED
        BY <3>2, <4>1, <4>2, <4>3
    <3>4. CASE pc'[e] = "attempt" /\ at'[e] = k + 1 /\ k < Len(Condition)
      <4>1. k + 1 \in Allocations /\ k + 1 > k
        BY <3>4, Places DEF Allocations
      <4>2. \A j \in Allocations : (j > k + 1 => j > k) /\ (j < k + 1 => j <= k)
        BY Places
      <4>3. failure'[k + 1] = {} /\ evidence'[k + 1] = {}
        BY <3>3, <4>1 DEF Attempted
      <4> QED
        BY <2>3, <3>3, <3>4, <4>1, <4>2, <4>3 DEF UntouchedAhead, Attempted
    <3>5. CASE pc'[e] = "returned" /\ k = Len(Condition)
      BY <2>3, <3>3, <3>5, Places DEF Attempting
    <3> QED
      BY <2>5, <3>4, <3>5 DEF Returns, Writes, MovesOn
  <2> QED
    BY <1>3, <2>4, <2>5 DEF Step
<1> QED
  BY <1>1, <1>2, <1>3

LEMMA AloneStep ==
    ASSUME Executor, NEW e \in Executors, NEW k \in Allocations, k = at[e],
           Step(e, k), StandStill(e)
    PROVE  Alone'
<1> SUFFICES ASSUME ~overlapped' PROVE Alone'
  BY DEF Alone
<1> USE DEF Executor
<1>1. ~overlapped /\ OnlyWorker /\ OneAuthor
  <2>1. ~overlapped
    BY DEF Step, Ends, Starts, Begins, Fails, Opens, Records, Seals, Returns, Writes
  <2> QED
    BY <2>1 DEF Alone
<1>2. pc[e] \in Attempting => UntouchedAhead(e)
  BY <1>1 DEF Alone
<1>3. Starts(e) => \A f \in Executors : pc[f] \notin Working
  BY DEF Starts
<1>4. ~Starts(e) => pc[e] \in Working
  BY DEF Step, Ends, Begins, Fails, Opens, Records, Seals, Returns, Writes, Working
<1>5. \A f \in Executors \ {e} : pc[f] \notin Working
  BY <1>1, <1>3, <1>4 DEF OnlyWorker
<1>6. OnlyWorker'
  BY <1>5 DEF OnlyWorker, StandStill
<1>7. CASE Ends(e) \/ Starts(e)
  <2>1. failure' = failure /\ evidence' = evidence /\ pc'[e] \notin Attempting \cup {"returned"}
    BY <1>7 DEF Ends, Starts, Attempting
  <2>2. OneAuthor'
    BY <1>1, <2>1 DEF OneAuthor, Artifacts
  <2>3. ASSUME NEW f \in Executors
        PROVE  /\ pc'[f] \notin Attempting
               /\ pc'[f] = "returned" => pc[f] = "returned"
    BY <1>5, <2>1, Places DEF StandStill
  <2>4. \A f \in Executors : pc[f] = "returned" =>
           \A j \in Allocations : Ended(failure[j], evidence[j])
    BY <1>1 DEF Alone
  <2> QED
    BY <1>6, <2>1, <2>2, <2>3, <2>4 DEF Alone
<1>8. CASE ~(Ends(e) \/ Starts(e))
  <2>1. pc'[e] \in Attempting \cup {"returned"} /\ pc[e] \in Working
    BY <1>8 DEF Step, Begins, Fails, Opens, Records, Seals, Returns, Writes, MovesOn, Attempting, Working
  <2>2. /\ \A a \in Artifacts' : a.by = e
        /\ pc'[e] \in Attempting => UntouchedAhead(e)'
        /\ pc'[e] = "returned" =>
              \A j \in Allocations : Ended(failure'[j], evidence'[j])
    BY <1>2, <2>1, UntouchedStep
  <2>3. OneAuthor'
    BY <2>2 DEF OneAuthor
  <2>4. ASSUME NEW f \in Executors \ {e} PROVE pc'[f] \notin Attempting /\ pc'[f] # "returned"
    <3>1. pc'[f] = pc[f] /\ pc[f] \notin Attempting
      BY <1>5, Places DEF StandStill
    <3>2. ASSUME pc[f] = "returned" PROVE FALSE
      <4>1. Finished(1, f)
        BY <3>2, Places DEF InOrder
      <4>2. PICK a \in failure[1] \cup evidence[1] : a.by = f
        BY <4>1 DEF Finished
      <4>3. a \in Artifacts
        BY <4>2, Places DEF Artifacts
      <4>4. Begins(e) => failure[1] = {} /\ evidence[1] = {}
        BY Places DEF Begins, Attempted
      <4>5. pc[e] \in Attempting
        BY <1>8, <4>2, <4>4 DEF Step, Fails, Opens, Records, Seals, Returns, Writes, Attempting
      <4>6. a.by = e
        BY <1>2, <4>3, <4>5 DEF UntouchedAhead
      <4> QED
        BY <4>2, <4>6
    <3> QED
      BY <3>1, <3>2
  <2>5. \A f \in Executors : f = e \/ f \in Executors \ {e}
    OBVIOUS
  <2> QED
    BY <1>6, <2>2, <2>3, <2>4, <2>5 DEF Alone
<1> QED
  BY <1>7, <1>8

(* The rows stand while executors work: artifacts never change hands.      *)
LEMMA RowsKept ==
    ASSUME Executor, RowsTyped, RowsAreRead, NEW e \in Executors, NEW k \in Allocations, k = at[e],
           Step(e, k), StandStill(e), UNCHANGED auditVars,
           quiet' = (quiet /\ ~Starts(e))
    PROVE  RowsAreRead'
<1>1. ~quiet'
  BY DEF Step, Ends, Begins, Fails, Opens, Records, Seals, Returns, Writes, Working, RowsAreRead
<1>2. rows' = rows /\ seen' = seen /\ auditPc' = auditPc
  BY DEF auditVars
<1>3. ASSUME NEW j \in Allocations
      PROVE  /\ Authors(failure[j]) \subseteq Authors(failure'[j])
             /\ Authors(failure[j] \cup evidence[j]) \subseteq Authors(failure'[j] \cup evidence'[j])
  <2>1. /\ Authors(failure[j]) \subseteq Authors(failure[j])'
        /\ Authors(evidence[j]) \subseteq Authors(evidence[j])'
    BY ArtifactsStep DEF Step
  <2> QED
    BY <2>1 DEF Authors
<1>4. ASSUME NEW i \in 1 .. Len(rows') PROVE RowIsRead(i)'
  <2>1. i \in Allocations
    BY <1>2, Places DEF RowsTyped, Allocations, Executor, TypeOK
  <2>2. RowIsRead(i)
    BY <1>2 DEF RowsAreRead
  <2> QED
    BY <1>1, <1>2, <1>3, <2>1, <2>2 DEF RowIsRead
<1>5. ASSUME auditPc' = "evidence" PROVE Authors(seen') \subseteq Authors(failure'[Len(rows') + 1])
  <2>1. Len(rows) + 1 \in Allocations
    BY <1>2, <1>5, Places DEF RowsTyped, Allocations
  <2> QED
    BY <1>2, <1>3, <1>5, <2>1 DEF RowsAreRead
<1> QED
  BY <1>1, <1>4, <1>5 DEF RowsAreRead

LEMMA RowsAudit ==
    ASSUME Executor, RowsTyped, RowsAreRead, Audit
    PROVE  RowsAreRead'
<1>1. CASE BeginAudit
  BY <1>1 DEF BeginAudit, RowsAreRead, RowsTyped, executorVars
<1>2. CASE ReadFailure
  BY <1>2 DEF ReadFailure, RowsAreRead, RowIsRead, executorVars, diskVars
<1>3. CASE ReadEvidence
  <2> DEFINE n == Len(rows) + 1
             row == [condition |-> Condition[n], outcome |-> Outcome(seen, evidence[n])]
             RowSet == [condition : {Condition[i] : i \in Allocations}, outcome : OutcomeSet]
  <2>1. n \in Allocations
    BY <1>3, Places DEF ReadEvidence, RowsTyped, Allocations
  <2>2. /\ rows \in Seq(RowSet) /\ rows' = Append(rows, row)
        /\ failure' = failure /\ evidence' = evidence /\ pc' = pc /\ quiet' = quiet
        /\ auditPc' # "evidence"
    BY <1>3 DEF ReadEvidence, RowsTyped, executorVars, diskVars
  <2>3. row.outcome = Outcome(seen, evidence[n])
    OBVIOUS
  <2> HIDE DEF row, RowSet
  <2>4. Len(rows') = n /\ rows'[n] = row /\ \A i \in 1 .. Len(rows) : rows'[i] = rows[i]
    BY <2>2
  <2>5. /\ row.outcome.by \subseteq Authors(failure[n] \cup evidence[n])
        /\ row.outcome.terminal => row.outcome.by # {}
        /\ quiet => row.outcome = Outcome(failure[n], evidence[n])
    <3>1. /\ Outcome(seen, evidence[n]).by \subseteq Authors(seen \cup evidence[n])
          /\ Outcome(seen, evidence[n]).terminal => Outcome(seen, evidence[n]).by # {}
      BY <2>1, OutcomeAuthors DEF RowsTyped, Executor, TypeOK
    <3>2. Authors(seen) \subseteq Authors(failure[n]) /\ (quiet => seen = failure[n])
      BY <1>3 DEF ReadEvidence, RowsAreRead
    <3>3. Authors(seen \cup evidence[n]) \subseteq Authors(failure[n] \cup evidence[n])
      BY <3>2 DEF Authors
    <3> QED
      BY <2>3, <3>1, <3>2, <3>3
  <2>6. ASSUME NEW i \in 1 .. Len(rows') PROVE RowIsRead(i)'
    <3>1. CASE i = n
      BY <2>2, <2>4, <2>5, <3>1 DEF RowIsRead
    <3>2. CASE i # n
      <4>1. i \in 1 .. Len(rows)
        BY <2>2, <2>4, <3>2
      <4> QED
        BY <2>2, <2>4, <4>1 DEF RowIsRead, RowsAreRead
    <3> QED
      BY <3>1, <3>2
  <2> QED
    BY <2>2, <2>6 DEF RowsAreRead
<1>4. CASE Report
  BY <1>4 DEF Report, RowsAreRead, executorVars
<1> QED
  BY <1>1, <1>2, <1>3, <1>4 DEF Audit

-------------------------------------------------------------------------------
(* The inductive invariant *)

LEMMA StudyInit == Init => IInv
<1> SUFFICES ASSUME Init PROVE IInv
  OBVIOUS
<1>1. Exclusive /\ InOrder /\ RowsAreRead
  BY DEF Init, Exclusive, InOrder, RowsAreRead, Attempting, Finished, Working
<1>2. Alone
  BY DEF Init, Alone, OnlyWorker, OneAuthor, Artifacts, Attempting, Working
<1> QED
  BY <1>1, <1>2, TypeInit DEF IInv

LEMMA StudyStep == IInv /\ [Next]_vars => IInv'
<1> SUFFICES ASSUME IInv, [Next]_vars PROVE IInv'
  OBVIOUS
<1>1. TypeOK' /\ RowsTyped'
  BY TypeStep DEF IInv
<1>2. Executor /\ RowsTyped /\ RowsAreRead
  BY DEF IInv, Executor
<1>3. ASSUME UNCHANGED <<failure, evidence, pc, at, overlapped>>
      PROVE  Exclusive' /\ InOrder' /\ Alone'
  BY <1>2, <1>3 DEF Executor, Exclusive, InOrder, Finished, Alone, OnlyWorker, OneAuthor, Artifacts,
                    UntouchedAhead, Attempted
<1>4. CASE Prepare \/ UNCHANGED vars
  <2>1. UNCHANGED <<failure, evidence, executorVars, auditVars, quiet>>
    BY <1>4 DEF Prepare, vars, diskVars
  <2>2. RowsAreRead'
    BY <1>2, <2>1 DEF RowsAreRead, RowIsRead, executorVars, auditVars
  <2> QED
    BY <1>1, <1>3, <2>1, <2>2 DEF IInv, executorVars
<1>5. CASE Audit
  <2>1. UNCHANGED <<failure, evidence, executorVars>>
    BY <1>5 DEF Audit, BeginAudit, ReadFailure, ReadEvidence, Report, diskVars
  <2>2. RowsAreRead'
    BY <1>2, <1>5, RowsAudit
  <2> QED
    BY <1>1, <1>3, <2>1, <2>2 DEF IInv, executorVars
<1>6. ASSUME NEW e \in Executors, Start(e) \/ Execute(e) \/ Die(e) PROVE IInv'
  <2>1. PICK k \in Allocations : k = at[e]
    BY <1>2, Places DEF Executor, TypeOK
  <2>2. Step(e, k)
    BY <1>2, <1>6, <2>1, ExecutorShape DEF Executor, Step
  <2>3. StandStill(e)
    BY <1>2, <1>6, OthersStay DEF Executor, StandStill
  <2>4. UNCHANGED auditVars
    BY <1>6 DEF Start, Execute, Attempt, Check, Admit, Seal, ReturnRun, Raise, OpenRecord, WriteRecord, Die
  <2>5. quiet' = (quiet /\ ~Starts(e))
    <3>1. CASE Start(e)
      BY <1>2, <3>1 DEF Start, Starts, Goto, diskVars, Executor, TypeOK
    <3>2. CASE Execute(e) \/ Die(e)
      <4>1. quiet' = quiet /\ pc[e] # "idle"
        BY <3>2 DEF Execute, Attempt, Check, Admit, Seal, ReturnRun, Raise, OpenRecord, WriteRecord,
                    Die, Working
      <4> QED
        BY <1>2, <4>1 DEF Starts, Executor, TypeOK
    <3> QED
      BY <1>6, <3>1, <3>2
  <2>6. Exclusive' /\ InOrder' /\ Alone'
    BY <1>2, <2>1, <2>2, <2>3, ExclusiveStep, InOrderStep, AloneStep
  <2>7. RowsAreRead'
    BY <1>2, <2>1, <2>2, <2>3, <2>4, <2>5, RowsKept
  <2> QED
    BY <1>1, <2>6, <2>7 DEF IInv
<1> QED
  BY <1>4, <1>5, <1>6 DEF Next

LEMMA StudyInvariant == Spec => []IInv
  BY StudyInit, StudyStep, PTL DEF Spec

-------------------------------------------------------------------------------
(* Theorems *)

(* execute_study and audit_study keep a Study's state typed.               *)
THEOREM StudyTyped == Spec => []TypeOK
<1>1. IInv => TypeOK
  BY DEF IInv
<1> QED
  BY <1>1, StudyInvariant, PTL

LEMMA AtMostOneAuthor ==
    ASSUME NEW S, \A a, b \in S : a = b
    PROVE  IsFiniteSet(S) /\ Cardinality(S) <= 1
<1>1. CASE S = {}
  BY <1>1, FS_EmptySet
<1>2. CASE S # {}
  <2>1. PICK a \in S : S = {a}
    BY <1>2
  <2>2. IsFiniteSet({a}) /\ Cardinality({a}) = 1
    BY FS_Singleton
  <2> QED
    BY <2>1, <2>2
<1> QED
  BY <1>1, <1>2

(* Unless two executors worked at once, whatever died where: one of them   *)
(* wrote everything in the Study, and execute_study returns only when      *)
(* every allocation has an outcome, or a Run that ended beside its failure *)
(* record, or an archive the audit refuses (study_execution.py,            *)
(* execute_study; study_analysis.py, _read_outcome).                       *)
THEOREM AttemptedOnce == Spec => []NoReplacement
<1>1. ASSUME IInv PROVE NoReplacement
  <2> SUFFICES ASSUME ~overlapped
               PROVE  /\ Cardinality(Authors(Artifacts)) <= 1
                      /\ (\E e \in Executors : pc[e] = "returned") =>
                            \A i \in Allocations : Ended(failure[i], evidence[i])
    BY DEF NoReplacement
  <2>1. OneAuthor /\ \A e \in Executors : pc[e] = "returned" =>
           \A j \in Allocations : Ended(failure[j], evidence[j])
    BY <1>1 DEF IInv, Alone
  <2>2. \A a, b \in Authors(Artifacts) : a = b
    BY <2>1 DEF OneAuthor, Authors
  <2> QED
    BY <2>1, <2>2, AtMostOneAuthor
<1> QED
  BY <1>1, StudyInvariant, PTL


(* An estimand published while nobody works, or of a Study in which no two *)
(* ever worked at once, is about the Runs of one executor: whoever touched *)
(* the Study with it left an allocation contradictory or unfinished        *)
(* (study_analysis.py, _read_outcome and audit_study).                     *)
THEOREM OneExecutorsEstimand == Spec => []EstimandIsOfOneExecutor
<1>1. ASSUME IInv PROVE EstimandIsOfOneExecutor
  <2> SUFFICES ASSUME auditPc = "report", Available(rows), quiet \/ ~overlapped
               PROVE  Cardinality(UNION {rows[i].outcome.by : i \in DOMAIN rows}) = 1
    BY DEF EstimandIsOfOneExecutor
  <2>1. DOMAIN rows = Allocations /\ Len(rows) = Len(Condition)
    BY <1>1 DEF IInv, RowsTyped, Allocations
  <2>2. ASSUME NEW i \in Allocations
        PROVE  /\ rows[i].outcome.terminal /\ rows[i].outcome.verified
               /\ RowIsRead(i)
    BY <1>1, <2>1 DEF IInv, RowsAreRead, Available, Complete, Allocations
  <2>3. \E e \in Executors : \A i \in Allocations : rows[i].outcome.by = {e}
    <3>1. CASE quiet
      <4>1. ASSUME NEW i \in Allocations
            PROVE  \E e \in Executors : /\ rows[i].outcome.by = {e} /\ Finished(i, e)
                                        /\ \A f \in Executors : Finished(i, f) => f = e
        <5>1. rows[i].outcome = Outcome(failure[i], evidence[i])
          BY <2>2, <3>1 DEF RowIsRead
        <5>2. /\ failure[i] \in SUBSET [by : Executors, whole : BOOLEAN]
              /\ evidence[i] \in SUBSET [by : Executors, result : Results \cup {"open"}]
              /\ \A r, s \in failure[i] : r = s
              /\ \A r, s \in evidence[i] : r = s
          BY <1>1 DEF IInv, TypeOK, Exclusive
        <5>3. \/ /\ evidence[i] = {}
                 /\ \E r \in failure[i] : failure[i] = {r} /\ r.whole /\ rows[i].outcome.by = {r.by}
              \/ /\ failure[i] = {}
                 /\ \E r \in evidence[i] : evidence[i] = {r} /\ r.result # "open"
                                           /\ rows[i].outcome.by = {r.by}
          <6>1. Outcome(failure[i], evidence[i]).terminal /\ Outcome(failure[i], evidence[i]).verified
            BY <2>2, <5>1
          <6>2. PICK f \in SUBSET [by : Executors, whole : BOOLEAN],
                     v \in SUBSET [by : Executors, result : Results \cup {"open"}] :
                        f = failure[i] /\ v = evidence[i]
            BY <5>2
          <6>4. /\ \A r, s \in f : r = s
                /\ \A r, s \in v : r = s
                /\ Outcome(f, v).terminal /\ Outcome(f, v).verified
            BY <5>2, <6>1, <6>2
          <6>3. \/ /\ v = {}
                   /\ \E r \in f : f = {r} /\ r.whole /\ Outcome(f, v).by = {r.by}
                \/ /\ f = {}
                   /\ \E r \in v : v = {r} /\ r.result # "open" /\ Outcome(f, v).by = {r.by}
            BY <6>4, OutcomeCounts
          <6> QED
            BY <5>1, <6>2, <6>3
        <5> QED
          BY <5>2, <5>3 DEF Finished
      <4>2. Len(Condition) \in Allocations /\ \A i \in Allocations : i <= Len(Condition)
        BY Places DEF Allocations
      <4>3. PICK e \in Executors : rows[Len(Condition)].outcome.by = {e} /\ Finished(Len(Condition), e)
        BY <4>1, <4>2
      <4>4. ASSUME NEW i \in Allocations PROVE Finished(i, e)
        <5>1. i < Len(Condition) \/ i = Len(Condition)
          BY Places
        <5> QED
          BY <1>1, <4>2, <4>3, <5>1 DEF IInv, InOrder
      <4> QED
        BY <4>1, <4>4
    <3>2. CASE ~overlapped
      <4>1. \A a, b \in Authors(Artifacts) : a = b
        BY <1>1, <3>2 DEF IInv, Alone, OneAuthor, Authors
      <4>2. ASSUME NEW i \in Allocations
            PROVE  rows[i].outcome.by # {} /\ rows[i].outcome.by \subseteq Authors(Artifacts)
        <5>1. Authors(failure[i] \cup evidence[i]) \subseteq Authors(Artifacts)
          BY DEF Authors, Artifacts
        <5> QED
          BY <2>2, <5>1 DEF RowIsRead
      <4>3. PICK e \in rows[1].outcome.by : e \in Authors(Artifacts)
        BY <4>2, Places
      <4>4. e \in Executors
        BY <1>1, <4>3 DEF Authors, Artifacts, IInv, TypeOK
      <4>5. ASSUME NEW i \in Allocations PROVE rows[i].outcome.by = {e}
        BY <4>1, <4>2, <4>3
      <4> QED
        BY <4>4, <4>5
    <3> QED
      BY <3>1, <3>2
  <2>4. PICK e \in Executors : \A i \in Allocations : rows[i].outcome.by = {e}
    BY <2>3
  <2>5. UNION {rows[i].outcome.by : i \in DOMAIN rows} = {e}
    BY <2>1, <2>4, Places
  <2> QED
    BY <2>5, FS_Singleton
<1> QED
  BY <1>1, StudyInvariant, PTL
-------------------------------------------------------------------------------
(* Induction over finite sets: a counterexample would have a minimal one. *)

LEMMA MinimalSubset ==
    ASSUME NEW S, IsFiniteSet(S), NEW F \in SUBSET SUBSET S, F # {}
    PROVE  \E T \in F : \A U \in F : U \subseteq T => U = T
<1>1. IsWellFoundedOn(StrictSubsetOrdering(S), FiniteSubsetsOf(S))
  BY FS_StrictSubsetOrderingWellFounded
<1>2. F \subseteq FiniteSubsetsOf(S)
  BY FS_FiniteSubsetsOfFinite
<1>3. \E T \in F : \A U \in F : <<U, T>> \notin StrictSubsetOrdering(S)
  BY <1>1, <1>2, WFMin
<1> QED
  BY <1>3 DEF StrictSubsetOrdering

LEMMA SubsetInduction ==
    ASSUME NEW S, IsFiniteSet(S), NEW G,
           ASSUME NEW T \in SUBSET S, \A U \in SUBSET T : U # T => U \in G
           PROVE  T \in G
    PROVE  S \in G
<1> SUFFICES ASSUME S \notin G
             PROVE  FALSE
  OBVIOUS
<1>1. PICK F \in SUBSET SUBSET S : F = {T \in SUBSET S : T \notin G}
  OBVIOUS
<1>2. PICK T \in F : \A U \in F : U \subseteq T => U = T
  <2>1. F # {}
    BY <1>1
  <2> QED
    BY ONLY <2>1, IsFiniteSet(S), F \in SUBSET SUBSET S, MinimalSubset
<1>3. T \in SUBSET S /\ T \notin G
  BY <1>1, <1>2
<1>4. \A U \in SUBSET T : U # T => U \in G
  BY <1>1, <1>2, <1>3
<1> QED
  BY <1>3, <1>4

LEMMA UpwardInduction ==
    ASSUME NEW N \in Nat, NEW G, 0 \in G, \A n \in 0..(N - 1) : n \in G => n + 1 \in G
    PROVE  N \in G
<1> SUFFICES ASSUME N \notin G PROVE FALSE
  OBVIOUS
<1>1. PICK F : F = {0..k : k \in {j \in 0..N : j \notin G}}
  OBVIOUS
<1>2. PICK x \in F : \A y \in F : y \subseteq x => y = x
  <2>1. PICK S : S = 0..N
    OBVIOUS
  <2>2. F # {} /\ F \in SUBSET SUBSET S
    BY <1>1, <2>1
  <2>3. IsFiniteSet(S)
    BY <2>1, FS_Interval
  <2> QED
    BY ONLY <2>2, <2>3, MinimalSubset
<1>3. PICK k \in 0..N : k \notin G /\ x = 0..k
  BY <1>1, <1>2
<1>4. k # 0 /\ k - 1 \in 0..(N - 1) /\ (k - 1) + 1 = k
  BY <1>3
<1>5. k - 1 \notin G
  BY <1>3, <1>4
<1>6. 0..(k - 1) \in F
  BY <1>1, <1>4, <1>5
<1>7. 0..(k - 1) \subseteq x /\ k \in x /\ k \notin 0..(k - 1)
  BY <1>3
<1> QED
  BY <1>2, <1>6, <1>7

-------------------------------------------------------------------------------
(* An effect is a sum *)

Pick(s) == CHOOSE x \in s : TRUE
Term(contrast, counts, c) == contrast[c] * counts[c]
SumStep(contrast, counts, sum, s) ==
    IF s = {} THEN 0 ELSE Term(contrast, counts, Pick(s)) + sum[s \ {Pick(s)}]
IsSum(contrast, counts, sum) ==
    sum = [s \in SUBSET DOMAIN contrast |-> SumStep(contrast, counts, sum, s)]

(* The fold of Effect, by its recursion equation if that has a solution. *)
LEMMA EffectUnfolds ==
    ASSUME NEW contrast, NEW counts
    PROVE  Effect(contrast, counts) =
              (CHOOSE sum : IsSum(contrast, counts, sum))[DOMAIN contrast]
BY DEF Effect, MapThenSumSet, MapThenFoldSet, Pick, IsSum, SumStep, Term

(* It has one on the subsets of at most n elements, for each n. *)
Small(D, n) == {s \in SUBSET D : Cardinality(s) <= n}
Partial(contrast, counts, n) ==
    \E sum : sum = [s \in Small(DOMAIN contrast, n) |-> SumStep(contrast, counts, sum, s)]

LEMMA SmallerSubset ==
  ASSUME NEW D, IsFiniteSet(D), NEW s \in SUBSET D, s # {}
  PROVE  /\ Pick(s) \in s /\ s \ {Pick(s)} \in SUBSET D 
         /\ Cardinality(s \ {Pick(s)}) = Cardinality(s) - 1
         /\ Cardinality(s) \in Nat
<1>1. Pick(s) \in s
  BY DEF Pick
<1>2. IsFiniteSet(s)
  BY FS_Subset
<1> QED BY <1>1, <1>2, FS_RemoveElement, FS_CardinalityType

LEMMA SumExists ==
  ASSUME NEW contrast, NEW counts, IsFiniteSet(DOMAIN contrast)
  PROVE  \E sum : IsSum(contrast, counts, sum)
<1>1. PICK D : D = DOMAIN contrast
  OBVIOUS
<1>2. PICK N \in Nat : N = Cardinality(D)
  BY <1>1, FS_CardinalityType
<1>3. PICK G : G = {n \in 0..N : Partial(contrast, counts, n)}
  OBVIOUS
<1>4. 0 \in G
  <2>1. Small(D, 0) = {{}}
    <3>1. \A s \in SUBSET D : IsFiniteSet(s) /\ Cardinality(s) \in Nat
      BY <1>1, FS_Subset, FS_CardinalityType
    <3> QED BY <3>1, FS_EmptySet DEF Small
  <2>2. PICK sum : sum = [s \in {{}} |-> 0]
    OBVIOUS
  <2>3. sum = [s \in Small(D, 0) |-> SumStep(contrast, counts, sum, s)]
    BY <2>1, <2>2 DEF SumStep
  <2> QED BY <1>1, <1>2, <1>3, <2>3 DEF Partial
<1>5. ASSUME NEW n \in 0..(N - 1), n \in G
      PROVE  n + 1 \in G
  <2>1. PICK f : f = [s \in Small(D, n) |-> SumStep(contrast, counts, f, s)]
    BY <1>1, <1>3, <1>5 DEF Partial
  <2>2. PICK g : g = [s \in Small(D, n + 1) |-> SumStep(contrast, counts, f, s)]
    OBVIOUS
  <2>3. ASSUME NEW s \in Small(D, n)
        PROVE  f[s] = g[s]
    <3>1. f[s] = SumStep(contrast, counts, f, s)
      BY <2>1
    <3>2. s \in Small(D, n + 1)
      BY <1>1, FS_Subset, FS_CardinalityType DEF Small
    <3> QED BY ONLY <2>2, <3>1, <3>2
  <2>4. ASSUME NEW s \in Small(D, n + 1)
        PROVE  SumStep(contrast, counts, f, s) = SumStep(contrast, counts, g, s)
    <3>1. CASE s = {}
      BY <3>1 DEF SumStep
    <3>2. CASE s # {}
      <4>1. s \ {Pick(s)} \in Small(D, n)
        BY <1>1, <3>2, SmallerSubset DEF Small
      <4> QED BY <2>3, <4>1 DEF SumStep
    <3> QED BY <3>1, <3>2
  <2>5. g = [s \in Small(D, n + 1) |-> SumStep(contrast, counts, g, s)]
    BY <2>2, <2>4
  <2>6. n + 1 \in 0..N
    OBVIOUS
  <2> QED BY <1>1, <1>3, <2>5, <2>6 DEF Partial
<1>6. N \in G
  BY ONLY <1>4, <1>5, N \in Nat, UpwardInduction
<1>7. Small(D, N) = SUBSET D
  BY <1>1, <1>2, FS_Subset DEF Small
<1> QED BY <1>1, <1>3, <1>6, <1>7 DEF Partial, IsSum

LEMMA EffectIsSum ==
  ASSUME NEW contrast, NEW counts, IsFiniteSet(DOMAIN contrast)
  PROVE  \E sum : IsSum(contrast, counts, sum) /\ Effect(contrast, counts) = sum[DOMAIN contrast]
BY SumExists, EffectUnfolds

LEMMA EffectMonotone ==
  ASSUME NEW contrast, NEW a, NEW b, IsFiniteSet(DOMAIN contrast),
         \A c \in DOMAIN contrast :
            /\ Term(contrast, a, c) \in Int /\ Term(contrast, b, c) \in Int
            /\ Term(contrast, a, c) <= Term(contrast, b, c)
  PROVE  /\ Effect(contrast, a) \in Int /\ Effect(contrast, b) \in Int
         /\ Effect(contrast, a) <= Effect(contrast, b)
<1>1. PICK f : IsSum(contrast, a, f) /\ Effect(contrast, a) = f[DOMAIN contrast]
  BY EffectIsSum
<1>2. PICK g : IsSum(contrast, b, g) /\ Effect(contrast, b) = g[DOMAIN contrast]
  BY EffectIsSum
<1>3. PICK D : D = DOMAIN contrast
  OBVIOUS
<1>4. PICK G : G = {s \in SUBSET D : f[s] \in Int /\ g[s] \in Int /\ f[s] <= g[s]}
  OBVIOUS
<1>5. ASSUME NEW T \in SUBSET D, \A U \in SUBSET T : U # T => U \in G
      PROVE  T \in G
  <2>1. f[T] = SumStep(contrast, a, f, T) /\ g[T] = SumStep(contrast, b, g, T)
    BY <1>1, <1>2, <1>3 DEF IsSum
  <2>2. CASE T = {}
    BY <1>4, <2>1, <2>2 DEF SumStep
  <2>3. CASE T # {}
    <3>1. PICK x \in T : x = Pick(T)
      BY <2>3 DEF Pick
    <3>2. T \ {x} \in G
      BY <1>5
    <3>3. /\ f[T \ {x}] \in Int /\ g[T \ {x}] \in Int /\ f[T \ {x}] <= g[T \ {x}]
      BY <1>4, <3>2
    <3>4. /\ Term(contrast, a, x) \in Int /\ Term(contrast, b, x) \in Int
          /\ Term(contrast, a, x) <= Term(contrast, b, x)
      BY <1>3
    <3>5. /\ f[T] = Term(contrast, a, x) + f[T \ {x}]
          /\ g[T] = Term(contrast, b, x) + g[T \ {x}]
      BY <2>1, <2>3, <3>1 DEF SumStep
    <3>6. f[T] \in Int /\ g[T] \in Int /\ f[T] <= g[T]
      BY <3>3, <3>4, <3>5
    <3> QED
      BY <1>4, <3>6
  <2> QED
    BY <2>2, <2>3
<1>6. D \in G
  BY ONLY <1>3, <1>5, IsFiniteSet(DOMAIN contrast), SubsetInduction
<1> QED
  BY <1>1, <1>2, <1>3, <1>4, <1>6

LEMMA ScaledBounds ==
    ASSUME NEW k \in Int, NEW low \in Int, NEW n \in Int, NEW high \in Int, low <= n, n <= high
    PROVE  /\ k * low \in Int /\ k * n \in Int /\ k * high \in Int
           /\ k >= 0 => k * low <= k * n /\ k * n <= k * high
           /\ ~ (k >= 0) => k * high <= k * n /\ k * n <= k * low
OBVIOUS

(* A missing Run that succeeds adds to its cell at most what was missing. *)
LEMMA CellCounts ==
    ASSUME NEW all, IsFiniteSet(DOMAIN all), NEW c,
           NEW filled \in SUBSET {i \in DOMAIN all : all[i].outcome.status = "missing"}
    PROVE  /\ Lower(all, c) \in Int /\ Upper(all, c) \in Int
           /\ \E n \in Int : /\ n = Lower(all, c) + Cardinality({i \in filled : all[i].condition = c})
                          /\ Lower(all, c) <= n /\ n <= Upper(all, c)
<1>1. PICK S : S = {i \in DOMAIN all :
                      all[i].condition = c /\ all[i].outcome.status \in {"success"}}
  OBVIOUS
<1>2. PICK U : U = {i \in DOMAIN all :
                      all[i].condition = c /\ all[i].outcome.status \in {"success", "missing"}}
  OBVIOUS
<1>3. PICK F : F = {i \in filled : all[i].condition = c}
  OBVIOUS
<1>4. S \cup F \in SUBSET U /\ S \cap F = {} /\ U \in SUBSET DOMAIN all
  <2>1. "success" # "missing"
    OBVIOUS
  <2> QED
    BY <1>1, <1>2, <1>3, <2>1
<1>5. IsFiniteSet(U) /\ IsFiniteSet(S) /\ IsFiniteSet(F)
  <2>1. IsFiniteSet(U)
    BY <1>4, FS_Subset
  <2>2. S \in SUBSET U /\ F \in SUBSET U
    BY <1>4
  <2> QED
    BY <2>1, <2>2, FS_Subset
<1>6. /\ Cardinality(S) \in Nat /\ Cardinality(F) \in Nat /\ Cardinality(U) \in Nat
      /\ Cardinality(S \cup F) = Cardinality(S) + Cardinality(F)
      /\ Cardinality(S \cup F) <= Cardinality(U)
  <2>1. Cardinality(S \cup F) = Cardinality(S) + Cardinality(F) - Cardinality({})
    BY <1>4, <1>5, FS_Union
  <2>2. Cardinality({}) = 0
    BY FS_EmptySet
  <2>3. Cardinality(S) \in Nat /\ Cardinality(F) \in Nat /\ Cardinality(U) \in Nat
    BY <1>5, FS_CardinalityType
  <2>4. Cardinality(S \cup F) <= Cardinality(U)
    BY <1>4, <1>5, FS_Subset
  <2> QED
    BY <2>1, <2>2, <2>3, <2>4
<1>7. Lower(all, c) = Cardinality(S) /\ Upper(all, c) = Cardinality(U)
  BY <1>1, <1>2 DEF Lower, Upper, InCell
<1>8. PICK n \in Int : n = Cardinality(S) + Cardinality(F)
  BY <1>6
<1>9. n = Lower(all, c) + Cardinality({i \in filled : all[i].condition = c})
  BY ONLY <1>3, <1>7, <1>8
<1>10. /\ Lower(all, c) \in Int /\ Upper(all, c) \in Int
       /\ Lower(all, c) <= n /\ n <= Upper(all, c)
  BY ONLY <1>6, <1>7, <1>8, n \in Int
<1> QED
  BY ONLY <1>9, <1>10, n \in Int

LEMMA ContrastCovered ==
    ASSUME NEW contrast, IsFiniteSet(DOMAIN contrast), contrast \in [DOMAIN contrast -> Int],
           NEW all, IsFiniteSet(DOMAIN all)
    PROVE  Covered(contrast, all)
<1> SUFFICES ASSUME NEW filled \in
                        SUBSET {i \in DOMAIN all : all[i].outcome.status = "missing"}
             PROVE  Completed(contrast, all, filled)
                       \in LowerBound(contrast, all) .. UpperBound(contrast, all)
  BY DEF Covered
<1>1. PICK low : low = [c \in DOMAIN contrast |->
                          IF contrast[c] >= 0 THEN Lower(all, c) ELSE Upper(all, c)]
  OBVIOUS
<1>2. PICK high : high = [c \in DOMAIN contrast |->
                            IF contrast[c] >= 0 THEN Upper(all, c) ELSE Lower(all, c)]
  OBVIOUS
<1>3. PICK n : n = [c \in DOMAIN contrast |->
                      Lower(all, c) + Cardinality({i \in filled : all[i].condition = c})]
  OBVIOUS
<1>4. ASSUME NEW c \in DOMAIN contrast
      PROVE  /\ Term(contrast, low, c) \in Int /\ Term(contrast, n, c) \in Int
             /\ Term(contrast, high, c) \in Int
             /\ Term(contrast, low, c) <= Term(contrast, n, c)
             /\ Term(contrast, n, c) <= Term(contrast, high, c)
  <2>1. PICK k \in Int : k = contrast[c]
    OBVIOUS
  <2>2. /\ Lower(all, c) \in Int /\ Upper(all, c) \in Int
        /\ n[c] \in Int /\ Lower(all, c) <= n[c] /\ n[c] <= Upper(all, c)
    <3>1. n[c] = Lower(all, c) + Cardinality({i \in filled : all[i].condition = c})
      BY <1>3
    <3>2. /\ Lower(all, c) \in Int /\ Upper(all, c) \in Int
          /\ \E m \in Int : /\ m = Lower(all, c) + Cardinality({i \in filled : all[i].condition = c})
                         /\ Lower(all, c) <= m /\ m <= Upper(all, c)
      BY ONLY IsFiniteSet(DOMAIN all), CellCounts,
              filled \in SUBSET {i \in DOMAIN all : all[i].outcome.status = "missing"}
    <3> QED
      BY <3>1, <3>2
  <2>3. /\ k * Lower(all, c) \in Int /\ k * n[c] \in Int /\ k * Upper(all, c) \in Int
        /\ k >= 0 => k * Lower(all, c) <= k * n[c] /\ k * n[c] <= k * Upper(all, c)
        /\ ~ (k >= 0) => k * Upper(all, c) <= k * n[c] /\ k * n[c] <= k * Lower(all, c)
    BY ONLY <2>2, k \in Int, ScaledBounds
  <2>4. /\ low[c] = IF k >= 0 THEN Lower(all, c) ELSE Upper(all, c)
        /\ high[c] = IF k >= 0 THEN Upper(all, c) ELSE Lower(all, c)
    BY <1>1, <1>2, <2>1
  <2>5. CASE k >= 0
    BY ONLY <2>1, <2>3, <2>4, <2>5 DEF Term
  <2>6. CASE ~ (k >= 0)
    BY ONLY <2>1, <2>3, <2>4, <2>6 DEF Term
  <2> QED
    BY <2>5, <2>6
<1>5. /\ Effect(contrast, low) \in Int /\ Effect(contrast, n) \in Int
      /\ Effect(contrast, low) <= Effect(contrast, n)
  BY ONLY <1>4, IsFiniteSet(DOMAIN contrast), EffectMonotone
<1>6. /\ Effect(contrast, high) \in Int
      /\ Effect(contrast, n) <= Effect(contrast, high)
  BY ONLY <1>4, IsFiniteSet(DOMAIN contrast), EffectMonotone
<1>7. /\ LowerBound(contrast, all) = Effect(contrast, low)
      /\ UpperBound(contrast, all) = Effect(contrast, high)
      /\ Completed(contrast, all, filled) = Effect(contrast, n)
  BY <1>1, <1>2, <1>3 DEF LowerBound, UpperBound, Completed
<1> QED
  BY <1>5, <1>6, <1>7

(* Whatever the missing Runs would have amounted to, the effect an audit   *)
(* reports a lower and an upper bound for lies between them.               *)
THEOREM BoundsCover == Spec => []MissingnessBoundsCover
<1>1. ASSUME IInv
      PROVE  MissingnessBoundsCover
  <2>1. IsFiniteSet(DOMAIN rows)
    <3>1. DOMAIN rows = 1..Len(rows) /\ Len(rows) \in Nat
      BY <1>1 DEF IInv, RowsTyped
    <3> QED
      BY <3>1, FS_Interval
  <2>2. ASSUME NEW contrast \in Contrasts
        PROVE  IsFiniteSet(DOMAIN contrast) /\ contrast \in [DOMAIN contrast -> Int]
    BY StudyAssumption
  <2> QED
    BY ONLY <2>1, <2>2, ContrastCovered DEF MissingnessBoundsCover
<1> QED
  BY <1>1, StudyInvariant, PTL
===============================================================================
