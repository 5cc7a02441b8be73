---------------------------- MODULE StudyExecution ----------------------------
(***************************************************************************)
(* One prepared Study: executors that work through its allocations in      *)
(* order (lab/study_execution.py), and an auditor that reads what they     *)
(* left and summarises it (lab/study_analysis.py).  Nothing locks the      *)
(* Study: executors may be started while another works, die anywhere, and  *)
(* the auditor reads files while they appear.  One allocation leaves a     *)
(* failure record, an evidence root, or both.                              *)
(***************************************************************************)
EXTENDS Integers, Sequences, FiniteSets, FiniteSetsExt

CONSTANTS
    Executors,     \* processes that call execute_study, one call each
    Condition,     \* the allocations in order: the condition of each
    Contrasts,     \* the effects: [condition -> twice its coefficient]
    Results,       \* what the archive of a Run that ended amounts to
    MaxDeaths,     \* bound: how many executors die
    MaxReports     \* bound: how many audits are made

Allocations == 1 .. Len(Condition)

ASSUME StudyAssumption ==
    /\ Len(Condition) \in Nat \ {0}   \* a plan has tasks and replicates
    /\ Results \subseteq {"success", "no_success", "protocol_fault", "unverified", "refused"}
    /\ MaxDeaths \in Nat /\ MaxReports \in Nat
    /\ \A contrast \in Contrasts :
          IsFiniteSet(DOMAIN contrast) /\ contrast \in [DOMAIN contrast -> Int]

VARIABLES
    prepared,   \* the Study directory: "none", "partial" or "whole"
    failure,    \* allocation -> {} or {[by, whole]}: failure.json
    evidence,   \* allocation -> {} or {[by, result]}: its evidence root
    pc, at,     \* where each executor stands, and at which allocation
    deaths,     \* how many executors have died
    auditPc,    \* "idle", "failure", "evidence" or "report"
    seen,       \* the failure record the auditor read for its current row
    rows,       \* the rows it has read
    reports,    \* how many audits have begun
    overlapped, \* two executors have worked at the same time
    quiet       \* no executor has worked since this audit began

diskVars == <<prepared, failure, evidence>>
executorVars == <<pc, at, deaths, overlapped>>
auditVars == <<auditPc, seen, rows, reports>>
vars == <<diskVars, executorVars, auditVars, quiet>>

Working == {"check", "attempt", "run", "sealed", "record", "write"}
Stopped == {"refused", "escaped", "returned", "dead"}

Init ==
    /\ prepared = "none"
    /\ failure = [i \in Allocations |-> {}] /\ evidence = [i \in Allocations |-> {}]
    /\ pc = [e \in Executors |-> "idle"] /\ at = [e \in Executors |-> 1]
    /\ deaths = 0 /\ overlapped = FALSE
    /\ auditPc = "idle" /\ seen = {} /\ rows = << >>
    /\ reports = 0 /\ quiet = TRUE

-------------------------------------------------------------------------------
(* prepare_study: the root, the plan and one directory per allocation.  A  *)
(* preparation that stops in between leaves a root that nobody may use or  *)
(* prepare again.                                                          *)

BeginPreparation == prepared = "none" /\ prepared' = "partial"
EndPreparation == prepared = "partial" /\ prepared' = "whole"
Prepare ==
    /\ BeginPreparation \/ EndPreparation
    /\ UNCHANGED <<failure, evidence, executorVars, auditVars, quiet>>

-------------------------------------------------------------------------------
(* execute_study *)

Goto(e, place) == pc' = [pc EXCEPT ![e] = place]

(* validate_prepared_study; nobody looks whether an executor works already. *)
Start(e) ==
    /\ pc[e] = "idle" /\ prepared # "none"
    /\ Goto(e, IF prepared = "whole" THEN "check" ELSE "refused")
    /\ overlapped' = (overlapped \/ \E f \in Executors : pc[f] \in Working)
    /\ quiet' = FALSE
    /\ UNCHANGED <<diskVars, at, deaths, auditVars>>

(* The loop that refuses a Study of which any allocation was attempted.    *)
(* It is one step: what it found untouched last was untouched at its start. *)
(* Mutant: only the evidence root is looked for. *)
AttemptedWithEvidence(i) == evidence[i] # {}

Attempted(i) == evidence[i] # {} \/ failure[i] # {}

Check(e) ==
    /\ pc[e] = "check"
    /\ Goto(e, IF \E i \in Allocations : Attempted(i) THEN "refused" ELSE "attempt")
    /\ UNCHANGED <<diskVars, at, deaths, overlapped, auditVars, quiet>>

(* The next allocation, or the end; a process that has ended is nowhere. *)
Advance(e) ==
    IF at[e] < Len(Condition) THEN Goto(e, "attempt") /\ at' = [at EXCEPT ![e] = @ + 1]
    ELSE Goto(e, "returned") /\ at' = [at EXCEPT ![e] = 1]

(* The runtime factory, the admission of a new path and EvidenceStore's    *)
(* exclusive mkdir: whatever they raise is a failed allocation.            *)
Admit(e) ==
    /\ pc[e] = "attempt"
    /\ \/ /\ evidence[at[e]] = {}
          /\ evidence' = [evidence EXCEPT ![at[e]] = {[by |-> e, result |-> "open"]}]
          /\ Goto(e, "run")
       \/ Goto(e, "record") /\ UNCHANGED evidence
    /\ UNCHANGED <<prepared, failure, at, deaths, overlapped, auditVars, quiet>>

(* seal() has published terminal.json ("unverified": without a whole       *)
(* seal.json), and what the audit will make of the Run is decided: it may  *)
(* also refuse the archive, or the replay raise on it ("refused").         *)
Seal(e) ==
    /\ pc[e] = "run" /\ Goto(e, "sealed")
    /\ \E result \in Results :
          evidence' = [evidence EXCEPT ![at[e]] = {[by |-> e, result |-> result]}]
    /\ UNCHANGED <<prepared, failure, at, deaths, overlapped, auditVars, quiet>>

ReturnRun(e) ==
    /\ pc[e] = "sealed" /\ Advance(e)
    /\ UNCHANGED <<diskVars, deaths, overlapped, auditVars, quiet>>

(* execute_run raises without a seal, or because seal() does although the  *)
(* terminal file, or even the seal, is whole: an fsync of them failed.     *)
Raise(e) ==
    /\ pc[e] \in {"run", "sealed"} /\ Goto(e, "record")
    /\ UNCHANGED <<diskVars, at, deaths, overlapped, auditVars, quiet>>

(* failure.json is created exclusively and then written; an error in the   *)
(* handler ends execute_study.                                             *)
OpenRecord(e) ==
    /\ pc[e] = "record"
    /\ IF failure[at[e]] = {}
       THEN /\ failure' = [failure EXCEPT ![at[e]] = {[by |-> e, whole |-> FALSE]}]
            /\ Goto(e, "write") /\ UNCHANGED at
       ELSE /\ Goto(e, "escaped") /\ at' = [at EXCEPT ![e] = 1]
            /\ UNCHANGED failure
    /\ UNCHANGED <<prepared, evidence, deaths, overlapped, auditVars, quiet>>

WriteRecord(e) ==
    /\ pc[e] = "write"
    /\ \/ /\ failure' = [failure EXCEPT ![at[e]] = {[by |-> e, whole |-> TRUE]}]
          /\ Advance(e)
       \/ Goto(e, "escaped") /\ at' = [at EXCEPT ![e] = 1] /\ UNCHANGED failure
    /\ UNCHANGED <<prepared, evidence, deaths, overlapped, auditVars, quiet>>

(* A kill, or an interrupt, which "except Exception" does not catch. *)
Die(e) ==
    /\ pc[e] \in Working /\ deaths < MaxDeaths
    /\ Goto(e, "dead") /\ deaths' = deaths + 1 /\ at' = [at EXCEPT ![e] = 1]
    /\ UNCHANGED <<diskVars, overlapped, auditVars, quiet>>

Attempt(e) ==
    Admit(e) \/ Seal(e) \/ ReturnRun(e) \/ Raise(e) \/ OpenRecord(e) \/ WriteRecord(e)
Execute(e) == Check(e) \/ Attempt(e)

-------------------------------------------------------------------------------
(* audit_study: one row per allocation, in order.  A row reads the failure *)
(* record first and the evidence later; a sealed Run does not change.      *)

Row(status, terminal, verified, by) ==
    [status |-> status, terminal |-> terminal, verified |-> verified, by |-> by]
Authors(artifacts) == {a.by : a \in artifacts}

Unverified(f, v) == Row("missing", FALSE, FALSE, Authors(f \cup v))

(* A failure and no evidence, or neither.                                  *)
FailureRow(f) == Row("missing", f # {}, TRUE, Authors(f))

(* audit_run raises: the row keeps what the failure record made of it.     *)
Refused(run) == run.result \in {"open", "refused"}
RefusedRow(f, v) == Row("missing", f # {}, FALSE, Authors(f \cup v))

(* The archive is whole, but its custody or its replay is not confirmed.   *)
UnverifiedRow(run) == Row("missing", TRUE, FALSE, {run.by})

SealedRow(run) ==
    Row(IF run.result = "protocol_fault" THEN "missing" ELSE run.result, TRUE, TRUE, {run.by})

(* Mutant: a sealed Run counts although its allocation has a failure.      *)
OutcomeOfEvidence(f, v) ==
    IF v = {} THEN FailureRow(f)
    ELSE LET run == CHOOSE r \in v : TRUE IN
         IF Refused(run) THEN RefusedRow(f, v)
         ELSE IF run.result = "unverified" THEN UnverifiedRow(run)
         ELSE SealedRow(run)

Outcome(f, v) ==
    IF \E r \in f : ~r.whole THEN Unverified(f, v)
    ELSE IF v = {} THEN FailureRow(f)
    ELSE LET run == CHOOSE r \in v : TRUE IN
         IF Refused(run) THEN RefusedRow(f, v)
         ELSE IF run.result = "unverified" THEN UnverifiedRow(run)
         ELSE IF f # {} THEN Unverified(f, v)
         ELSE SealedRow(run)

BeginAudit ==
    /\ auditPc = "idle" /\ reports < MaxReports /\ prepared = "whole"
    /\ auditPc' = "failure" /\ reports' = reports + 1
    /\ quiet' = \A e \in Executors : pc[e] \notin Working
    /\ UNCHANGED <<diskVars, executorVars, seen, rows>>

ReadFailure ==
    /\ auditPc = "failure"
    /\ seen' = failure[Len(rows) + 1] /\ auditPc' = "evidence"
    /\ UNCHANGED <<diskVars, executorVars, rows, reports, quiet>>

ReadEvidence ==
    /\ auditPc = "evidence"
    /\ rows' = Append(rows, [condition |-> Condition[Len(rows) + 1],
                             outcome |-> Outcome(seen, evidence[Len(rows) + 1])])
    /\ seen' = {}
    /\ auditPc' = IF Len(rows') = Len(Condition) THEN "report" ELSE "failure"
    /\ UNCHANGED <<diskVars, executorVars, reports, quiet>>

Complete(all) == \A i \in DOMAIN all : all[i].outcome.terminal
Available(all) == Complete(all) /\ \A i \in DOMAIN all : all[i].outcome.verified

Report ==
    /\ auditPc = "report" /\ auditPc' = "idle"
    /\ rows' = << >>
    /\ UNCHANGED <<diskVars, executorVars, seen, reports, quiet>>

Audit == BeginAudit \/ ReadFailure \/ ReadEvidence \/ Report

Next == Prepare \/ (\E e \in Executors : Start(e) \/ Execute(e) \/ Die(e)) \/ Audit

Spec == Init /\ [][Next]_vars

-------------------------------------------------------------------------------
(* summarize_cells: an effect is a contrast of the success rates of the    *)
(* cells, and its missingness bounds take each cell at its best or its     *)
(* worst.  Counts stand for rates, and a contrast has twice its coefficients. *)

InCell(all, c, statuses) ==
    Cardinality({i \in DOMAIN all : all[i].condition = c /\ all[i].outcome.status \in statuses})

Effect(contrast, counts) == MapThenSumSet(LAMBDA c : contrast[c] * counts[c], DOMAIN contrast)

Lower(all, c) == InCell(all, c, {"success"})
Upper(all, c) == InCell(all, c, {"success", "missing"})

LowerBound(contrast, all) == Effect(contrast, [c \in DOMAIN contrast |->
    IF contrast[c] >= 0 THEN Lower(all, c) ELSE Upper(all, c)])
UpperBound(contrast, all) == Effect(contrast, [c \in DOMAIN contrast |->
    IF contrast[c] >= 0 THEN Upper(all, c) ELSE Lower(all, c)])

(* The effect if of the missing Runs exactly those in "filled" succeeded.  *)
Completed(contrast, all, filled) == Effect(contrast, [c \in DOMAIN contrast |->
    Lower(all, c) + Cardinality({i \in filled : all[i].condition = c})])

Covered(contrast, all) ==
    \A filled \in SUBSET {i \in DOMAIN all : all[i].outcome.status = "missing"} :
        Completed(contrast, all, filled) \in LowerBound(contrast, all) .. UpperBound(contrast, all)

-------------------------------------------------------------------------------
(* Properties *)

TypeOK ==
    /\ prepared \in {"none", "partial", "whole"}
    /\ failure \in [Allocations -> SUBSET [by : Executors, whole : BOOLEAN]]
    /\ evidence \in [Allocations -> SUBSET [by : Executors, result : Results \cup {"open"}]]
    /\ pc \in [Executors -> {"idle"} \cup Working \cup Stopped]
    /\ at \in [Executors -> Allocations \cup {1}]
    /\ deaths \in 0 .. MaxDeaths /\ reports \in 0 .. MaxReports
    /\ auditPc \in {"idle", "failure", "evidence", "report"}
    /\ overlapped \in BOOLEAN /\ quiet \in BOOLEAN

(* A Run that ended and verifies, beside a failure record; or one whose    *)
(* archive the audit refuses.                                              *)
Contradicted(f, v) ==
    \E run \in v : /\ run.result \notin {"open", "unverified"}
                   /\ f # {} \/ run.result = "refused"
Ended(f, v) == Outcome(f, v).terminal \/ Contradicted(f, v)

(* Unless two executors worked at the same time, one of them wrote all     *)
(* that is in the Study: no later call replaces or completes what an       *)
(* earlier one left, wherever that one died; and once execute_study has    *)
(* returned, the audit finds every allocation ended, except where seal()   *)
(* raised over a whole seal or the archive of an ended Run is refused.     *)
Artifacts == UNION {failure[i] \cup evidence[i] : i \in Allocations}
NoReplacement ==
    ~overlapped =>
        /\ Cardinality(Authors(Artifacts)) <= 1
        /\ (\E e \in Executors : pc[e] = "returned") =>
              \A i \in Allocations : Ended(failure[i], evidence[i])

(* Even if two executors overlapped, an estimand that an audit publishes   *)
(* while nobody works is about Runs of one executor: wherever two touched  *)
(* the same Study, some allocation is contradictory or unfinished.         *)
EstimandIsOfOneExecutor ==
    auditPc = "report" /\ Available(rows) /\ (quiet \/ ~overlapped) =>
        Cardinality(UNION {rows[i].outcome.by : i \in DOMAIN rows}) = 1

(* The bounds of every effect contain it for every way the missing Runs    *)
(* could have ended, the primary estimate (none succeeds) among them.      *)
(* Proved in StudyExecutionProofs for every report.                        *)
MissingnessBoundsCover == auditPc = "report" => \A contrast \in Contrasts : Covered(contrast, rows)
===============================================================================
