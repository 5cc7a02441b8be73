----------------------------- MODULE EvaluationJob -----------------------------
(***************************************************************************)
(* The evaluation of a candidate on a GPU Infra node.  Four parties, each  *)
(* of which may stop at any step: the Run's process with its supervised    *)
(* command and its one resubmission (lab/runtime.py BoundedBrokerEvaluator *)
(* and CommandBrokerSubmitter, evaluation/attempts.py), the client that    *)
(* submits one node run and observes it (lab/gpu_infra.py submit), the     *)
(* node that queues and ends it (not under src/: as the client uses it),   *)
(* and the stage with its worker on the device (gpu_infra.py stage,        *)
(* tasks/evaluate.py main).                                                *)
(*                                                                         *)
(* The client talks to the node by commands that may be lost, or whose     *)
(* answer may be: a submission is a message that the node may still take   *)
(* after its sender has given up or died.                                  *)
(***************************************************************************)
EXTENDS Naturals, FiniteSets

CONSTANTS
    Requests,   \* evaluations, each asked for by a Run of its own
    Jobs,       \* the node's run identifiers, each with its broker job
    NoJob

ASSUME JobsAssumption == NoJob \notin Jobs \cup Requests

VARIABLES
    owner,      \* [Jobs -> the request a run was submitted for]
    state,      \* [Jobs -> the node's account of the run]
    cancel,     \* [Jobs -> whether the node was asked to stop it]
    stage,      \* [Jobs -> how far its stage has come]
    result,     \* [Jobs -> what its worker has written to result.json]
    used,       \* [Jobs -> whether it has put work on the device]
    client,     \* [Requests -> where the current client stands]
    mine,       \* [Requests -> the run the client submitted]
    seen,       \* [Requests -> the run whose terminal state it collects]
    output,     \* [Requests -> the job of the result file, NoJob when torn or none]
    attempt,    \* [Requests -> 1 or 2]
    answer      \* [Requests -> what the Run was told]

node == <<owner, state, cancel, stage, result, used>>
submitter == <<client, mine, seen, output>>
vars == <<node, submitter, attempt, answer>>

(* "interrupted" stands for infra_error as well. *)
Terminal == {"completed", "rejected", "cancelled", "interrupted"}
Places == {"preparing", "submitting", "accepted", "observing",
           "collecting", "writing", "failed", "done"}
Exited == {"failed", "done"}
Results == {"none", "receipt", "error", "gpu_admission_differs"}

TypeOK ==
    /\ owner \in [Jobs -> Requests \cup {NoJob}]
    /\ state \in [Jobs -> {"unused", "sent", "queued", "running"} \cup Terminal]
    /\ cancel \in [Jobs -> BOOLEAN]
    /\ stage \in [Jobs -> {"new", "worker", "written", "passed", "failed"}]
    /\ result \in [Jobs -> Results]
    /\ used \in [Jobs -> BOOLEAN]
    /\ client \in [Requests -> Places]
    /\ mine \in [Requests -> Jobs \cup {NoJob}]
    /\ seen \in [Requests -> Jobs \cup {NoJob}]
    /\ output \in [Requests -> Jobs \cup {NoJob}]
    /\ attempt \in [Requests -> 1 .. 2]
    /\ answer \in [Requests -> {"none", "receipt", "no_receipt", "fault", "abandoned"}]

Init ==
    /\ owner = [j \in Jobs |-> NoJob]
    /\ state = [j \in Jobs |-> "unused"]
    /\ cancel = [j \in Jobs |-> FALSE]
    /\ stage = [j \in Jobs |-> "new"]
    /\ result = [j \in Jobs |-> "none"]
    /\ used = [j \in Jobs |-> FALSE]
    /\ client = [r \in Requests |-> "preparing"]
    /\ mine = [r \in Requests |-> NoJob]
    /\ seen = [r \in Requests |-> NoJob]
    /\ output = [r \in Requests |-> NoJob]
    /\ attempt = [r \in Requests |-> 1]
    /\ answer = [r \in Requests |-> "none"]

Goto(r, place) == client' = [client EXCEPT ![r] = place]
Enter(j, place) == state' = [state EXCEPT ![j] = place]

-------------------------------------------------------------------------------
(* The client: lab/gpu_infra.py submit *)

(* The snapshot, the observed node and the checked task are written under  *)
(* a fresh evidence directory, or refused; then the one submission leaves. *)
Submit(r) ==
    /\ client[r] = "preparing"
    /\ \E j \in Jobs :
        /\ state[j] = "unused" /\ Enter(j, "sent")
        /\ owner' = [owner EXCEPT ![j] = r]
        /\ mine' = [mine EXCEPT ![r] = j]
    /\ Goto(r, "submitting")
    /\ UNCHANGED <<cancel, stage, result, used, seen, output, attempt, answer>>

Accepted(r) ==
    /\ client[r] = "submitting" /\ state[mine[r]] # "sent"
    /\ Goto(r, "accepted")
    /\ UNCHANGED <<node, mine, seen, output, attempt, answer>>

(* The locator is written, then the handlers that cancel are installed. *)
Locate(r) ==
    /\ client[r] = "accepted" /\ Goto(r, "observing")
    /\ UNCHANGED <<node, mine, seen, output, attempt, answer>>

(* Mutant: the state the node returns is taken for the submitted run's.    *)
IdentifiedByAnyRun(r, j) == j # NoJob

Identified(r, j) == j = mine[r]

(* The node answers wait with the state of a run. *)
Observe(r) ==
    /\ client[r] = "observing"
    /\ \E j \in Jobs :
        /\ state[j] \in Terminal /\ Identified(r, j)
        /\ seen' = [seen EXCEPT ![r] = j]
    /\ Goto(r, "collecting")
    /\ UNCHANGED <<node, mine, output, attempt, answer>>

(* Past the deadline, or on SIGTERM once the handlers are installed: the   *)
(* run is asked to stop, which may not arrive, and the client gives up.    *)
Cancel(r) ==
    /\ client[r] \in {"observing", "collecting", "writing"}
    /\ \/ cancel' = [cancel EXCEPT ![mine[r]] = TRUE]
       \/ UNCHANGED cancel
    /\ Goto(r, "failed")
    /\ UNCHANGED <<owner, state, stage, result, used, mine, seen, output, attempt, answer>>

Collectable(j) == state[j] \in {"completed", "rejected"} /\ result[j] # "none"

(* Artifacts first, then the result file, each created and then written. *)
Collect(r) ==
    /\ client[r] = "collecting" /\ Collectable(seen[r])
    /\ Goto(r, "writing")
    /\ UNCHANGED <<node, mine, seen, output, attempt, answer>>

Return(r) ==
    /\ client[r] = "writing"
    /\ output' = [output EXCEPT ![r] = seen[r]]
    /\ Goto(r, "done")
    /\ UNCHANGED <<node, mine, seen, attempt, answer>>

(* Every other end of the client is an exit code that is not zero: a       *)
(* command refused, unanswered or malformed, another run's state, a run    *)
(* without a result, a signal outside the handlers, SIGKILL.  The result   *)
(* file may be there, even whole.                                          *)
Fail(r) ==
    /\ client[r] \notin Exited
    /\ Goto(r, "failed")
    /\ output' \in {output, [output EXCEPT ![r] = seen[r]]}
    /\ output' # output => client[r] = "writing"
    /\ UNCHANGED <<node, mine, seen, attempt, answer>>

Client(r) ==
    \/ Submit(r) \/ Accepted(r) \/ Locate(r) \/ Observe(r)
    \/ Cancel(r) \/ Collect(r) \/ Return(r) \/ Fail(r)

-------------------------------------------------------------------------------
(* The node, and the stage it starts on a device *)

(* A submission is taken at any time after it was sent, or never. *)
Take(j) ==
    /\ state[j] = "sent" /\ Enter(j, "queued")
    /\ UNCHANGED <<owner, cancel, stage, result, used, submitter, attempt, answer>>

Start(j) ==
    /\ state[j] = "queued" /\ Enter(j, "running")
    /\ UNCHANGED <<owner, cancel, stage, result, used, submitter, attempt, answer>>

(* A queue or run timeout, a lost broker, or a cancellation that arrived;  *)
(* the processes of the stage are stopped.                                 *)
Interrupt(j) ==
    /\ state[j] \in {"queued", "running"}
    /\ \E end \in {"interrupted", "cancelled"} : (end = "cancelled" => cancel[j]) /\ Enter(j, end)
    /\ UNCHANGED <<owner, cancel, stage, result, used, submitter, attempt, answer>>

Live(j) == state[j] = "running"

(* stage: commit, allocation, target and files are checked, then one       *)
(* worker runs on its own copy; any refusal ends the stage as failed.      *)
StartWorker(j) ==
    /\ Live(j) /\ stage[j] = "new"
    /\ stage' = [stage EXCEPT ![j] = "worker"]
    /\ UNCHANGED <<owner, state, cancel, result, used, submitter, attempt, answer>>

(* main: the device is observed before anything is compiled, loaded or     *)
(* launched.                                                               *)
RefuseDevice(j) ==
    /\ Live(j) /\ stage[j] = "worker" /\ ~used[j]
    /\ result' = [result EXCEPT ![j] = "gpu_admission_differs"]
    /\ stage' = [stage EXCEPT ![j] = "written"]
    /\ UNCHANGED <<owner, state, cancel, used, submitter, attempt, answer>>

UseDevice(j) ==
    /\ Live(j) /\ stage[j] = "worker" /\ ~used[j]
    /\ used' = [used EXCEPT ![j] = TRUE]
    /\ UNCHANGED <<owner, state, cancel, stage, result, submitter, attempt, answer>>

(* The worker's result is a receipt, or its error, which may also precede  *)
(* the device.                                                             *)
WriteResult(j) ==
    /\ Live(j) /\ stage[j] = "worker"
    /\ \E outcome \in {"receipt", "error"} :
        /\ outcome = "receipt" => used[j]
        /\ result' = [result EXCEPT ![j] = outcome]
    /\ stage' = [stage EXCEPT ![j] = "written"]
    /\ UNCHANGED <<owner, state, cancel, used, submitter, attempt, answer>>

(* The stage reads the result; only a correct receipt passes.  Without a   *)
(* worker, or a result of its allocation, it fails.                        *)
EndStage(j) ==
    /\ Live(j) /\ stage[j] \in {"new", "worker", "written"}
    /\ \E verdict \in {"passed", "failed"} :
        /\ verdict = "passed" => stage[j] = "written" /\ result[j] = "receipt"
        /\ stage' = [stage EXCEPT ![j] = verdict]
    /\ UNCHANGED <<owner, state, cancel, result, used, submitter, attempt, answer>>

Conclude(j) ==
    /\ Live(j)
    /\ \/ stage[j] = "passed" /\ Enter(j, "completed")
       \/ stage[j] = "failed" /\ Enter(j, "rejected")
    /\ UNCHANGED <<owner, cancel, stage, result, used, submitter, attempt, answer>>

Stage(j) ==
    StartWorker(j) \/ RefuseDevice(j) \/ UseDevice(j) \/ WriteResult(j) \/ EndStage(j)

Node(j) == Take(j) \/ Start(j) \/ Interrupt(j) \/ Conclude(j)

-------------------------------------------------------------------------------
(* The Run's process: one supervised command per attempt *)

(* Mutant: the supervisor waits without a limit once the run is accepted. *)
ExpireBeforeAcceptance(r) ==
    /\ answer[r] = "none" /\ client[r] \in {"preparing", "submitting"}
    /\ Goto(r, "failed")
    /\ answer' = [answer EXCEPT ![r] = "fault"]
    /\ UNCHANGED <<node, mine, seen, output, attempt>>

(* run_supervised kills the command's process group at its time limit. *)
Expire(r) ==
    /\ answer[r] = "none" /\ client[r] \notin Exited
    /\ Goto(r, "failed")
    /\ answer' = [answer EXCEPT ![r] = "fault"]
    /\ UNCHANGED <<node, mine, seen, output, attempt>>

(* Mutant: any attempt without a receipt may be repeated. *)
ResubmittableWithoutReceipt(r) == result[output[r]] # "receipt"

(* The one failure that is known to precede all work. *)
Resubmittable(r) == result[output[r]] = "gpu_admission_differs"

(* A command that exits 0 has left its result and named its job.           *)
Resubmit(r) ==
    /\ answer[r] = "none" /\ client[r] = "done"
    /\ attempt[r] = 1 /\ Resubmittable(r)
    /\ attempt' = [attempt EXCEPT ![r] = 2]
    /\ Goto(r, "preparing")
    /\ mine' = [mine EXCEPT ![r] = NoJob]
    /\ seen' = [seen EXCEPT ![r] = NoJob]
    /\ output' = [output EXCEPT ![r] = NoJob]
    /\ UNCHANGED <<node, answer>>

Answer(r) ==
    /\ answer[r] = "none" /\ client[r] = "done"
    /\ ~(attempt[r] = 1 /\ Resubmittable(r))
    /\ answer' = [answer EXCEPT ![r] =
                    IF result[output[r]] = "receipt" THEN "receipt" ELSE "no_receipt"]
    /\ UNCHANGED <<node, submitter, attempt>>

(* broker_fault: the Run ends; whatever the result file holds is evidence. *)
Fault(r) ==
    /\ answer[r] = "none" /\ client[r] = "failed"
    /\ answer' = [answer EXCEPT ![r] = "fault"]
    /\ UNCHANGED <<node, submitter, attempt>>

(* The Run's process dies; the command has a session of its own and goes on. *)
Abandon(r) ==
    /\ answer[r] = "none"
    /\ answer' = [answer EXCEPT ![r] = "abandoned"]
    /\ UNCHANGED <<node, submitter, attempt>>

Supervise(r) == Expire(r) \/ Resubmit(r) \/ Answer(r) \/ Fault(r)

Next ==
    \/ \E r \in Requests : Client(r) \/ Supervise(r) \/ Abandon(r)
    \/ \E j \in Jobs : Node(j) \/ Stage(j)

Spec == Init /\ [][Next]_vars

(* Only the Run's own process is relied on: its wait ends, by the exit of  *)
(* the command or by the time limit.  Nothing is asked of client and node. *)
FairSpec == Spec /\ \A r \in Requests : WF_vars(Supervise(r))

-------------------------------------------------------------------------------
(* Properties *)

(* A receipt is the result of the run that this request's last client      *)
(* submitted: it worked on the device, its stage had ended by itself, and  *)
(* the node called it over.  Nothing of another request, of an earlier     *)
(* attempt or of an interrupted run is ever attributed to the candidate.   *)
ReceiptIsOwn ==
    \A r \in Requests : answer[r] = "receipt" =>
        LET j == output[r] IN
        /\ j = mine[r] /\ owner[j] = r
        /\ used[j] /\ result[j] = "receipt"
        /\ state[j] \in {"completed", "rejected"}

(* Lost answers, late submissions, killed clients and interrupted runs     *)
(* included, the evaluation is at most one job's work, and an answer that  *)
(* is not a fault comes after all of it.                                   *)
Worked == [r \in Requests |-> {j \in Jobs : used[j] /\ owner[j] = r}]

Call == INSTANCE EvaluationCall WITH worked <- Worked
ImplementsCall == Call!CallSpec

(* The Run is told something even if the node never answers. *)
EvaluationEnds == \A r \in Requests : <>(answer[r] # "none")
===============================================================================
