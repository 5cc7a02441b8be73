--------------------------- MODULE DeviceAccessProofs ---------------------------
(***************************************************************************)
(* Proofs about the two ways a candidate reaches a device: the evaluation  *)
(* of candidates on a node (EvaluationJob), for any number of evaluations  *)
(* and run identifiers, and admission on one host (LocalBroker), for any   *)
(* number of jobs, devices and rounds.  The two share no state: each has   *)
(* its own specification and its own inductive invariant.                  *)
(***************************************************************************)
EXTENDS EvaluationJob, LocalBroker, TLAPS

-------------------------------------------------------------------------------
(* Evaluation on a node: the inductive invariant *)

(* A run without a stage has done nothing; what its worker wrote tells     *)
(* whether it used the device.                                             *)
RunOf(j) ==
    /\ state[j] = "unused" <=> owner[j] = NoJob
    /\ state[j] \in {"unused", "sent", "queued"} => stage[j] = "new"
    /\ stage[j] = "new" => ~used[j] /\ result[j] = "none"
    /\ result[j] # "none" => stage[j] \in {"written", "passed", "failed"}
    /\ result[j] = "receipt" => used[j]
    /\ result[j] = "gpu_admission_differs" => ~used[j]
Runs == \A j \in Jobs : RunOf(j)

(* What the client knows of its run is so, because a run that is over      *)
(* stays over.                                                             *)
ClientOf(r) ==
    /\ mine[r] # NoJob => owner[mine[r]] = r
    /\ client[r] = "preparing" => mine[r] = NoJob
    /\ client[r] \notin {"preparing", "failed"} => mine[r] # NoJob
    /\ client[r] \in {"collecting", "writing", "done"} => seen[r] = mine[r]
    /\ client[r] \in {"writing", "done"} =>
            state[mine[r]] \in {"completed", "rejected"} /\ result[mine[r]] # "none"
    /\ client[r] = "done" => output[r] = mine[r]
Clients == \A r \in Requests : ClientOf(r)

(* Every run but the last has ended without using the device. *)
EarlierOf(r, j) ==
    owner[j] = r /\ j # mine[r] => state[j] \in {"completed", "rejected"} /\ ~used[j]
Earlier == \A r \in Requests, j \in Jobs : EarlierOf(r, j)

(* A settled answer was read from a client that had ended well. *)
AnswerOf(r) ==
    /\ answer[r] \in {"receipt", "no_receipt"} => client[r] = "done"
    /\ answer[r] = "receipt" => result[mine[r]] = "receipt"
Answered == \A r \in Requests : AnswerOf(r)

IInv ==
    /\ TypeOK
    /\ Runs
    /\ Clients
    /\ Earlier
    /\ Answered

-------------------------------------------------------------------------------
LEMMA InitInv == Init => IInv
  BY JobsAssumption
     DEF Init, IInv, TypeOK, Places, Terminal, Results, Runs, RunOf, Clients, ClientOf,
         Earlier, EarlierOf, Answered, AnswerOf

LEMMA SubmitInv == ASSUME IInv, NEW r \in Requests, Submit(r) PROVE IInv'
<1> USE JobsAssumption DEF Goto
<1> TypeOK /\ Runs /\ Clients /\ Earlier /\ Answered
    BY DEF IInv
<1>0. PICK j \in Jobs :
        /\ state[j] = "unused" /\ Enter(j, "sent")
        /\ owner' = [owner EXCEPT ![j] = r]
        /\ mine' = [mine EXCEPT ![r] = j]
    BY DEF Submit
<1> USE <1>0 DEF Submit, Enter
<1>a. mine[r] = NoJob /\ owner[j] = NoJob
    BY DEF Runs, RunOf, Clients, ClientOf
<1>1. TypeOK'
    BY <1>a DEF TypeOK, Places
<1>2. Runs'
    BY <1>a DEF TypeOK, Runs, RunOf
<1>3. Clients'
    BY <1>a DEF TypeOK, Clients, ClientOf
<1>4. Earlier'
    BY <1>a DEF TypeOK, Earlier, EarlierOf
<1>5. Answered'
    BY <1>a DEF TypeOK, Clients, ClientOf, Answered, AnswerOf
<1> QED  BY <1>1, <1>2, <1>3, <1>4, <1>5 DEF IInv

LEMMA ClientInv ==
    ASSUME IInv, NEW r \in Requests,
           Accepted(r) \/ Locate(r) \/ Observe(r) \/ Collect(r) \/ Return(r) \/ Fail(r)
    PROVE  IInv'
<1> USE JobsAssumption
    DEF Goto, Accepted, Locate, Observe, Collect, Return, Fail, Identified, Collectable, Exited
<1> TypeOK /\ Runs /\ Clients /\ Earlier /\ Answered
    BY DEF IInv
<1>0. UNCHANGED <<owner, state, cancel, stage, result, used, mine, attempt, answer>>
    BY DEF node
<1> USE <1>0
<1>1. TypeOK'
    BY DEF TypeOK, Places
<1>2. Runs'
    BY DEF Runs, RunOf
<1>3. Clients'
    BY DEF TypeOK, Places, Clients, ClientOf
<1>4. Earlier'
    BY DEF Earlier, EarlierOf
<1>5. Answered'
    BY DEF TypeOK, Answered, AnswerOf
<1> QED  BY <1>1, <1>2, <1>3, <1>4, <1>5 DEF IInv

LEMMA CancelInv == ASSUME IInv, NEW r \in Requests, Cancel(r) PROVE IInv'
<1> USE JobsAssumption DEF Goto, Cancel
<1> TypeOK /\ Runs /\ Clients /\ Earlier /\ Answered
    BY DEF IInv
<1>0. UNCHANGED <<owner, state, stage, result, used, mine, seen, output, attempt, answer>>
    OBVIOUS
<1>a. mine[r] \in Jobs
    BY DEF TypeOK, Clients, ClientOf
<1> USE <1>0
<1>1. TypeOK'
    BY <1>a DEF TypeOK, Places
<1>2. Runs'
    BY DEF Runs, RunOf
<1>3. Clients'
    BY DEF TypeOK, Clients, ClientOf
<1>4. Earlier'
    BY DEF Earlier, EarlierOf
<1>5. Answered'
    BY DEF TypeOK, Answered, AnswerOf
<1> QED  BY <1>1, <1>2, <1>3, <1>4, <1>5 DEF IInv

LEMMA SuperviseInv ==
    ASSUME IInv, NEW r \in Requests, Expire(r) \/ Answer(r) \/ Fault(r) \/ Abandon(r)
    PROVE  IInv'
<1> USE JobsAssumption DEF Goto, Expire, Answer, Fault, Abandon, Exited
<1> TypeOK /\ Runs /\ Clients /\ Earlier /\ Answered
    BY DEF IInv
<1>0. UNCHANGED <<owner, state, cancel, stage, result, used, mine, seen, output, attempt>>
    BY DEF node, submitter
<1> USE <1>0
<1>1. TypeOK'
    BY DEF TypeOK, Places, submitter
<1>2. Runs'
    BY DEF Runs, RunOf
<1>3. Clients'
    BY DEF TypeOK, Clients, ClientOf, submitter
<1>4. Earlier'
    BY DEF Earlier, EarlierOf
<1>5. Answered'
    BY DEF TypeOK, Clients, ClientOf, Answered, AnswerOf, submitter
<1> QED  BY <1>1, <1>2, <1>3, <1>4, <1>5 DEF IInv

LEMMA ResubmitInv == ASSUME IInv, NEW r \in Requests, Resubmit(r) PROVE IInv'
<1> USE JobsAssumption DEF Goto, Resubmit
<1> TypeOK /\ Runs /\ Clients /\ Earlier /\ Answered
    BY DEF IInv
<1>0. UNCHANGED <<owner, state, cancel, stage, result, used, answer>>
    BY DEF node
<1> USE <1>0
<1>a. /\ mine[r] \in Jobs /\ output[r] = mine[r] /\ ~used[mine[r]]
      /\ state[mine[r]] \in {"completed", "rejected"}
    BY DEF TypeOK, Clients, ClientOf, Resubmittable, Runs, RunOf
<1>1. TypeOK'
    BY DEF TypeOK, Places
<1>2. Runs'
    BY DEF Runs, RunOf
<1>3. Clients'
    BY DEF TypeOK, Clients, ClientOf
<1>4. Earlier'
    BY <1>a DEF TypeOK, Earlier, EarlierOf
<1>5. Answered'
    BY DEF TypeOK, Answered, AnswerOf
<1> QED  BY <1>1, <1>2, <1>3, <1>4, <1>5 DEF IInv

-------------------------------------------------------------------------------
LEMMA NodeInv == ASSUME IInv, NEW j \in Jobs, Node(j) PROVE IInv'
<1> USE JobsAssumption DEF Node, Take, Start, Interrupt, Conclude, Enter, Live
<1> TypeOK /\ Runs /\ Clients /\ Earlier /\ Answered
    BY DEF IInv
<1>0. UNCHANGED <<owner, cancel, stage, result, used, client, mine, seen, output, attempt, answer>>
    BY DEF submitter
<1> USE <1>0
<1>a. /\ \A i \in Jobs : i # j => state'[i] = state[i]
      /\ state[j] \in {"sent", "queued", "running"}
      /\ state'[j] \in {"queued", "running"} \cup Terminal
      /\ state'[j] = "queued" => state[j] = "sent"
    BY DEF TypeOK, Terminal
<1>1. TypeOK'
    BY DEF TypeOK, Terminal
<1>2. Runs'
    BY <1>a DEF TypeOK, Terminal, Runs, RunOf
<1>3. Clients'
    BY <1>a DEF TypeOK, Clients, ClientOf
<1>4. Earlier'
    BY <1>a DEF Earlier, EarlierOf
<1>5. Answered'
    BY DEF Answered, AnswerOf
<1> QED  BY <1>1, <1>2, <1>3, <1>4, <1>5 DEF IInv

LEMMA StageInv == ASSUME IInv, NEW j \in Jobs, Stage(j) PROVE IInv'
<1> USE JobsAssumption
    DEF Stage, StartWorker, RefuseDevice, UseDevice, WriteResult, EndStage, Live
<1> TypeOK /\ Runs /\ Clients /\ Earlier /\ Answered
    BY DEF IInv
<1>0. UNCHANGED <<owner, state, cancel, client, mine, seen, output, attempt, answer>>
    BY DEF submitter
<1> USE <1>0
<1>a. /\ state[j] = "running"
      /\ \A i \in Jobs : i # j => stage'[i] = stage[i] /\ result'[i] = result[i] /\ used'[i] = used[i]
    BY DEF TypeOK
<1>1. TypeOK'
  <2>1. /\ stage' \in [Jobs -> {"new", "worker", "written", "passed", "failed"}]
        /\ used' \in [Jobs -> BOOLEAN]
        BY DEF TypeOK
  <2>2. result' \in [Jobs -> Results]
        BY DEF TypeOK, Results
  <2> QED  BY <2>1, <2>2 DEF TypeOK
<1>2. Runs'
    BY DEF TypeOK, Runs, RunOf
<1>3. Clients'
    BY <1>a DEF TypeOK, Clients, ClientOf
<1>4. Earlier'
    BY <1>a DEF Earlier, EarlierOf
<1>5. Answered'
    BY <1>a DEF TypeOK, Clients, ClientOf, Answered, AnswerOf
<1> QED  BY <1>1, <1>2, <1>3, <1>4, <1>5 DEF IInv

LEMMA StepInv == IInv /\ [Next]_vars => IInv'
<1> SUFFICES ASSUME IInv, [Next]_vars PROVE IInv'
    OBVIOUS
<1>1. CASE UNCHANGED vars
  BY <1>1 DEF vars, node, submitter, IInv, TypeOK, Runs, RunOf, Clients, ClientOf,
              Earlier, EarlierOf, Answered, AnswerOf
<1> QED
  BY <1>1, SubmitInv, ClientInv, CancelInv, SuperviseInv, ResubmitInv, NodeInv, StageInv
     DEF Next, Client, Supervise

LEMMA Invariance == Spec => []IInv
  BY InitInv, StepInv, PTL DEF Spec

-------------------------------------------------------------------------------
(* Every reachable state of an evaluation is well typed. *)
THEOREM Typing == Spec => []TypeOK
<1>1. IInv => TypeOK  BY DEF IInv
<1> QED  BY <1>1, Invariance, PTL

(* A receipt comes from the run this request's last client submitted, which *)
(* used the device and was over (gpu_infra.py submit, runtime.py submit).   *)
THEOREM OwnReceipts == Spec => []ReceiptIsOwn
<1>1. IInv => ReceiptIsOwn
  BY DEF IInv, TypeOK, Runs, RunOf, Clients, ClientOf, Answered, AnswerOf, ReceiptIsOwn
<1> QED  BY <1>1, Invariance, PTL

(* EvaluationJob implements EvaluationCall: the job that works for a       *)
(* request is the one its last client submitted, and a settled answer      *)
(* comes after that job was over.                                          *)
LEMMA WorkPerforms ==
    ASSUME IInv, NEW j \in Jobs, UseDevice(j)
    PROVE  \E r \in Requests : Call!Perform(r)
<1> USE JobsAssumption DEF UseDevice, Live, submitter
<1>1. owner[j] \in Requests /\ j = mine[owner[j]]
  <2>1. owner[j] \in Requests
        BY DEF IInv, TypeOK, Runs, RunOf
  <2> QED  BY <2>1 DEF IInv, Earlier, EarlierOf
<1> DEFINE r == owner[j]
<1>2. Worked[r] = {}
  BY <1>1 DEF IInv, Earlier, EarlierOf, Worked
<1>3. answer[r] \notin Call!Settled
  BY <1>1 DEF IInv, Answered, AnswerOf, Clients, ClientOf, Call!Settled
<1>4. Worked' = [Worked EXCEPT ![r] = {j}]
  <2>1. \A i \in Jobs : used'[i] <=> used[i] \/ i = j
        BY DEF IInv, TypeOK
  <2>2. \A q \in Requests : Worked'[q] = IF q = r THEN {j} ELSE Worked[q]
        BY <1>1, <1>2, <2>1 DEF Worked
  <2> QED  BY <2>2 DEF Worked
<1> QED  BY <1>1, <1>2, <1>3, <1>4 DEF Call!Perform

LEMMA AnswerReplies ==
    ASSUME IInv, NEW r \in Requests, Expire(r) \/ Answer(r) \/ Fault(r) \/ Abandon(r)
    PROVE  Call!Reply(r)
<1> USE DEF Expire, Answer, Fault, Abandon, Call!Reply, Call!Answers, Call!Settled
<1>1. Worked' = Worked
  BY DEF node, Worked
<1>2. ASSUME Answer(r), result[output[r]] = "receipt" PROVE Worked[r] # {}
  BY <1>2, JobsAssumption
     DEF IInv, TypeOK, Runs, RunOf, Clients, ClientOf, Worked
<1> QED  BY <1>1, <1>2

THEOREM Refinement == Spec => ImplementsCall
<1>1. Init => Call!CallInit
  BY DEF Init, Call!CallInit, Worked
<1>2. ASSUME IInv, [Next]_vars PROVE [Call!CallNext]_<<Worked, answer>>
  <2> USE <1>2
  <2>1. ASSUME NEW j \in Jobs, UseDevice(j) PROVE Call!CallNext
        BY <2>1, WorkPerforms DEF Call!CallNext
  <2>2. ASSUME NEW r \in Requests, Expire(r) \/ Answer(r) \/ Fault(r) \/ Abandon(r)
        PROVE  Call!CallNext
        BY <2>2, AnswerReplies DEF Call!CallNext
  <2>3. ASSUME NEW r \in Requests, Submit(r) PROVE UNCHANGED <<Worked, answer>>
    <3>1. \A j \in Jobs : used[j] => owner'[j] = owner[j]
          BY <2>3 DEF Submit, IInv, TypeOK, Runs, RunOf
    <3>2. \A j \in Jobs, q \in Requests : used[j] /\ owner'[j] = q <=> used[j] /\ owner[j] = q
          BY <3>1
    <3>3. UNCHANGED <<used, answer>>
          BY <2>3 DEF Submit
    <3> QED  BY <3>2, <3>3 DEF Worked
  <2>4. ASSUME NEW r \in Requests,
               Accepted(r) \/ Locate(r) \/ Observe(r) \/ Cancel(r) \/ Collect(r)
                 \/ Return(r) \/ Fail(r) \/ Resubmit(r)
        PROVE  UNCHANGED <<Worked, answer>>
        BY <2>4 DEF Accepted, Locate, Observe, Cancel, Collect, Return, Fail, Resubmit,
                    node, Worked
  <2>5. ASSUME NEW j \in Jobs,
               Node(j) \/ StartWorker(j) \/ RefuseDevice(j) \/ WriteResult(j) \/ EndStage(j)
        PROVE  UNCHANGED <<Worked, answer>>
        BY <2>5 DEF Node, Take, Start, Interrupt, Conclude, StartWorker, RefuseDevice,
                    WriteResult, EndStage, Worked
  <2>6. CASE UNCHANGED vars
        BY <2>6 DEF vars, node, Worked
  <2> QED  BY <2>1, <2>2, <2>3, <2>4, <2>5, <2>6 DEF Next, Client, Supervise, Stage
<1> QED  BY <1>1, <1>2, Invariance, PTL DEF Spec, ImplementsCall, Call!CallSpec

-------------------------------------------------------------------------------
(* Local admission: the inductive invariant *)

(* What the worker has open at each place of the broker and after it.      *)
OpenOf(j) ==
    /\ pc[j] \in {"try", "decide"} => ~barrier[j] /\ lease[j] = {}
    /\ pc[j] \in {"device", "release"} => j \in DeviceJobs /\ barrier[j] /\ lease[j] = {}
    /\ pc[j] \in Holding => "worker" \in lease[j] /\ (j \in DeviceJobs => barrier[j])
    /\ pc[j] \in {"closing", "gone"} => ~barrier[j]
    /\ pc[j] = "published" => "lease" \in keep[j] /\ (j \in DeviceJobs => "barrier" \in keep[j])
Open == \A j \in LocalJobs : OpenOf(j)

(* Only device-scope jobs have a barrier, and only user-scope jobs a       *)
(* helper, which has the lease open while it runs.                         *)
ScopeOf(j) ==
    /\ barrier[j] => j \in DeviceJobs
    /\ helper[j] = "running" => j \in UserJobs /\ "helper" \in lease[j]
Scoped == \A j \in LocalJobs : ScopeOf(j)

(* A user-scope lease excludes every other lease and barrier but a lease   *)
(* whose barrier is closed already; a device lease those of its device.    *)
ExclusionOf(i, j) ==
    /\ i \in UserJobs /\ j \in UserJobs => lease[i] = {} \/ lease[j] = {}
    /\ i \in UserJobs /\ j \in DeviceJobs => lease[i] = {} \/ ~barrier[j]
    /\ i \in DeviceJobs /\ j \in DeviceJobs /\ Device[i] = Device[j] =>
            lease[i] = {} \/ lease[j] = {}
Exclusion == \A i, j \in LocalJobs : i # j => ExclusionOf(i, j)

BrokerInv ==
    /\ BrokerTypeOK
    /\ Open
    /\ Scoped
    /\ Exclusion

-------------------------------------------------------------------------------
LEMMA BrokerInitInv == BrokerInit => BrokerInv
  BY BrokerAssumption
     DEF BrokerInit, BrokerInv, BrokerTypeOK, Open, OpenOf, Scoped, ScopeOf, Exclusion, ExclusionOf,
         Trying, Holding, Ended, Processes

(* Whatever a job does, the invariant of pairs is kept if its own          *)
(* descriptors stay or are closed.                                         *)
LEMMA ClosingKeepsExclusion ==
    ASSUME BrokerInv, \A j \in LocalJobs : lease'[j] \subseteq lease[j] /\ (barrier'[j] => barrier[j])
    PROVE  Exclusion'
  BY DEF BrokerInv, Exclusion, ExclusionOf

LEMMA BrokerStepInv == BrokerInv /\ [BrokerNext]_brokerVars => BrokerInv'
<1> USE BrokerAssumption DEF GotoPlace
<1> SUFFICES ASSUME BrokerInv, [BrokerNext]_brokerVars PROVE BrokerInv'
    OBVIOUS
<1> USE DEF Trying, Holding, Ended, Processes
<1> BrokerTypeOK /\ Open /\ Scoped /\ Exclusion
    BY DEF BrokerInv
<1>1. ASSUME NEW j \in LocalJobs, ShareUserLock(j) PROVE BrokerInv'
  <2> USE <1>1 DEF ShareUserLock
  <2>1. BrokerTypeOK' BY DEF BrokerTypeOK
  <2>2. Open' BY DEF Open, OpenOf, BrokerTypeOK
  <2>3. Scoped' BY DEF Scoped, ScopeOf, BrokerTypeOK
  <2>4. Exclusion' BY DEF Exclusion, ExclusionOf, UserLocked, BrokerTypeOK
  <2> QED BY <2>1, <2>2, <2>3, <2>4 DEF BrokerInv
<1>2. ASSUME NEW j \in LocalJobs, LockDevice(j) PROVE BrokerInv'
  <2> USE <1>2 DEF LockDevice
  <2>0. j \in DeviceJobs /\ barrier[j] /\ lease[j] = {}
        BY DEF Open, OpenOf
  <2>1. BrokerTypeOK' BY DEF BrokerTypeOK
  <2>2. Open' BY <2>0 DEF Open, OpenOf, BrokerTypeOK
  <2>3. Scoped' BY <2>0 DEF Scoped, ScopeOf, BrokerTypeOK
  <2>4. Exclusion' BY <2>0 DEF Exclusion, ExclusionOf, DeviceLocked, BrokerTypeOK
  <2> QED BY <2>1, <2>2, <2>3, <2>4 DEF BrokerInv
<1>3. ASSUME NEW j \in LocalJobs, ReleaseBarrier(j) PROVE BrokerInv'
  <2> USE <1>3 DEF ReleaseBarrier
  <2>1. BrokerTypeOK' BY DEF BrokerTypeOK
  <2>2. Open' BY DEF Open, OpenOf, BrokerTypeOK
  <2>3. Scoped' BY DEF Scoped, ScopeOf, BrokerTypeOK
  <2>4. Exclusion' BY ClosingKeepsExclusion DEF BrokerTypeOK
  <2> QED BY <2>1, <2>2, <2>3, <2>4 DEF BrokerInv
<1>4. ASSUME NEW j \in LocalJobs, LockUser(j) PROVE BrokerInv'
  <2> USE <1>4 DEF LockUser
  <2>1. BrokerTypeOK' BY DEF BrokerTypeOK
  <2>2. Open' BY DEF Open, OpenOf, BrokerTypeOK
  <2>3. Scoped' BY DEF Scoped, ScopeOf, BrokerTypeOK, Open, OpenOf
  <2>4. Exclusion' BY DEF Exclusion, ExclusionOf, UserLocked, UserShared, BrokerTypeOK
  <2> QED BY <2>1, <2>2, <2>3, <2>4 DEF BrokerInv
<1>5. ASSUME NEW j \in LocalJobs, Decide(j) PROVE BrokerInv'
  <2> USE <1>5 DEF Decide, Sleep, Refuse
  <2>1. BrokerTypeOK' BY DEF BrokerTypeOK
  <2>2. Open' BY DEF Open, OpenOf, BrokerTypeOK
  <2>3. Scoped' BY DEF Scoped, ScopeOf, BrokerTypeOK
  <2>4. Exclusion' BY ClosingKeepsExclusion DEF BrokerTypeOK
  <2> QED BY <2>1, <2>2, <2>3, <2>4 DEF BrokerInv
<1>6. ASSUME NEW j \in LocalJobs, Publish(j) PROVE BrokerInv'
  <2> USE <1>6 DEF Publish
  <2>1. BrokerTypeOK' BY DEF BrokerTypeOK
  <2>2. Open' BY DEF Open, OpenOf, BrokerTypeOK
  <2>3. Scoped' BY DEF Scoped, ScopeOf, BrokerTypeOK
  <2>4. Exclusion' BY ClosingKeepsExclusion DEF BrokerTypeOK
  <2> QED BY <2>1, <2>2, <2>3, <2>4 DEF BrokerInv
<1>7. ASSUME NEW j \in LocalJobs, Become(j) PROVE BrokerInv'
  <2>0. /\ "lease" \in keep[j] /\ (j \in DeviceJobs => "barrier" \in keep[j])
        /\ barrier[j] => j \in DeviceJobs
        BY <1>7 DEF Become, Open, OpenOf, Scoped, ScopeOf
  <2>1. /\ pc[j] = "published" /\ pc' = [pc EXCEPT ![j] = "started"]
        /\ barrier' = barrier /\ lease' = lease
        /\ UNCHANGED <<keep, helper, sleeps>>
        BY <1>7, <2>0 DEF Become, BrokerTypeOK
  <2> USE <2>1
  <2>2. BrokerTypeOK' BY DEF BrokerTypeOK
  <2>3. Open' BY DEF Open, OpenOf, BrokerTypeOK
  <2>4. Scoped' BY DEF Scoped, ScopeOf, BrokerTypeOK
  <2>5. Exclusion' BY DEF Exclusion, ExclusionOf
  <2> QED BY <2>2, <2>3, <2>4, <2>5 DEF BrokerInv
<1>8. ASSUME NEW j \in LocalJobs, BeginWork(j) \/ Finish(j) \/ Die(j) PROVE BrokerInv'
  <2> USE <1>8 DEF BeginWork, Finish, Die
  <2>1. BrokerTypeOK' BY DEF BrokerTypeOK
  <2>2. Open' BY DEF Open, OpenOf, BrokerTypeOK
  <2>3. Scoped' BY DEF Scoped, ScopeOf, BrokerTypeOK
  <2>4. Exclusion' BY ClosingKeepsExclusion DEF BrokerTypeOK
  <2> QED BY <2>1, <2>2, <2>3, <2>4 DEF BrokerInv
<1>9. ASSUME NEW j \in LocalJobs, StartHelper(j) PROVE BrokerInv'
  <2> USE <1>9 DEF StartHelper
  <2>1. BrokerTypeOK' BY DEF BrokerTypeOK
  <2>2. Open' BY DEF Open, OpenOf, BrokerTypeOK
  <2>3. Scoped' BY DEF Scoped, ScopeOf, BrokerTypeOK
  <2>4. \A i \in LocalJobs : lease'[i] = {} <=> lease[i] = {}
        BY DEF BrokerTypeOK
  <2>5. Exclusion' BY <2>4 DEF Exclusion, ExclusionOf
  <2> QED BY <2>1, <2>2, <2>3, <2>5 DEF BrokerInv
<1>10. ASSUME NEW j \in LocalJobs, EndHelper(j) PROVE BrokerInv'
  <2> USE <1>10 DEF EndHelper
  <2>1. BrokerTypeOK' BY DEF BrokerTypeOK
  <2>2. Open' BY DEF Open, OpenOf, BrokerTypeOK
  <2>3. Scoped' BY DEF Scoped, ScopeOf, BrokerTypeOK
  <2>4. Exclusion' BY ClosingKeepsExclusion DEF BrokerTypeOK
  <2> QED BY <2>1, <2>2, <2>3, <2>4 DEF BrokerInv
<1>11. ASSUME NEW j \in LocalJobs, CloseBarrier(j) PROVE BrokerInv'
  <2> USE <1>11 DEF CloseBarrier
  <2>1. BrokerTypeOK' BY DEF BrokerTypeOK
  <2>2. Open' BY DEF Open, OpenOf, BrokerTypeOK
  <2>3. Scoped' BY DEF Scoped, ScopeOf, BrokerTypeOK
  <2>4. Exclusion' BY ClosingKeepsExclusion DEF BrokerTypeOK
  <2> QED BY <2>1, <2>2, <2>3, <2>4 DEF BrokerInv
<1>12. ASSUME NEW j \in LocalJobs, CloseLease(j) PROVE BrokerInv'
  <2> USE <1>12 DEF CloseLease
  <2>1. lease[j] \ {"worker"} \subseteq Processes
        BY DEF BrokerTypeOK
  <2>2. BrokerTypeOK' BY <2>1 DEF BrokerTypeOK
  <2>3. Open' BY DEF Open, OpenOf, BrokerTypeOK
  <2>4. Scoped' BY DEF Scoped, ScopeOf, BrokerTypeOK
  <2>5. Exclusion' BY ClosingKeepsExclusion DEF BrokerTypeOK
  <2> QED BY <2>2, <2>3, <2>4, <2>5 DEF BrokerInv
<1>13. CASE UNCHANGED brokerVars
  BY <1>13 DEF brokerVars, BrokerInv, BrokerTypeOK, Open, OpenOf, Scoped, ScopeOf, Exclusion, ExclusionOf
<1> QED
  BY <1>1, <1>2, <1>3, <1>4, <1>5, <1>6, <1>7, <1>8, <1>9, <1>10, <1>11, <1>12, <1>13
     DEF BrokerNext, Acquire, Work, Close

LEMMA BrokerInvariance == BrokerSpec => []BrokerInv
  BY BrokerInitInv, BrokerStepInv, PTL DEF BrokerSpec

-------------------------------------------------------------------------------
(* Every reachable state of local admission is well typed. *)
THEOREM BrokerTyping == BrokerSpec => []BrokerTypeOK
<1>1. BrokerInv => BrokerTypeOK  BY DEF BrokerInv
<1> QED  BY <1>1, BrokerInvariance, PTL

(* Two jobs on a device at once do not conflict (local_broker.py,          *)
(* admit_local_job; metal_device_process.py, run_metal_process), for every *)
(* set of jobs and devices.                                                *)
THEOREM Exclusive == BrokerSpec => []LeasesExclude
<1>1. ASSUME BrokerInv PROVE LeasesExclude
  <2> SUFFICES ASSUME NEW i \in LocalJobs, NEW j \in LocalJobs, i # j, OnDevice(i), OnDevice(j),
                      Conflicting(i, j)
               PROVE  FALSE
      BY DEF LeasesExclude
  <2>1. \A k \in {i, j} : lease[k] # {} /\ (k \in DeviceJobs => barrier[k])
      BY <1>1, BrokerAssumption DEF BrokerInv, OnDevice, Open, OpenOf, Scoped, ScopeOf, Holding
  <2>2. ExclusionOf(i, j) /\ ExclusionOf(j, i)
      BY <1>1 DEF BrokerInv, Exclusion
  <2> QED  BY <2>1, <2>2 DEF ExclusionOf, Conflicting, LocalJobs
<1> QED  BY <1>1, BrokerInvariance, PTL

(* A sleeping job keeps nobody out: a round fails at a job that is not     *)
(* between two rounds.                                                     *)
THEOREM SleepersHoldNothing == BrokerSpec => SleepersRefuseNobody
<1>1. ASSUME BrokerInv, BrokerInv', [BrokerNext]_brokerVars, NEW j \in LocalJobs, FailsRound(j)
      PROVE  \E i \in LocalJobs : i # j /\ Conflicting(i, j) /\ Engaged(i)
  <2> USE <1>1, BrokerAssumption
  <2> \A k \in LocalJobs : ~Engaged(k) => ~barrier[k] /\ lease[k] = {}
      BY DEF BrokerInv, Open, OpenOf, Engaged, BrokerTypeOK, Trying, Holding, Ended
  <2> pc \in [LocalJobs -> Trying \cup Holding \cup Ended]
      BY DEF BrokerInv, BrokerTypeOK
  <2> USE DEF GotoPlace, FailsRound, Trying, Holding, Ended
  <2>1. \/ ShareUserLock(j) \/ LockDevice(j) \/ LockUser(j)
        BY DEF BrokerNext, Acquire, Decide, Work, Close, ShareUserLock, LockDevice, LockUser,
               ReleaseBarrier, Sleep, Refuse, Publish, Become, BeginWork, StartHelper,
               Finish, CloseBarrier, CloseLease, EndHelper, Die, brokerVars
  <2>2. CASE ShareUserLock(j)
        BY <2>2 DEF ShareUserLock, UserLocked, Conflicting, LocalJobs
  <2>3. CASE LockDevice(j)
    <3>1. j \in DeviceJobs /\ lease[j] = {}
          BY <2>3 DEF LockDevice, BrokerInv, Open, OpenOf
    <3> QED  BY <2>3, <3>1 DEF LockDevice, DeviceLocked, Conflicting, LocalJobs
  <2>4. CASE LockUser(j)
    <3>1. lease[j] = {} /\ j \in UserJobs
          BY <2>4 DEF LockUser, BrokerInv, Open, OpenOf
    <3> QED  BY <2>4, <3>1 DEF LockUser, UserLocked, UserShared, Conflicting, LocalJobs
  <2> QED  BY <2>1, <2>2, <2>3, <2>4
<1>2. ASSUME BrokerInv, BrokerInv', [BrokerNext]_brokerVars
      PROVE  [\A j \in LocalJobs : FailsRound(j) =>
                \E i \in LocalJobs : i # j /\ Conflicting(i, j) /\ Engaged(i)]_brokerVars
      BY <1>1, <1>2
<1> QED  BY <1>2, BrokerInvariance, PTL DEF BrokerSpec, SleepersRefuseNobody

(* LocalBroker implements DeviceLeases: a lease is granted by the last     *)
(* lock of a round and returned with the first descriptor that is closed,  *)
(* or with the last process that has the lock open.                        *)
LEMMA GrantedGrows ==
    ASSUME BrokerInv, NEW j \in LocalJobs, LockDevice(j) \/ LockUser(j)
    PROVE  Leases!Grant(j) \/ Granted' = Granted
<1> USE BrokerAssumption DEF Granted, GotoPlace
<1> lease \in [LocalJobs -> SUBSET Processes] /\ barrier \in [LocalJobs -> BOOLEAN]
    BY DEF BrokerInv, BrokerTypeOK
<1>1. CASE UNCHANGED lease
  BY <1>1 DEF LockDevice, LockUser
<1>2. CASE lease' = [lease EXCEPT ![j] = {"worker"}]
  <2>1. UNCHANGED barrier /\ (j \in DeviceJobs => barrier[j])
        BY DEF LockDevice, LockUser, BrokerInv, Open, OpenOf
  <2>2. Granted' = Granted \cup {j}
        BY <1>2, <2>1
  <2>3. \A i \in Granted : i # j /\ ~Conflicting(i, j)
    <3>1. CASE LockDevice(j) /\ ~DeviceLocked(Device[j])
      <4>1. j \in DeviceJobs /\ barrier[j] /\ lease[j] = {}
            BY <3>1 DEF LockDevice, BrokerInv, Open, OpenOf
      <4>2. \A i \in UserJobs : lease[i] = {}
            BY <4>1 DEF BrokerInv, Exclusion, ExclusionOf, LocalJobs
      <4> QED  BY <3>1, <4>1, <4>2 DEF DeviceLocked, Conflicting, LocalJobs
    <3>2. CASE LockUser(j) /\ ~(UserLocked \/ UserShared)
      <4>1. lease[j] = {} /\ j \in UserJobs
            BY <3>2 DEF LockUser, BrokerInv, Open, OpenOf
      <4> QED  BY <3>2, <4>1 DEF UserLocked, UserShared, Conflicting, LocalJobs
    <3>3. CASE UNCHANGED lease /\ lease[j] = {"worker"}
      <4>1. lease[j] = {}
            BY DEF LockDevice, LockUser, BrokerInv, Open, OpenOf
      <4> QED  BY <3>3, <4>1
    <3> QED  BY <1>2, <3>1, <3>2, <3>3 DEF LockDevice, LockUser
  <2> QED  BY <2>2, <2>3 DEF Leases!Grant
<1> QED  BY <1>1, <1>2 DEF LockDevice, LockUser

LEMMA GrantedShrinks ==
    ASSUME BrokerInv, NEW j \in LocalJobs,
           \A i \in LocalJobs : i # j => lease'[i] = lease[i] /\ barrier'[i] = barrier[i],
           lease'[j] \subseteq lease[j], barrier'[j] => barrier[j]
    PROVE  Leases!Return(j) \/ Granted' = Granted
  BY BrokerAssumption DEF Granted, Leases!Return

THEOREM BrokerRefinement == BrokerSpec => ImplementsLeases
<1> USE BrokerAssumption DEF GotoPlace
<1>1. BrokerInit => Leases!LeasesInit
      BY DEF BrokerInit, Leases!LeasesInit, Granted
<1>2. ASSUME BrokerInv, [BrokerNext]_brokerVars PROVE [Leases!LeasesNext]_Granted
  <2> USE <1>2
  <2> lease \in [LocalJobs -> SUBSET Processes] /\ barrier \in [LocalJobs -> BOOLEAN]
      BY DEF BrokerInv, BrokerTypeOK
  <2>1. ASSUME NEW j \in LocalJobs, LockDevice(j) \/ LockUser(j)
        PROVE  [Leases!LeasesNext]_Granted
        BY <2>1, GrantedGrows DEF Leases!LeasesNext
  <2>2. ASSUME NEW j \in LocalJobs, ShareUserLock(j)
        PROVE  [Leases!LeasesNext]_Granted
    <3>1. lease[j] = {} /\ lease' = lease
          BY <2>2 DEF ShareUserLock, BrokerInv, Open, OpenOf
    <3> QED  BY <2>2, <3>1 DEF ShareUserLock, Granted
  <2>3. ASSUME NEW j \in LocalJobs, ReleaseBarrier(j) \/ Become(j) \/ Close(j) \/ EndHelper(j)
        PROVE  [Leases!LeasesNext]_Granted
    <3>1. /\ \A i \in LocalJobs : i # j => lease'[i] = lease[i] /\ barrier'[i] = barrier[i]
          /\ lease'[j] \subseteq lease[j] /\ (barrier'[j] => barrier[j])
          BY <2>3 DEF ReleaseBarrier, Become, Close, CloseBarrier, CloseLease, EndHelper
    <3> QED  BY <3>1, GrantedShrinks DEF Leases!LeasesNext
  <2>4. ASSUME NEW j \in LocalJobs, StartHelper(j)
        PROVE  [Leases!LeasesNext]_Granted
    <3>1. \A i \in LocalJobs : lease'[i] = {} <=> lease[i] = {}
          BY <2>4 DEF StartHelper
    <3> QED  BY <2>4, <3>1 DEF StartHelper, Granted
  <2>5. ASSUME NEW j \in LocalJobs,
               Decide(j) \/ Publish(j) \/ BeginWork(j) \/ Finish(j) \/ Die(j)
        PROVE  UNCHANGED Granted
        BY <2>5 DEF Decide, Sleep, Refuse, Publish, BeginWork, Finish, Die, Granted
  <2>6. CASE UNCHANGED brokerVars
        BY <2>6 DEF brokerVars, Granted
  <2> QED  BY <2>1, <2>2, <2>3, <2>4, <2>5, <2>6 DEF BrokerNext, Acquire, Work
<1> QED  BY <1>1, <1>2, BrokerInvariance, PTL DEF BrokerSpec, ImplementsLeases, Leases!LeasesSpec
===============================================================================
