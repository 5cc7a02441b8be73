------------------------------ MODULE LocalBroker ------------------------------
(***************************************************************************)
(* Admission of device jobs on one host, for one kind of device            *)
(* (evaluation/local_broker.py, metal_device_process.py), by flock on two  *)
(* kinds of file: one user lock, which user-scope jobs take exclusively    *)
(* and device-scope jobs share (their "barrier"), and one lock per device, *)
(* which device-scope jobs then take exclusively.  An open descriptor is   *)
(* the lease: nobody unlocks, the kernel does when the last process that   *)
(* has the descriptor open closes it or dies.                              *)
(*                                                                         *)
(* A job is one worker process and, for some, the native helper it starts  *)
(* with the lease among its descriptors.  Workers are killed, or die alone *)
(* and leave their helper behind.                                          *)
(***************************************************************************)
EXTENDS Naturals, FiniteSets, TLC

CONSTANTS
    UserJobs,     \* jobs of user scope, the default
    DeviceJobs,   \* jobs of device scope
    Device,       \* [DeviceJobs -> the physical device of the job]
    Executed,     \* jobs whose worker replaces the broker by exec
    Observers,    \* jobs whose worker checks its own admission
    Assisted,     \* user jobs whose worker starts a helper with its lease
    Patience      \* bound: how often a job sleeps before its queue time is over

LocalJobs == UserJobs \cup DeviceJobs

ASSUME BrokerAssumption ==
    /\ UserJobs \cap DeviceJobs = {}
    /\ Executed \subseteq LocalJobs /\ Observers \subseteq LocalJobs
    /\ Assisted \subseteq UserJobs \* metal declares no ordinal selection
    /\ Patience \in Nat

VARIABLES
    pc,           \* where the worker of each job stands
    barrier,      \* TRUE while its descriptor of the shared user lock is open
    lease,        \* the processes that have its exclusive lock open
    keep,         \* its descriptors that survive exec
    helper,       \* "none", "running" or "ended"
    sleeps        \* how often it has slept

brokerVars == <<pc, barrier, lease, keep, helper, sleeps>>

Processes == {"worker", "helper"}
Trying == {"try", "device", "release", "decide"}
Holding == {"admitted", "published", "started", "working"}
Ended == {"exit", "closing", "gone"}

BrokerTypeOK ==
    /\ pc \in [LocalJobs -> Trying \cup Holding \cup Ended]
    /\ barrier \in [LocalJobs -> BOOLEAN]
    /\ lease \in [LocalJobs -> SUBSET Processes]
    /\ keep \in [LocalJobs -> SUBSET {"barrier", "lease"}]
    /\ helper \in [LocalJobs -> {"none", "running", "ended"}]
    /\ sleeps \in [LocalJobs -> 0 .. Patience]

BrokerInit ==
    /\ pc = [j \in LocalJobs |-> "try"]
    /\ barrier = [j \in LocalJobs |-> FALSE]
    /\ lease = [j \in LocalJobs |-> {}]
    /\ keep = [j \in LocalJobs |-> {}]
    /\ helper = [j \in LocalJobs |-> "none"]
    /\ sleeps = [j \in LocalJobs |-> 0]

(* flock(LOCK_NB): the shared lock needs that nobody holds the user lock   *)
(* exclusively, an exclusive one that nobody holds the file's lock at all. *)
UserLocked == \E i \in UserJobs : lease[i] # {}
UserShared == \E i \in DeviceJobs : barrier[i]
DeviceLocked(d) == \E i \in DeviceJobs : Device[i] = d /\ lease[i] # {}

GotoPlace(j, place) == pc' = [pc EXCEPT ![j] = place]

(* One round of admit_local_job's loop for a device-scope job: the barrier *)
(* first, then the device.  A round that fails at the device closes the    *)
(* barrier before anything else.                                           *)
ShareUserLock(j) ==
    /\ pc[j] = "try" /\ j \in DeviceJobs
    /\ IF UserLocked THEN GotoPlace(j, "decide") /\ UNCHANGED barrier
       ELSE GotoPlace(j, "device") /\ barrier' = [barrier EXCEPT ![j] = TRUE]
    /\ UNCHANGED <<lease, keep, helper, sleeps>>

LockDevice(j) ==
    /\ pc[j] = "device"
    /\ IF DeviceLocked(Device[j]) THEN GotoPlace(j, "release") /\ UNCHANGED lease
       ELSE GotoPlace(j, "admitted") /\ lease' = [lease EXCEPT ![j] = {"worker"}]
    /\ UNCHANGED <<barrier, keep, helper, sleeps>>

(* Mutant: the failed round keeps the barrier. *)
KeepBarrier(j) ==
    /\ pc[j] = "release" /\ GotoPlace(j, "decide")
    /\ UNCHANGED <<barrier, lease, keep, helper, sleeps>>

ReleaseBarrier(j) ==
    /\ pc[j] = "release" /\ GotoPlace(j, "decide")
    /\ barrier' = [barrier EXCEPT ![j] = FALSE]
    /\ UNCHANGED <<lease, keep, helper, sleeps>>

(* The round of a user-scope job: its one lock. *)
(* Mutant: a user-scope job shares the user lock too. *)
LockUserShared(j) ==
    /\ pc[j] = "try" /\ j \in UserJobs
    /\ IF UserLocked THEN GotoPlace(j, "decide") /\ UNCHANGED lease
       ELSE GotoPlace(j, "admitted") /\ lease' = [lease EXCEPT ![j] = {"worker"}]
    /\ UNCHANGED <<barrier, keep, helper, sleeps>>

LockUser(j) ==
    /\ pc[j] = "try" /\ j \in UserJobs
    /\ IF UserLocked \/ UserShared THEN GotoPlace(j, "decide") /\ UNCHANGED lease
       ELSE GotoPlace(j, "admitted") /\ lease' = [lease EXCEPT ![j] = {"worker"}]
    /\ UNCHANGED <<barrier, keep, helper, sleeps>>

(* What is left of queue_seconds: sleep and try again, or LocalBrokerBusy. *)
(* Mutant: every round has the whole queue time. *)
SleepUncounted(j) ==
    /\ pc[j] = "decide" /\ sleeps[j] < Patience /\ GotoPlace(j, "try")
    /\ UNCHANGED <<barrier, lease, keep, helper, sleeps>>

Sleep(j) ==
    /\ pc[j] = "decide" /\ sleeps[j] < Patience /\ GotoPlace(j, "try")
    /\ sleeps' = [sleeps EXCEPT ![j] = @ + 1]
    /\ UNCHANGED <<barrier, lease, keep, helper>>

Refuse(j) ==
    /\ pc[j] = "decide" /\ GotoPlace(j, "exit")
    /\ UNCHANGED <<barrier, lease, keep, helper, sleeps>>

(* The admitted broker makes its descriptors inheritable and names them in *)
(* its environment; an error there closes both.                            *)
Publish(j) ==
    /\ pc[j] = "admitted" /\ GotoPlace(j, "published")
    /\ keep' = [keep EXCEPT ![j] = IF j \in DeviceJobs THEN {"barrier", "lease"} ELSE {"lease"}]
    /\ UNCHANGED <<barrier, lease, helper, sleeps>>

(* The broker becomes the worker, by exec or by returning to it.  A worker *)
(* that observes its admission finds its descriptors open and takes their  *)
(* locks once more, which changes nothing for the owner of the lock.       *)
Become(j) ==
    /\ pc[j] = "published" /\ GotoPlace(j, "started")
    /\ barrier' = [barrier EXCEPT ![j] = @ /\ (j \in Executed => "barrier" \in keep[j])]
    /\ lease' = [lease EXCEPT ![j] =
                    IF j \in Executed /\ "lease" \notin keep[j] THEN {} ELSE @]
    /\ UNCHANGED <<keep, helper, sleeps>>

Admissible(j) ==
    j \in Observers => "worker" \in lease[j] /\ (j \in DeviceJobs => barrier[j])

BeginWork(j) ==
    /\ pc[j] = "started"
    /\ IF Admissible(j) THEN GotoPlace(j, "working") ELSE GotoPlace(j, "exit")
    /\ UNCHANGED <<barrier, lease, keep, helper, sleeps>>

(* Mutant: the helper starts without the descriptor.                       *)
StartHelperAlone(j) ==
    /\ pc[j] = "working" /\ j \in Assisted /\ helper[j] = "none"
    /\ helper' = [helper EXCEPT ![j] = "running"]
    /\ UNCHANGED <<pc, barrier, lease, keep, sleeps>>

(* run_metal_process under an inherited lease, which it observes first:    *)
(* pass_fds gives the helper the descriptor.  The worker waits for it, or  *)
(* kills it at the timeout.                                                *)
StartHelper(j) ==
    /\ pc[j] = "working" /\ j \in Assisted /\ helper[j] = "none"
    /\ "worker" \in lease[j]
    /\ helper' = [helper EXCEPT ![j] = "running"]
    /\ lease' = [lease EXCEPT ![j] = @ \cup {"helper"}]
    /\ UNCHANGED <<pc, barrier, keep, sleeps>>

EndHelper(j) ==
    /\ helper[j] = "running"
    /\ helper' = [helper EXCEPT ![j] = "ended"]
    /\ lease' = [lease EXCEPT ![j] = @ \ {"helper"}]
    /\ UNCHANGED <<pc, barrier, keep, sleeps>>

(* The worker has written its result and exits. *)
Finish(j) ==
    /\ pc[j] = "working" /\ helper[j] # "running" /\ GotoPlace(j, "exit")
    /\ UNCHANGED <<barrier, lease, keep, helper, sleeps>>

(* A process that ends, however it ends, has its descriptors closed one    *)
(* after the other; the barrier was opened first.                          *)
CloseBarrier(j) ==
    /\ pc[j] = "exit" /\ GotoPlace(j, "closing")
    /\ barrier' = [barrier EXCEPT ![j] = FALSE]
    /\ UNCHANGED <<lease, keep, helper, sleeps>>

CloseLease(j) ==
    /\ pc[j] = "closing" /\ GotoPlace(j, "gone")
    /\ lease' = [lease EXCEPT ![j] = @ \ {"worker"}]
    /\ UNCHANGED <<barrier, keep, helper, sleeps>>

(* An exception, the supervisor's SIGKILL or a crash ends the worker       *)
(* anywhere; the helper is in the killed process group or goes on alone.   *)
Die(j) ==
    /\ pc[j] \notin Ended /\ GotoPlace(j, "exit")
    /\ UNCHANGED <<barrier, lease, keep, helper, sleeps>>

Acquire(j) == ShareUserLock(j) \/ LockDevice(j) \/ ReleaseBarrier(j) \/ LockUser(j)
Decide(j) == Sleep(j) \/ Refuse(j)
Work(j) == Publish(j) \/ Become(j) \/ BeginWork(j) \/ StartHelper(j) \/ Finish(j)
Close(j) == CloseBarrier(j) \/ CloseLease(j)

BrokerNext ==
    \E j \in LocalJobs : Acquire(j) \/ Decide(j) \/ Work(j) \/ Close(j) \/ EndHelper(j) \/ Die(j)

BrokerSpec == BrokerInit /\ [][BrokerNext]_brokerVars

(* A runnable worker runs and the kernel closes what a dead process had    *)
(* open.  A helper whose worker lives ends, by itself or at the worker's   *)
(* timeout; nothing bounds a helper whose worker has died.                 *)
Fairness ==
    \A j \in LocalJobs :
        /\ WF_brokerVars(Acquire(j)) /\ WF_brokerVars(Decide(j))
        /\ WF_brokerVars(Work(j)) /\ WF_brokerVars(Close(j))
        /\ WF_brokerVars(pc[j] = "working" /\ EndHelper(j))

FairBrokerSpec == BrokerSpec /\ Fairness

-------------------------------------------------------------------------------
(* Properties *)

Conflicting(i, j) ==
    \/ i \in UserJobs \/ j \in UserJobs
    \/ i \in DeviceJobs /\ j \in DeviceJobs /\ Device[i] = Device[j]

OnDevice(j) == pc[j] = "working" \/ helper[j] = "running"

(* Two jobs whose processes are on a device at once are device-scope jobs  *)
(* of different devices: through failed rounds, exec, deaths between any   *)
(* two steps, half-closed descriptors and helpers that outlive their       *)
(* worker.                                                                 *)
LeasesExclude ==
    \A i, j \in LocalJobs : i # j /\ OnDevice(i) /\ OnDevice(j) => ~Conflicting(i, j)

(* A job that sleeps never keeps another out: whoever fails a round meets  *)
(* a conflicting job that is in the middle of its own round, is admitted,  *)
(* or has not closed what it held.                                         *)
Engaged(i) == pc[i] \notin {"try", "decide", "gone"} \/ lease[i] # {}
FailsRound(j) == pc[j] \in {"try", "device"} /\ pc'[j] \in {"release", "decide"}
SleepersRefuseNobody ==
    [][\A j \in LocalJobs : FailsRound(j) =>
            \E i \in LocalJobs : i # j /\ Conflicting(i, j) /\ Engaged(i)]_brokerVars

(* Every job ends, admitted or refused, even if some helper never does. *)
JobsEnd == \A j \in LocalJobs : <>(pc[j] = "gone")

(* The lease is whole while both descriptors are open: it begins with the  *)
(* last lock of the round and ends with the first descriptor closed.       *)
Granted == {j \in LocalJobs : lease[j] # {} /\ (j \in DeviceJobs => barrier[j])}

Leases == INSTANCE DeviceLeases WITH Jobs <- LocalJobs, granted <- Granted
ImplementsLeases == Leases!LeasesSpec
===============================================================================
