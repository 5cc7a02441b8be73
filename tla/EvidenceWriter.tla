---------------------------- MODULE EvidenceWriter ----------------------------
(***************************************************************************)
(* The single-writer append/seal protocol of one Evidence v2 Run           *)
(* (evidence/store.py, RunLedger and EvidenceStore.start_run/audit_run)    *)
(* with its external writer-origin witnesses (evidence/custody.py).        *)
(*                                                                         *)
(* Threads of the process that started the Run share one RunLedger and     *)
(* serialise on an flock of writer.lock; an auditor in another process     *)
(* takes no lock.  Any call may raise between two file operations, the     *)
(* process may be killed, and the machine may lose power, which also drops *)
(* directory entries and contents that no fsync has covered: a witness is  *)
(* readable before it is durable.                                          *)
(*                                                                         *)
(* A record hash is modelled by what it identifies: the sequence of        *)
(* payloads from the Run's authority (the empty sequence) up to the record.*)
(***************************************************************************)
EXTENDS Naturals, Sequences, FiniteSets

CONSTANTS
    Writers,       \* threads of the process that holds the RunLedger
    NoWriter,      \* "no thread holds writer.lock"
    Observations,  \* payloads of append()
    Terminals,     \* payloads of seal()
    MaxCalls,      \* bound: append()/seal() calls of each thread
    MaxFaults      \* bound: calls that raise on an operating-system error

ASSUME NoWriterAssumption == NoWriter \notin Writers
ASSUME PayloadAssumption ==
    Observations \cap Terminals = {} /\ Terminals # {}
ASSUME BoundAssumption == MaxCalls \in Nat /\ MaxFaults \in Nat

VARIABLES
    (* the Run's directory *)
    stage,         \* completed steps of start_run, Ready when it has returned
    events,        \* events/: one [payload, previous] for each event file
    eventTmp,      \* threads whose .tmp- file is in events/
    runTmp,        \* threads whose .tmp- file is in the Run's directory
    terminal,      \* terminal.json: {} or the head hash it names
    (* the external registry *)
    witness,       \* frontiers/: one [head, whole] for each witness file
    seal,          \* seal.json: {} or one [head, whole]
    (* what survives a power loss *)
    syncedEvents,  \* event files whose directory entry was fsynced
    syncedTerminal,\* terminal.json's directory entry was fsynced
    syncedWitnesses,\* positions of the witnesses fsynced with their entry
    syncedSeal,    \* seal.json and its directory entry were fsynced
    ghostTmp,      \* "events"/"run": temporaries unlinked since the last fsync
    (* the writing process *)
    lock,          \* the thread that holds the flock, or NoWriter
    pc,            \* the step a thread takes next
    payload,       \* the payload of its call
    head,          \* the record hash its call publishes
    calls,         \* calls it has made
    faults,        \* calls that have raised on an error
    alive,         \* the process runs
    powerLost,     \* it stopped with the machine
    acked,         \* record hashes append()/seal() have returned
    sealAcked,     \* seal() has returned
    (* the auditor *)
    auditPc,
    audit          \* the audit in progress, or the last verdict

runVars == <<stage, events, eventTmp, runTmp, terminal>>
registryVars == <<witness, seal>>
custodySyncVars == <<syncedWitnesses, syncedSeal>>
syncVars == <<syncedEvents, syncedTerminal, custodySyncVars, ghostTmp>>
callVars == <<payload, head, calls>>
resultVars == <<acked, sealAcked>>
processVars == <<faults, alive, powerLost>>
auditVars == <<auditPc, audit>>
vars == <<runVars, registryVars, syncVars, lock, pc, callVars, resultVars,
          processVars, auditVars>>

Payloads == Observations \cup Terminals
NoPayload == CHOOSE p \in Terminals : TRUE  \* a thread outside a call has none
Authority == << >>                         \* the hash of authority.json
Ready == 8

(* Steps of start_run: the Run's directory, events/, authority.json,       *)
(* writer.lock; then register_run: the external directory, origin.json, the*)
(* frontier of the authority itself, and that frontier's fsyncs.           *)
AuthorityPublished == 3
AuthorityWitnessed == 7

Steps == {"link_event", "sync_event", "unlink_event", "witness_event",
          "finish_witness", "sync_witness", "write_terminal", "link_terminal",
          "sync_terminal", "unlink_terminal", "witness_seal", "finish_seal",
          "sync_seal", "return"}
Labels == {"idle", "wait", "check", "dead"} \cup Steps

(* The history an event file's record hash identifies, and the hash chain  *)
(* of the first n event files.                                             *)
RecordHash(event) == Append(event.previous, event.payload)
History(n) == [i \in 1..n |-> events[i].payload]
LogHead == IF events = << >> THEN Authority ELSE RecordHash(events[Len(events)])
(* Mutant: the writer does not look at the kind of the last event. *)
LastIsTerminalUnseen == FALSE

LastIsTerminal == events # << >> /\ events[Len(events)].payload \in Terminals

Whole(record) == record.whole
Sealing(w) == payload[w] \in Terminals

-------------------------------------------------------------------------------
NoAudit == [seen |-> << >>, afterSeal |-> FALSE, integrity |-> FALSE,
            custody |-> FALSE]

Init ==
    /\ stage = 0
    /\ events = << >> /\ eventTmp = {} /\ runTmp = {} /\ terminal = {}
    /\ witness = << >> /\ seal = {}
    /\ syncedEvents = 0 /\ syncedTerminal = FALSE
    /\ syncedWitnesses = {} /\ syncedSeal = FALSE
    /\ ghostTmp = [directory \in {"events", "run"} |-> {}]
    /\ lock = NoWriter
    /\ pc = [w \in Writers |-> "idle"]
    /\ payload = [w \in Writers |-> NoPayload]
    /\ head = [w \in Writers |-> Authority]
    /\ calls = [w \in Writers |-> 0]
    /\ faults = 0 /\ alive = TRUE /\ powerLost = FALSE
    /\ acked = {} /\ sealAcked = FALSE
    /\ auditPc = "idle" /\ audit = NoAudit

-------------------------------------------------------------------------------
(* start_run *)

(* The ledger exists once the authority's own frontier is witnessed; a     *)
(* crash before that leaves a Run nobody can write and nobody can restart. *)
StartStep ==
    /\ alive
    /\ stage < Ready
    /\ stage' = stage + 1
    /\ witness' = IF stage' = AuthorityWitnessed
                  THEN <<[head |-> Authority, whole |-> TRUE]>> ELSE witness
    /\ syncedWitnesses' = IF stage' = Ready THEN {1} ELSE syncedWitnesses
    /\ UNCHANGED <<events, eventTmp, runTmp, terminal, seal, syncedEvents,
                   syncedTerminal, syncedSeal, ghostTmp, lock, pc, callVars,
                   resultVars, processVars, auditVars>>

-------------------------------------------------------------------------------
(* RunLedger.append and RunLedger.seal *)

Goto(w, label) == pc' = [pc EXCEPT ![w] = label]

Call(w) ==
    /\ alive /\ stage = Ready
    /\ pc[w] = "idle" /\ calls[w] < MaxCalls
    /\ \E p \in Payloads : payload' = [payload EXCEPT ![w] = p]
    /\ calls' = [calls EXCEPT ![w] = @ + 1]
    /\ Goto(w, "wait")
    /\ UNCHANGED <<runVars, registryVars, syncVars, lock, head, resultVars,
                   processVars, auditVars>>

Lock(w) ==
    /\ pc[w] = "wait" /\ lock = NoWriter
    /\ lock' = w
    /\ Goto(w, "check")
    /\ UNCHANGED <<runVars, registryVars, syncVars, callVars, resultVars,
                   processVars, auditVars>>

(* custody.frontier: the last witness file is whole and counts the files   *)
(* before it.                                                              *)
FrontierReadable ==
    /\ witness # << >>
    /\ Whole(witness[Len(witness)])
    /\ Len(witness[Len(witness)].head) = Len(witness) - 1

(* Mutant: the events are not compared with the external frontier. *)
WritableUnwitnessed ==
    runTmp = {} /\ FrontierReadable /\ seal = {} /\ terminal = {} /\ eventTmp = {}

(* Everything _append_locked refuses before it looks at the last event.    *)
Writable ==
    /\ runTmp = {}
    /\ FrontierReadable
    /\ seal = {}
    /\ terminal = {}
    /\ eventTmp = {}
    /\ Len(witness) - 1 = Len(events)
    /\ witness[Len(witness)].head = LogHead

(* A witnessed terminal event whose terminal.json is missing: only seal()  *)
(* with the same payload goes on, and publishes no second event.           *)
Recoverable(w) == Sealing(w) /\ events[Len(events)].payload = payload[w]

(* Mutant: the flock is not released on the way out. *)
LeaveLocked(w) ==
    /\ pc' = [pc EXCEPT ![w] = "idle"]
    /\ payload' = [payload EXCEPT ![w] = NoPayload]
    /\ head' = [head EXCEPT ![w] = Authority]
    /\ UNCHANGED <<lock, calls>>

(* The call ends: its finally clauses release the flock and its locals go. *)
Leave(w) ==
    /\ lock' = NoWriter
    /\ pc' = [pc EXCEPT ![w] = "idle"]
    /\ payload' = [payload EXCEPT ![w] = NoPayload]
    /\ head' = [head EXCEPT ![w] = Authority]
    /\ UNCHANGED calls

Refuse(w) ==
    /\ pc[w] = "check"
    /\ ~(Writable /\ (LastIsTerminal => Recoverable(w)))
    /\ Leave(w)
    /\ UNCHANGED <<runVars, registryVars, syncVars, resultVars, processVars,
                   auditVars>>

(* Mutant: recovery returns the terminal event without publishing its file. *)
RecoverNothing(w) ==
    /\ pc[w] = "check"
    /\ Writable /\ LastIsTerminal /\ Recoverable(w)
    /\ head' = [head EXCEPT ![w] = LogHead]
    /\ Goto(w, "return")
    /\ UNCHANGED <<runVars, registryVars, syncVars, lock, payload, calls,
                   resultVars, processVars, auditVars>>

Recover(w) ==
    /\ pc[w] = "check"
    /\ Writable /\ LastIsTerminal /\ Recoverable(w)
    /\ head' = [head EXCEPT ![w] = LogHead]
    /\ Goto(w, "write_terminal")
    /\ UNCHANGED <<runVars, registryVars, syncVars, lock, payload, calls,
                   resultVars, processVars, auditVars>>

(* _publish_new_at: write and fsync a temporary, link it under the name,   *)
(* which must be new, fsync the directory, unlink the temporary.           *)
WriteEvent(w) ==
    /\ pc[w] = "check"
    /\ Writable /\ ~LastIsTerminal
    /\ head' = [head EXCEPT ![w] = Append(LogHead, payload[w])]
    /\ eventTmp' = eventTmp \cup {w}
    /\ Goto(w, "link_event")
    /\ UNCHANGED <<stage, events, runTmp, terminal, registryVars, syncVars, lock,
                   payload, calls, resultVars, processVars, auditVars>>

Sequence(w) == Len(head[w]) - 1    \* the number in the event's file name

LinkEvent(w) ==
    /\ pc[w] = "link_event"
    /\ Len(events) = Sequence(w)
    /\ events' = Append(events, [payload |-> payload[w],
                                 previous |-> SubSeq(head[w], 1, Sequence(w))])
    /\ Goto(w, "sync_event")
    /\ UNCHANGED <<stage, eventTmp, runTmp, terminal, registryVars, syncVars, lock,
                   callVars, resultVars, processVars, auditVars>>

SyncEvent(w) ==
    /\ pc[w] = "sync_event"
    /\ syncedEvents' = Len(events)
    /\ ghostTmp' = [ghostTmp EXCEPT !["events"] = {}]
    /\ Goto(w, "unlink_event")
    /\ UNCHANGED <<runVars, registryVars, syncedTerminal, custodySyncVars, lock,
                   callVars, resultVars, processVars, auditVars>>

UnlinkEvent(w) ==
    /\ pc[w] = "unlink_event"
    /\ eventTmp' = eventTmp \ {w}
    /\ ghostTmp' = [ghostTmp EXCEPT !["events"] = @ \cup {w}]
    /\ Goto(w, "witness_event")
    /\ UNCHANGED <<stage, events, runTmp, terminal, registryVars, syncedEvents,
                   syncedTerminal, custodySyncVars, lock, callVars, resultVars,
                   processVars, auditVars>>

(* custody.advance creates the next frontier file, fills it, and fsyncs the*)
(* file and then its directory.  Both fsyncs are one step: nobody observes *)
(* the point between them, and a power loss there leaves what one before   *)
(* the first may leave.                                                    *)
WitnessEvent(w) ==
    /\ pc[w] = "witness_event"
    /\ Len(witness) = Len(head[w])
    /\ witness' = Append(witness, [head |-> head[w], whole |-> FALSE])
    /\ Goto(w, "finish_witness")
    /\ UNCHANGED <<runVars, seal, syncVars, lock, callVars, resultVars,
                   processVars, auditVars>>

FinishWitness(w) ==
    /\ pc[w] = "finish_witness"
    /\ witness' = [witness EXCEPT ![Len(witness)] =
                                     [head |-> head[w], whole |-> TRUE]]
    /\ Goto(w, "sync_witness")
    /\ UNCHANGED <<runVars, seal, syncVars, lock, callVars, resultVars,
                   processVars, auditVars>>

(* Mutant: the witness is not fsynced. *)
SyncWitnessSkipped(w) ==
    /\ pc[w] = "sync_witness"
    /\ Goto(w, IF Sealing(w) THEN "write_terminal" ELSE "return")
    /\ UNCHANGED <<runVars, registryVars, syncVars, lock, callVars, resultVars,
                   processVars, auditVars>>

SyncWitness(w) ==
    /\ pc[w] = "sync_witness"
    /\ syncedWitnesses' = syncedWitnesses \cup {Len(witness)}
    /\ Goto(w, IF Sealing(w) THEN "write_terminal" ELSE "return")
    /\ UNCHANGED <<runVars, registryVars, syncedEvents, syncedTerminal, syncedSeal,
                   ghostTmp, lock, callVars, resultVars, processVars, auditVars>>

WriteTerminal(w) ==
    /\ pc[w] = "write_terminal"
    /\ runTmp' = runTmp \cup {w}
    /\ Goto(w, "link_terminal")
    /\ UNCHANGED <<stage, events, eventTmp, terminal, registryVars, syncVars, lock,
                   callVars, resultVars, processVars, auditVars>>

LinkTerminal(w) ==
    /\ pc[w] = "link_terminal"
    /\ terminal = {}
    /\ terminal' = {head[w]}
    /\ Goto(w, "sync_terminal")
    /\ UNCHANGED <<stage, events, eventTmp, runTmp, registryVars, syncVars, lock,
                   callVars, resultVars, processVars, auditVars>>

(* Mutant: the Run's directory is not fsynced. *)
SyncTerminalSkipped(w) ==
    /\ pc[w] = "sync_terminal"
    /\ Goto(w, "unlink_terminal")
    /\ UNCHANGED <<runVars, registryVars, syncVars, lock, callVars, resultVars,
                   processVars, auditVars>>

SyncTerminal(w) ==
    /\ pc[w] = "sync_terminal"
    /\ syncedTerminal' = TRUE
    /\ ghostTmp' = [ghostTmp EXCEPT !["run"] = {}]
    /\ Goto(w, "unlink_terminal")
    /\ UNCHANGED <<runVars, registryVars, syncedEvents, custodySyncVars, lock,
                   callVars, resultVars, processVars, auditVars>>

(* Mutant: the temporary stays linked beside terminal.json. *)
UnlinkTerminalSkipped(w) ==
    /\ pc[w] = "unlink_terminal"
    /\ Goto(w, "witness_seal")
    /\ UNCHANGED <<runVars, registryVars, syncVars, lock, callVars, resultVars,
                   processVars, auditVars>>

UnlinkTerminal(w) ==
    /\ pc[w] = "unlink_terminal"
    /\ runTmp' = runTmp \ {w}
    /\ ghostTmp' = [ghostTmp EXCEPT !["run"] = @ \cup {w}]
    /\ Goto(w, "witness_seal")
    /\ UNCHANGED <<stage, events, eventTmp, terminal, registryVars, syncedEvents,
                   syncedTerminal, custodySyncVars, lock, callVars, resultVars,
                   processVars, auditVars>>

(* custody.seal; the terminal file's identity is taken after the unlink,   *)
(* so it stays valid.                                                      *)
WitnessSeal(w) ==
    /\ pc[w] = "witness_seal"
    /\ seal = {}
    /\ seal' = {[head |-> head[w], whole |-> FALSE]}
    /\ Goto(w, "finish_seal")
    /\ UNCHANGED <<runVars, witness, syncVars, lock, callVars, resultVars,
                   processVars, auditVars>>

FinishSeal(w) ==
    /\ pc[w] = "finish_seal"
    /\ seal' = {[head |-> head[w], whole |-> TRUE]}
    /\ Goto(w, "sync_seal")
    /\ UNCHANGED <<runVars, witness, syncVars, lock, callVars, resultVars,
                   processVars, auditVars>>

SyncSeal(w) ==
    /\ pc[w] = "sync_seal"
    /\ syncedSeal' = TRUE
    /\ Goto(w, "return")
    /\ UNCHANGED <<runVars, registryVars, syncedEvents, syncedTerminal,
                   syncedWitnesses, ghostTmp, lock, callVars, resultVars,
                   processVars, auditVars>>

Return(w) ==
    /\ pc[w] = "return"
    /\ acked' = acked \cup {head[w]}
    /\ sealAcked' = (sealAcked \/ Sealing(w))
    /\ Leave(w)
    /\ UNCHANGED <<runVars, registryVars, syncVars, processVars, auditVars>>

-------------------------------------------------------------------------------
(* Failures *)

(* The call raises before its next file operation, or in it: a temporary   *)
(* stays behind if its write or its unlink failed, and goes if the link or *)
(* the directory's fsync did.  An error after the record is whole leaves a *)
(* record nobody was told of, and one in a witness's fsync a witness that  *)
(* later calls build on and no later fsync makes durable.                  *)
Fault(w) ==
    /\ pc[w] \in {"check"} \cup Steps
    /\ faults < MaxFaults
    /\ faults' = faults + 1
    /\ \/ UNCHANGED <<eventTmp, runTmp, ghostTmp>>
       \/ /\ w \in eventTmp \cup runTmp
          /\ eventTmp' = eventTmp \ {w}
          /\ runTmp' = runTmp \ {w}
          /\ ghostTmp' = [directory \in DOMAIN ghostTmp |->
                             ghostTmp[directory] \cup {w}]
    /\ Leave(w)
    /\ UNCHANGED <<stage, events, terminal, registryVars, syncedEvents,
                   syncedTerminal, custodySyncVars, alive, powerLost, resultVars,
                   auditVars>>

ProcessGone ==
    /\ alive' = FALSE
    /\ lock' = NoWriter
    /\ pc' = [w \in Writers |-> "dead"]
    /\ payload' = [w \in Writers |-> NoPayload]
    /\ head' = [w \in Writers |-> Authority]
    /\ UNCHANGED <<calls, faults, resultVars>>

Crash ==
    /\ alive
    /\ ProcessGone
    /\ UNCHANGED <<runVars, registryVars, syncVars, powerLost, auditVars>>

(* A witness that was not fsynced may be torn, or its entry lost: one that *)
(* is lost below a surviving one leaves the same hole as a torn one, and   *)
(* one at the end shortens the registry.                                   *)
TearWitnesses ==
    \E n \in 0..Len(witness) :
        /\ syncedWitnesses \subseteq 1..n
        /\ \E torn \in SUBSET ((1..n) \ syncedWitnesses) :
              witness' = [i \in 1..n |-> [head |-> witness[i].head,
                                         whole |-> witness[i].whole /\ i \notin torn]]

TearSeal ==
    IF syncedSeal THEN UNCHANGED seal
    ELSE seal' \in {seal, {}, {[head |-> record.head, whole |-> FALSE] : record \in seal}}

(* A directory entry whose creation or removal no fsync covered may be     *)
(* lost; so may a witness that was not fsynced.                            *)
PowerLoss ==
    /\ ~powerLost
    /\ powerLost' = TRUE
    /\ ProcessGone
    /\ \E n \in syncedEvents..Len(events) : events' = SubSeq(events, 1, n)
    /\ eventTmp' \in SUBSET (eventTmp \cup ghostTmp["events"])
    /\ runTmp' \in SUBSET (runTmp \cup ghostTmp["run"])
    /\ terminal' \in IF syncedTerminal THEN {terminal} ELSE {terminal, {}}
    /\ TearWitnesses
    /\ TearSeal
    /\ auditPc' = "idle"
    /\ audit' = IF auditPc = "idle" THEN audit ELSE NoAudit
    /\ UNCHANGED <<stage, syncVars>>

-------------------------------------------------------------------------------
(* EvidenceStore.audit_run, in a process that takes no lock.  audit holds  *)
(* the custody flag while the audit runs, and the verdict once it ends.    *)

AuditOpen ==
    /\ auditPc = "idle"
    /\ stage >= AuthorityPublished
    /\ auditPc' = "events"
    /\ audit' = [seen |-> << >>, afterSeal |-> sealAcked,
                 integrity |-> FALSE, custody |-> runTmp = {}]
    /\ UNCHANGED <<runVars, registryVars, syncVars, lock, pc, callVars,
                   resultVars, processVars>>

ChainHolds ==
    \A i \in 1..Len(events) :
        events[i].previous = IF i = 1 THEN Authority ELSE RecordHash(events[i - 1])

AuditEvents ==
    /\ auditPc = "events"
    /\ \/ /\ eventTmp = {} /\ ChainHolds
          /\ audit' = [audit EXCEPT !.seen = LogHead]
          /\ auditPc' = "terminal"
       \/ /\ ~(eventTmp = {} /\ ChainHolds)
          /\ auditPc' = "idle"
          /\ UNCHANGED audit
    /\ UNCHANGED <<runVars, registryVars, syncVars, lock, pc, callVars,
                   resultVars, processVars>>

(* _require_sealed_sequence *)
SealedSequence(history) ==
    /\ history # << >>
    /\ \A i \in 1..Len(history) :
          history[i] \in Terminals <=> i = Len(history)

(* A temporary in the Run's directory is a second link of terminal.json,   *)
(* which is then refused and clears the custody flag.                      *)
AuditTerminal ==
    /\ auditPc = "terminal"
    /\ \/ /\ terminal = {audit.seen} /\ runTmp = {}
          /\ SealedSequence(audit.seen)
          /\ auditPc' = "custody"
          /\ UNCHANGED audit
       \/ /\ ~(terminal = {audit.seen} /\ runTmp = {} /\ SealedSequence(audit.seen))
          /\ auditPc' = "idle"
          /\ audit' = [audit EXCEPT !.custody = @ /\ (terminal # {} => runTmp = {})]
    /\ UNCHANGED <<runVars, registryVars, syncVars, lock, pc, callVars,
                   resultVars, processVars>>

(* custody.run_verified: every frontier, the last one, the seal.           *)
RunVerified(history) ==
    /\ FrontierReadable
    /\ Len(witness) = Len(history) + 1
    /\ \A n \in 0..Len(history) :
          witness[n + 1] = [head |-> SubSeq(history, 1, n), whole |-> TRUE]
    /\ seal = {[head |-> history, whole |-> TRUE]}

(* Mutant: the audit trusts the file modes and does not ask the registry. *)
AuditCustodyByMode ==
    /\ auditPc = "custody"
    /\ auditPc' = "idle"
    /\ audit' = [audit EXCEPT !.integrity = TRUE]
    /\ UNCHANGED <<runVars, registryVars, syncVars, lock, pc, callVars,
                   resultVars, processVars>>

AuditCustody ==
    /\ auditPc = "custody"
    /\ auditPc' = "idle"
    /\ audit' = [audit EXCEPT !.integrity = TRUE,
                              !.custody = @ /\ RunVerified(audit.seen)]
    /\ UNCHANGED <<runVars, registryVars, syncVars, lock, pc, callVars,
                   resultVars, processVars>>

-------------------------------------------------------------------------------
Publish(w) ==
    \/ WriteEvent(w) \/ LinkEvent(w) \/ SyncEvent(w) \/ UnlinkEvent(w)
    \/ WitnessEvent(w) \/ FinishWitness(w) \/ SyncWitness(w)
    \/ WriteTerminal(w) \/ LinkTerminal(w) \/ SyncTerminal(w) \/ UnlinkTerminal(w)
    \/ WitnessSeal(w) \/ FinishSeal(w) \/ SyncSeal(w)

Proceed(w) == Lock(w) \/ Refuse(w) \/ Recover(w) \/ Publish(w) \/ Return(w)

Auditing == AuditOpen \/ AuditEvents \/ AuditTerminal \/ AuditCustody

Next ==
    \/ StartStep
    \/ \E w \in Writers : Call(w) \/ Proceed(w) \/ Fault(w)
    \/ Crash \/ PowerLoss
    \/ Auditing

Spec == Init /\ [][Next]_vars

(* A thread the kernel keeps scheduling: its calls go on until they return,*)
(* raise or die with the process, and flock wakes a waiter.                *)
Fairness == \A w \in Writers : WF_vars(Proceed(w))
FairSpec == Spec /\ Fairness

-------------------------------------------------------------------------------
(* Properties *)

Hash == Seq(Payloads)

TypeOK ==
    /\ stage \in 0..Ready
    /\ events \in Seq([payload : Payloads, previous : Hash])
    /\ eventTmp \in SUBSET Writers /\ runTmp \in SUBSET Writers
    /\ terminal \in SUBSET Hash
    /\ witness \in Seq([head : Hash, whole : BOOLEAN])
    /\ seal \in SUBSET [head : Hash, whole : BOOLEAN]
    /\ syncedEvents \in Nat /\ syncedTerminal \in BOOLEAN
    /\ syncedWitnesses \in SUBSET Nat /\ syncedSeal \in BOOLEAN
    /\ ghostTmp \in [{"events", "run"} -> SUBSET Writers]
    /\ lock \in Writers \cup {NoWriter}
    /\ pc \in [Writers -> Labels]
    /\ payload \in [Writers -> Payloads]
    /\ head \in [Writers -> Hash]
    /\ calls \in [Writers -> Nat]
    /\ faults \in Nat /\ alive \in BOOLEAN /\ powerLost \in BOOLEAN
    /\ acked \in SUBSET Hash /\ sealAcked \in BOOLEAN
    /\ auditPc \in {"idle", "events", "terminal", "custody"}
    /\ audit \in [seen : Hash, afterSeal : BOOLEAN, integrity : BOOLEAN,
                  custody : BOOLEAN]

(* The external witnesses and the event files tell one story at every      *)
(* instant, between any two file operations and after a crash or a power   *)
(* loss: the hash chain is unbroken, witness n names the head of the first *)
(* n events, no witness is ahead of the events, at most the newest event   *)
(* lacks its witness, and only the newest witness can be unfinished        *)
(* (store.py _append_locked publishes, then custody.advance witnesses).    *)
(* A power loss takes only witnesses whose fsync had not ended.            *)
WitnessedChain ==
    /\ ChainHolds
    /\ stage = Ready => /\ Len(witness) <= Len(events) + 1
                        /\ ~powerLost => Len(events) <= Len(witness)
    /\ \A i \in syncedWitnesses : i <= Len(witness) /\ Whole(witness[i])
    /\ \A i \in 1..Len(witness) : /\ witness[i].head = History(i - 1)
                                  /\ i < Len(witness) /\ ~Whole(witness[i])
                                        => powerLost

Terminated(history) == history # << >> /\ history[Len(history)] \in Terminals

(* A record hash that append() or seal() has returned stays in the log, at *)
(* its place and witnessed, whatever other threads, faults, a crash or a   *)
(* power loss do afterwards (the order of fsync, link and witness).  One   *)
(* witness is excepted, and only from a power loss: a terminal event's     *)
(* whose first seal() raised in that witness's fsync, which the recovering *)
(* seal() does not repeat.                                                 *)
AcknowledgedKept ==
    \A hash \in acked :
        /\ Len(hash) <= Len(events) /\ History(Len(hash)) = hash
        /\ \/ Len(hash) < Len(witness) /\ Whole(witness[Len(hash) + 1])
           \/ powerLost /\ Terminated(hash) /\ Len(hash) + 1 \notin syncedWitnesses

(* A call returns the hash of a record that carries its own payload: a     *)
(* seal() that completes an interrupted one does so only for the same      *)
(* outcome, and never seals another caller's (the pending-seal branch).    *)
ReturnsOwnRecord ==
    \A w \in Writers :
        pc[w] = "return" => /\ head[w] # Authority
                            /\ head[w][Len(head[w])] = payload[w]

(* terminal.json exists only for a history whose one terminal event is its *)
(* last, and only once every event of it is witnessed; the seal witness    *)
(* never precedes the terminal file, even after a power loss.              *)
TerminalNamesTheLog ==
    /\ \A hash \in terminal :
          /\ hash = LogHead /\ SealedSequence(hash)
          /\ ~powerLost => Len(witness) = Len(hash) + 1 /\ FrontierReadable
    /\ \A record \in seal : terminal = {record.head}

(* Whoever is about to create a file finds its name free, so the create-   *)
(* only publication never fails a correct writer: the flock keeps the      *)
(* number read by _append_locked valid until it is used.                   *)
PublicationNameIsFree ==
    \A w \in Writers :
        /\ pc[w] = "link_event" => Len(events) = Sequence(w)
        /\ pc[w] = "witness_event" => Len(witness) = Len(head[w])
        /\ pc[w] = "link_terminal" => terminal = {}
        /\ pc[w] = "witness_seal" => seal = {}

(* The seal witness and every frontier up to this history are fsynced.     *)
Durable(history) == syncedSeal /\ 1..(Len(history) + 1) \subseteq syncedWitnesses

(* An audit that reports both Archive Integrity and Filesystem Custody,    *)
(* which is what every claim-bearing consumer asks for, has read the whole *)
(* and final history, although the auditor takes no lock and writers may   *)
(* run meanwhile: history and terminal file stay as it saw them whatever   *)
(* follows, and so do the witnesses it trusted, unless it read them before *)
(* their fsync and the machine then lost power.                            *)
TrustedAuditIsFinal ==
    auditPc = "idle" /\ audit.integrity /\ audit.custody
        => /\ audit.seen = LogHead
           /\ SealedSequence(audit.seen)
           /\ terminal = {audit.seen}
           /\ RunVerified(audit.seen) \/ (powerLost /\ ~Durable(audit.seen))

(* The converse: an audit begun after seal() returned reports both, unless *)
(* the machine lost power.                                                 *)
SealedRunAuditsClean ==
    auditPc = "idle" /\ audit.afterSeal /\ ~powerLost
        => audit.integrity /\ audit.custody

Sealed == \E record \in seal : Whole(record)

(* No step of a writer, a fault, a crash or a power loss changes the events*)
(* and the terminal file of a sealed Run, and none but a power loss its    *)
(* witnesses; a power loss takes none whose fsync has ended.               *)
SealedRunIsImmutable ==
    [][Sealed =>
         /\ UNCHANGED <<events, terminal>>
         /\ powerLost' = powerLost => UNCHANGED <<witness, seal>>
         /\ syncedSeal => UNCHANGED seal
         /\ \A i \in syncedWitnesses :
               i <= Len(witness') /\ witness'[i] = witness[i]]_vars

(* The newest event has no finished witness, and the thread that published *)
(* it is no longer on its way to write one.                                *)
Orphaned ==
    /\ stage = Ready
    /\ Len(events) = Len(witness) \/ ~FrontierReadable
    /\ \A w \in Writers : pc[w] \notin {"sync_event", "unlink_event", "witness_event",
                                       "finish_witness"}

(* ADR 0058: an event persisted without its external witness is never      *)
(* adopted.  No later append, seal or recovery builds on it.               *)
OrphanIsNeverAdopted ==
    [][Orphaned /\ ~powerLost' =>
         UNCHANGED <<events, witness, terminal, seal>>]_vars

(* Every append() and seal() ends: it returns, raises or dies with the     *)
(* process.  No refusal, fault or crash leaves the flock held.             *)
CallsEnd == \A w \in Writers : []<>(pc[w] \in {"idle", "dead"})

(* A terminal event was witnessed and its seal() raised before it wrote    *)
(* terminal.json.                                                          *)
PendingSeal == Writable /\ LastIsTerminal

(* Native recovery works: once no further fault comes, a seal() of the     *)
(* same payload that finds a pending seal completes the archive.           *)
PendingSealRecovers ==
    (\E w \in Writers :
        pc[w] = "check" /\ PendingSeal /\ Recoverable(w) /\ faults = MaxFaults)
            ~> (Sealed \/ ~alive)

(* What the Evidence context promises of the log, read off the witnesses.  *)
WholeWitnesses == {i \in 1..Len(witness) : Whole(witness[i])}
WitnessedLog ==
    IF WholeWitnesses = {} THEN << >>
    ELSE witness[CHOOSE i \in WholeWitnesses : \A j \in WholeWitnesses : j <= i].head
KeptLength ==
    IF syncedWitnesses = {} THEN 0
    ELSE (CHOOSE i \in syncedWitnesses : \A j \in syncedWitnesses : j <= i) - 1
Log == INSTANCE EvidenceLog WITH log <- WitnessedLog, sealed <- Sealed,
                                 kept <- KeptLength, sealKept <- syncedSeal,
                                 lost <- powerLost
ImplementsLog == Log!LogSpec
==============================================================================
