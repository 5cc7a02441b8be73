------------------------- MODULE EvidenceWriterProofs -------------------------
(***************************************************************************)
(* Proofs about the append/seal protocol, for any number of threads, calls *)
(* and faults and any set of payloads.                                     *)
(***************************************************************************)
EXTENDS EvidenceWriter, TLAPS, WellFoundedInduction

Event == [payload : Payloads, previous : Hash]
Witness == [head : Hash, whole : BOOLEAN]

-------------------------------------------------------------------------------
(* The inductive invariant *)

Holding == {"check"} \cup Steps
Publishing == {"sync_event", "unlink_event", "witness_event"}
Archiving == {"write_terminal", "link_terminal", "sync_terminal",
              "unlink_terminal", "witness_seal", "finish_seal", "sync_seal"}

(* The flock is held exactly by the thread inside the critical section.    *)
Exclusion == \A w \in Writers : pc[w] \in Holding <=> lock = w

(* Before start_run returns nothing is written but the authority's own     *)
(* witness.                                                                *)
Dormant ==
    stage # Ready =>
        /\ events = << >> /\ terminal = {} /\ seal = {} /\ acked = {}
        /\ witness = IF stage = AuthorityWitnessed
                     THEN <<[head |-> Authority, whole |-> TRUE]>> ELSE << >>
        /\ syncedWitnesses = {}
        /\ \A w \in Writers : pc[w] \in {"idle", "dead"}

(* Event i names the payloads before it, and only the last event of a log  *)
(* may be terminal.                                                        *)
Chained ==
    \A i \in 1..Len(events) :
        /\ events[i].previous = History(i - 1)
        /\ i < Len(events) => events[i].payload \notin Terminals

(* Until power is lost, witnesses follow the events, never behind by more  *)
(* than one, and never ahead of what an fsync made durable.                *)
Frontier ==
    /\ syncedEvents <= Len(events)
    /\ Len(witness) <= syncedEvents + 1
    /\ stage = Ready => /\ witness # << >> /\ Whole(witness[1])
                        /\ Len(events) <= Len(witness)
    /\ \A i \in 1..Len(witness) : /\ witness[i].head = History(i - 1)
                                  /\ i < Len(witness) => Whole(witness[i])
    /\ witness # << >> /\ ~Whole(witness[Len(witness)])
          => Len(witness) = Len(events) + 1

(* Only a finished witness is fsynced.                                     *)
Synced == \A i \in syncedWitnesses : i \in 1..Len(witness) /\ Whole(witness[i])

(* Every event is witnessed.                                               *)
Complete ==
    /\ Len(witness) = Len(events) + 1
    /\ Whole(witness[Len(witness)])

LastIs(p) == events # << >> /\ events[Len(events)].payload = p

(* What the holder of the flock knows at each step of its call.            *)
ProgressOf(w) ==
    /\ pc[w] = "link_event" =>
          /\ head[w] = Append(LogHead, payload[w])
          /\ Complete /\ ~LastIsTerminal
    /\ pc[w] \in Publishing => Len(witness) = Len(events)
    /\ pc[w] \in {"unlink_event", "witness_event"} => syncedEvents = Len(events)
    /\ pc[w] = "finish_witness" => /\ Len(witness) = Len(events) + 1
                                   /\ ~Whole(witness[Len(witness)])
    /\ pc[w] \in Archiving \cup {"sync_witness", "return"} => Complete
    /\ pc[w] \in Publishing \cup Archiving
                  \cup {"finish_witness", "sync_witness", "return"} =>
          head[w] = LogHead /\ LastIs(payload[w])
    /\ pc[w] \in Archiving => Sealing(w)
    /\ pc[w] \in {"sync_witness", "write_terminal", "link_terminal"} =>
          terminal = {} /\ seal = {}
    /\ pc[w] \in Archiving \ {"write_terminal", "link_terminal"} =>
          terminal = {head[w]}
    /\ pc[w] \in {"unlink_terminal", "witness_seal", "finish_seal", "sync_seal"} =>
          syncedTerminal
    /\ pc[w] \in Archiving \ {"finish_seal", "sync_seal"} => seal = {}
    /\ pc[w] = "finish_seal" => seal = {[head |-> head[w], whole |-> FALSE]}
    /\ pc[w] = "sync_seal" => seal = {[head |-> head[w], whole |-> TRUE]}
    /\ pc[w] = "return" => IF Sealing(w) THEN syncedSeal
                           ELSE Len(witness) \in syncedWitnesses
Progress == \A w \in Writers : ProgressOf(w)

(* terminal.json names a complete history that ends in its terminal event, *)
(* and is durable before the seal witness is created.                      *)
Archive ==
    /\ terminal # {} => terminal = {LogHead} /\ Complete /\ LastIsTerminal
    /\ seal # {} => /\ \E b \in BOOLEAN : seal = {[head |-> LogHead, whole |-> b]}
                    /\ terminal = {LogHead} /\ syncedTerminal
    /\ syncedSeal => seal = {[head |-> LogHead, whole |-> TRUE]}

(* What was returned is in the log and witnessed, and its witness durable  *)
(* unless it is of a terminal event.                                       *)
Acknowledged ==
    \A hash \in acked :
        /\ Len(hash) < Len(witness) /\ Whole(witness[Len(hash) + 1])
        /\ Len(hash) <= Len(events) /\ History(Len(hash)) = hash
        /\ Terminated(hash) \/ Len(hash) + 1 \in syncedWitnesses

LogInv == Dormant /\ Chained /\ Frontier /\ Synced /\ Archive /\ Acknowledged

(* What of this holds after a power loss too.                              *)
Lasting ==
    /\ Chained /\ Synced
    /\ syncedEvents <= Len(events)
    /\ Len(witness) <= syncedEvents + 1
    /\ \A i \in 1..Len(witness) : witness[i].head = History(i - 1)
    /\ terminal # {} => terminal = {LogHead} /\ LastIsTerminal
    /\ seal # {} => /\ \E b \in BOOLEAN : seal = {[head |-> LogHead, whole |-> b]}
                    /\ terminal = {LogHead}
    /\ syncedSeal => Sealed
    /\ AcknowledgedKept

(* The machine is down: nothing runs any more but audits.                  *)
Stopped == powerLost => ~alive /\ \A w \in Writers : pc[w] = "dead"

(* The auditor's view, which no lock protects.                             *)
Verdict ==
    /\ auditPc # "idle" => ~audit.integrity
    /\ auditPc = "custody" => /\ terminal = {audit.seen}
                              /\ SealedSequence(audit.seen)
    /\ audit.integrity /\ audit.custody =>
          /\ terminal = {audit.seen}
          /\ SealedSequence(audit.seen)
          /\ RunVerified(audit.seen) \/ (powerLost /\ ~Durable(audit.seen))

IInv ==
    /\ TypeOK
    /\ Exclusion
    /\ Stopped
    /\ ~powerLost => LogInv /\ Progress
    /\ Lasting
    /\ Verdict
-------------------------------------------------------------------------------
(* Facts about histories *)

(* A history is a hash, and as long as it says.                            *)
LEMMA HistoryType ==
    ASSUME events \in Seq(Event), NEW n \in 0..Len(events)
    PROVE  /\ History(n) \in Hash
           /\ Len(History(n)) = n
           /\ \A i \in 1..n : History(n)[i] = events[i].payload
<1>1. \A i \in 1..n : events[i] \in Event
    OBVIOUS
<1>2. \A i \in 1..n : events[i].payload \in Payloads
    BY <1>1 DEF Event
<1>3. History(n) \in [1..n -> Payloads]
    BY <1>2 DEF History
<1>4. n \in Nat
    OBVIOUS
<1>. QED  BY <1>3, <1>4 DEF History, Hash

(* One more event makes the history one payload longer.                    *)
LEMMA HistorySnoc ==
    ASSUME events \in Seq(Event), NEW n \in 1..Len(events)
    PROVE  History(n) = Append(History(n - 1), events[n].payload)
<1>1. /\ History(n) \in Hash /\ Len(History(n)) = n
      /\ n - 1 \in 0..Len(events)
    BY HistoryType
<1>2. /\ History(n - 1) \in Hash /\ Len(History(n - 1)) = n - 1
    BY <1>1, HistoryType
<1>3. events[n].payload \in Payloads
    <2>1. events[n] \in Event
        OBVIOUS
    <2>. QED  BY <2>1 DEF Event
<1>. QED  BY <1>1, <1>2, <1>3 DEF History, Hash

(* The stored hash of the last event is the history of the whole log.      *)
LEMMA HeadIsHistory ==
    ASSUME events \in Seq(Event), Chained
    PROVE  LogHead = History(Len(events))
<1>1. CASE events = << >>
  <2>1. History(0) = << >>
    BY DEF History
  <2>. QED  BY <1>1, <2>1 DEF LogHead, Authority
<1>2. CASE events # << >>
  <2>1. Len(events) \in 1..Len(events)
    BY <1>2
  <2>2. events[Len(events)].previous = History(Len(events) - 1)
    BY <2>1 DEF Chained
  <2>. QED  BY <1>2, <2>1, <2>2, HistorySnoc DEF LogHead, RecordHash
<1>. QED  BY <1>1, <1>2

(* Shortening a history that is long enough gives the shorter history.     *)
LEMMA HistoryPrefix ==
    ASSUME events \in Seq(Event), NEW m \in 0..Len(events), NEW n \in 0..m
    PROVE  SubSeq(History(m), 1, n) = History(n)
<1>1. /\ History(m) \in Hash /\ Len(History(m)) = m /\ n \in 0..Len(events)
    BY HistoryType
<1>2. History(n) \in Hash /\ Len(History(n)) = n
    BY <1>1, HistoryType
<1>. QED  BY <1>1, <1>2 DEF History, Hash

(* Cutting what was appended gives the sequence back.                      *)
LEMMA AppendThenCut ==
    ASSUME NEW S, NEW s \in Seq(S), NEW e \in S
    PROVE  SubSeq(Append(s, e), 1, Len(s)) = s
OBVIOUS
-------------------------------------------------------------------------------
(* Type correctness *)

(* The hash the next append() builds on is a hash.                         *)
LEMMA TypingOfHead ==
    ASSUME events \in Seq(Event)
    PROVE  LogHead \in Hash
<1>1. CASE events = << >>
    BY <1>1 DEF LogHead, Authority, Hash
<1>2. CASE events # << >>
  <2>1. events[Len(events)] \in Event
    BY <1>2
  <2>. QED  BY <1>2, <2>1 DEF LogHead, RecordHash, Event, Hash
<1>. QED  BY <1>1, <1>2

(* There is a terminal payload, which stands for none.                     *)
LEMMA NoPayloadType == NoPayload \in Payloads
BY PayloadAssumption DEF NoPayload, Payloads

(* TypeOK in parts: what is on disk, in the registry, in the process, and   *)
(* in the auditor.                                                         *)
RunType == /\ stage \in 0..Ready
           /\ events \in Seq(Event)
           /\ eventTmp \in SUBSET Writers /\ runTmp \in SUBSET Writers
           /\ terminal \in SUBSET Hash
RegistryType == witness \in Seq(Witness) /\ seal \in SUBSET Witness
SyncType == /\ syncedEvents \in Nat /\ syncedTerminal \in BOOLEAN
            /\ syncedWitnesses \in SUBSET Nat /\ syncedSeal \in BOOLEAN
            /\ ghostTmp \in [{"events", "run"} -> SUBSET Writers]
CallType == /\ lock \in Writers \cup {NoWriter}
            /\ pc \in [Writers -> Labels]
            /\ payload \in [Writers -> Payloads]
            /\ head \in [Writers -> Hash]
            /\ calls \in [Writers -> Nat]
ProcessType == /\ faults \in Nat /\ alive \in BOOLEAN /\ powerLost \in BOOLEAN
               /\ acked \in SUBSET Hash /\ sealAcked \in BOOLEAN
AuditType == /\ auditPc \in {"idle", "events", "terminal", "custody"}
             /\ audit \in [seen : Hash, afterSeal : BOOLEAN, integrity : BOOLEAN,
                           custody : BOOLEAN]

(* The type invariant is the conjunction of its parts.                     *)
LEMMA TypeParts ==
    TypeOK <=> /\ RunType /\ RegistryType /\ SyncType
               /\ CallType /\ ProcessType /\ AuditType
BY DEF TypeOK, RunType, RegistryType, SyncType, CallType, ProcessType, AuditType,
       Event, Witness

(* The same of the next state.                                             *)
LEMMA TypePartsNext ==
    TypeOK' <=> /\ RunType' /\ RegistryType' /\ SyncType'
                /\ CallType' /\ ProcessType' /\ AuditType'
BY DEF TypeOK, RunType, RegistryType, SyncType, CallType, ProcessType, AuditType,
       Event, Witness

(* The end of a call keeps the types of the calling threads.               *)
LEMMA LeaveType ==
    ASSUME CallType, NEW w \in Writers, Leave(w)
    PROVE  CallType'
BY NoPayloadType DEF CallType, Leave, Labels, Authority, Hash

(* No step breaks the types of the Run's directory.                        *)
LEMMA RunTypeStep ==
    ASSUME TypeOK, [Next]_vars
    PROVE  RunType'
<1>. USE DEF runVars, registryVars, syncVars, custodySyncVars, callVars, resultVars,
             processVars,
             auditVars
<1>0. RunType /\ CallType /\ SyncType
    BY TypeParts
<1>1. CASE StartStep
    BY <1>0, <1>1 DEF StartStep, RunType, Ready
<1>2. ASSUME NEW w \in Writers,
             Call(w) \/ Lock(w) \/ Refuse(w) \/ Recover(w) \/ SyncEvent(w)
                \/ WitnessEvent(w) \/ FinishWitness(w) \/ SyncWitness(w)
                \/ SyncTerminal(w) \/ WitnessSeal(w) \/ FinishSeal(w) \/ SyncSeal(w)
                \/ Return(w)
      PROVE  RunType'
    BY <1>0, <1>2 DEF Call, Lock, Refuse, Recover, SyncEvent, WitnessEvent, FinishWitness,
                      SyncWitness,
                SyncTerminal, WitnessSeal, FinishSeal, SyncSeal, Return, RunType
<1>3. ASSUME NEW w \in Writers,
             WriteEvent(w) \/ UnlinkEvent(w) \/ WriteTerminal(w) \/ UnlinkTerminal(w)
                \/ Fault(w)
      PROVE  RunType'
    BY <1>0, <1>3 DEF WriteEvent, UnlinkEvent, WriteTerminal, UnlinkTerminal, Fault,
                      RunType
<1>4. ASSUME NEW w \in Writers, LinkEvent(w)
      PROVE  RunType'
  <2>1. SubSeq(head[w], 1, Sequence(w)) \in Hash /\ payload[w] \in Payloads
    BY <1>0 DEF CallType, Hash, Sequence
  <2>2. [payload |-> payload[w], previous |-> SubSeq(head[w], 1, Sequence(w))] \in Event
    BY <2>1 DEF Event
  <2>. QED  BY <1>0, <1>4, <2>2 DEF LinkEvent, RunType
<1>5. ASSUME NEW w \in Writers, LinkTerminal(w)
      PROVE  RunType'
    BY <1>0, <1>5 DEF LinkTerminal, RunType, CallType
<1>6. CASE Crash \/ Auditing \/ UNCHANGED vars
    BY <1>0, <1>6 DEF Crash, Auditing, AuditOpen, AuditEvents, AuditTerminal,
                      AuditCustody, vars, RunType
<1>7. CASE PowerLoss
    BY <1>0, <1>7 DEF PowerLoss, RunType, SyncType
<1>. QED  BY <1>1, <1>2, <1>3, <1>4, <1>5, <1>6, <1>7 DEF Next, Proceed, Publish

(* Replacing the last element of a sequence changes nothing else of it.    *)
LEMMA ReplaceLast ==
    ASSUME NEW S, NEW s \in Seq(S), NEW e \in S
    PROVE  /\ [s EXCEPT ![Len(s)] = e] \in Seq(S)
           /\ Len([s EXCEPT ![Len(s)] = e]) = Len(s)
           /\ \A i \in 1..Len(s) : [s EXCEPT ![Len(s)] = e][i] =
                                      IF i = Len(s) THEN e ELSE s[i]
<1>1. Len(s) \in Nat /\ s \in [1..Len(s) -> S]
    OBVIOUS
<1>2. [s EXCEPT ![Len(s)] = e] \in [1..Len(s) -> S]
    BY <1>1
<1>. QED  BY <1>1, <1>2

(* What a power loss leaves of the witnesses.                              *)
LEMMA Torn ==
    ASSUME witness \in Seq(Witness), TearWitnesses
    PROVE  /\ witness' \in Seq(Witness)
           /\ Len(witness') \in Nat /\ Len(witness') <= Len(witness)
           /\ syncedWitnesses \subseteq 1..Len(witness')
           /\ \A i \in 1..Len(witness') :
                 /\ witness'[i].head = witness[i].head
                 /\ Whole(witness'[i]) => Whole(witness[i])
                 /\ i \in syncedWitnesses => witness'[i] = witness[i]
<1>0. PICK n \in 0..Len(witness) :
        /\ syncedWitnesses \subseteq 1..n
        /\ \E torn \in SUBSET ((1..n) \ syncedWitnesses) :
              witness' = [i \in 1..n |-> [head |-> witness[i].head,
                                         whole |-> witness[i].whole /\ i \notin torn]]
    BY DEF TearWitnesses
<1>1. PICK torn \in SUBSET ((1..n) \ syncedWitnesses) :
        witness' = [i \in 1..n |-> [head |-> witness[i].head,
                                   whole |-> witness[i].whole /\ i \notin torn]]
    BY <1>0
<1>2. n \in Nat /\ n <= Len(witness)
    BY <1>1
<1>3. \A i \in 1..n : witness[i] \in Witness
    BY <1>2
<1>4. \A i \in 1..n : [head |-> witness[i].head,
                      whole |-> witness[i].whole /\ i \notin torn] \in Witness
  <2>1. SUFFICES ASSUME NEW i \in 1..n
                 PROVE  [head |-> witness[i].head,
                         whole |-> witness[i].whole /\ i \notin torn] \in Witness
    OBVIOUS
  <2>2. witness[i].head \in Hash /\ (witness[i].whole /\ i \notin torn) \in BOOLEAN
    BY <1>3, <2>1 DEF Witness
  <2>. QED  BY <2>2 DEF Witness
<1>5. witness' \in [1..n -> Witness]
    BY <1>1, <1>4
<1>6. witness' \in Seq(Witness) /\ Len(witness') = n
    BY <1>2, <1>5
<1>7. ASSUME NEW i \in 1..n
      PROVE  /\ witness'[i].head = witness[i].head
             /\ Whole(witness'[i]) => Whole(witness[i])
             /\ i \in syncedWitnesses => witness'[i] = witness[i]
  <2>1. witness'[i] = [head |-> witness[i].head,
                       whole |-> witness[i].whole /\ i \notin torn]
    BY <1>1
  <2>2. witness[i] = [head |-> witness[i].head, whole |-> witness[i].whole]
    BY <1>3 DEF Witness
  <2>3. witness[i].whole \in BOOLEAN
    BY <1>3 DEF Witness
  <2>4. i \in syncedWitnesses => i \notin torn
    BY <1>1
  <2>5. i \in syncedWitnesses => (witness[i].whole /\ i \notin torn) = witness[i].whole
    BY <2>3, <2>4
  <2>6. witness'[i].head = witness[i].head
    BY <2>1
  <2>7. witness'[i].whole = (witness[i].whole /\ i \notin torn)
    BY <2>1
  <2>8. Whole(witness'[i]) => Whole(witness[i])
    BY <2>7 DEF Whole
  <2>9. ASSUME i \in syncedWitnesses
        PROVE  witness'[i] = witness[i]
    <3>1. (witness[i].whole /\ i \notin torn) = witness[i].whole
      BY <2>5, <2>9
    <3>. QED  BY <2>1, <2>2, <3>1
  <2>. QED  BY <2>6, <2>8, <2>9
<1>. QED  BY <1>0, <1>2, <1>6, <1>7

(* No step breaks the types of the external registry.                      *)
LEMMA RegistryTypeStep ==
    ASSUME TypeOK, [Next]_vars
    PROVE  RegistryType'
<1>. USE DEF runVars, registryVars, syncVars, custodySyncVars, callVars, resultVars,
             processVars,
             auditVars
<1>0. RegistryType /\ CallType
    BY TypeParts
<1>1. CASE StartStep
  <2>1. [head |-> Authority, whole |-> TRUE] \in Witness
    BY DEF Witness, Authority, Hash
  <2>. QED  BY <1>0, <1>1, <2>1 DEF StartStep, RegistryType
<1>2. ASSUME NEW w \in Writers,
             Call(w) \/ Lock(w) \/ Refuse(w) \/ Recover(w) \/ WriteEvent(w)
                \/ LinkEvent(w) \/ SyncEvent(w) \/ UnlinkEvent(w) \/ WriteTerminal(w)
                \/ LinkTerminal(w) \/ SyncTerminal(w) \/ UnlinkTerminal(w)
                \/ SyncWitness(w) \/ SyncSeal(w) \/ Return(w) \/ Fault(w)
      PROVE  RegistryType'
    BY <1>0, <1>2 DEF SyncWitness, SyncSeal, Call, Lock, Refuse, Recover, WriteEvent,
                      LinkEvent, SyncEvent,
                UnlinkEvent, WriteTerminal, LinkTerminal, SyncTerminal,
                UnlinkTerminal, Return, Fault, RegistryType
<1>3. ASSUME NEW w \in Writers, WitnessEvent(w)
      PROVE  RegistryType'
  <2>1. [head |-> head[w], whole |-> FALSE] \in Witness
    BY <1>0 DEF CallType, Witness
  <2>. QED  BY <1>0, <1>3, <2>1 DEF WitnessEvent, RegistryType
<1>4. ASSUME NEW w \in Writers, FinishWitness(w)
      PROVE  RegistryType'
  <2>1. [head |-> head[w], whole |-> TRUE] \in Witness
    BY <1>0 DEF CallType, Witness
  <2>. QED  BY <1>0, <1>4, <2>1, ReplaceLast DEF FinishWitness, SyncWitness, RegistryType
<1>5. ASSUME NEW w \in Writers, WitnessSeal(w) \/ FinishSeal(w)
      PROVE  RegistryType'
  <2>1. \A b \in BOOLEAN : [head |-> head[w], whole |-> b] \in Witness
    BY <1>0 DEF CallType, Witness
  <2>. QED  BY <1>0, <1>5, <2>1 DEF WitnessSeal, FinishSeal, SyncSeal, RegistryType
<1>6. CASE Crash \/ Auditing \/ UNCHANGED vars
    BY <1>0, <1>6 DEF Crash, Auditing, AuditOpen, AuditEvents, AuditTerminal,
                      AuditCustody, vars, RegistryType
<1>7. CASE PowerLoss
  <2>1. witness' \in Seq(Witness)
    <3>1. TearWitnesses /\ witness \in Seq(Witness)
      BY <1>0, <1>7 DEF PowerLoss, RegistryType
    <3>. QED  BY <3>1, Torn
  <2>2. seal' \in SUBSET Witness
    <3>1. seal' \in {seal, {}, {[head |-> record.head, whole |-> FALSE] : record \in seal}}
      BY <1>7 DEF PowerLoss, TearSeal
    <3>2. \A record \in Witness : [head |-> record.head, whole |-> FALSE] \in Witness
      BY DEF Witness
    <3>. QED  BY <1>0, <3>1, <3>2 DEF RegistryType
  <2>. QED  BY <2>1, <2>2 DEF RegistryType
<1>. QED  BY <1>1, <1>2, <1>3, <1>4, <1>5, <1>6, <1>7 DEF Next, Proceed, Publish

(* No step breaks the types of what survives a power loss.                 *)
LEMMA SyncTypeStep ==
    ASSUME TypeOK, [Next]_vars
    PROVE  SyncType'
<1>. USE DEF runVars, registryVars, syncVars, custodySyncVars, callVars, resultVars,
             processVars,
             auditVars
<1>0. SyncType /\ RunType
    BY TypeParts
<1>1. CASE StartStep
    BY <1>0, <1>1 DEF StartStep, SyncType
<1>6. ASSUME NEW w \in Writers, SyncWitness(w) \/ SyncSeal(w)
      PROVE  SyncType'
  <2>1. Len(witness) \in Nat
    BY TypeParts DEF RegistryType
  <2>. QED  BY <1>0, <1>6, <2>1 DEF SyncWitness, SyncSeal, SyncType
<1>2. ASSUME NEW w \in Writers,
             Call(w) \/ Lock(w) \/ Refuse(w) \/ Recover(w) \/ WriteEvent(w)
                \/ LinkEvent(w) \/ WitnessEvent(w) \/ FinishWitness(w)
                \/ WriteTerminal(w) \/ LinkTerminal(w) \/ WitnessSeal(w)
                \/ FinishSeal(w) \/ Return(w)
      PROVE  SyncType'
    BY <1>0, <1>2 DEF Call, Lock, Refuse, Recover, WriteEvent, LinkEvent, WitnessEvent,
                FinishWitness, SyncWitness, WriteTerminal, LinkTerminal, WitnessSeal,
                FinishSeal, SyncSeal,
                Return, SyncType
<1>3. ASSUME NEW w \in Writers, SyncEvent(w) \/ SyncTerminal(w)
      PROVE  SyncType'
  <2>1. Len(events) \in Nat
    BY <1>0 DEF RunType
  <2>. QED  BY <1>0, <1>3, <2>1 DEF SyncEvent, SyncTerminal, SyncType
<1>4. ASSUME NEW w \in Writers, UnlinkEvent(w) \/ UnlinkTerminal(w) \/ Fault(w)
      PROVE  SyncType'
  <2>1. /\ UNCHANGED <<syncedEvents, syncedTerminal, syncedWitnesses, syncedSeal>>
        /\ \E gone \in SUBSET Writers : ghostTmp' \in {
              ghostTmp, [directory \in DOMAIN ghostTmp |-> ghostTmp[directory] \cup gone],
              [ghostTmp EXCEPT !["events"] = @ \cup gone],
              [ghostTmp EXCEPT !["run"] = @ \cup gone]}
    <3>1. CASE UnlinkEvent(w)
      <4>1. ghostTmp' = [ghostTmp EXCEPT !["events"] = @ \cup {w}]
        BY <3>1 DEF UnlinkEvent
      <4>. QED  BY <3>1, <4>1 DEF UnlinkEvent
    <3>2. CASE UnlinkTerminal(w)
      <4>1. ghostTmp' = [ghostTmp EXCEPT !["run"] = @ \cup {w}]
        BY <3>2 DEF UnlinkTerminal
      <4>. QED  BY <3>2, <4>1 DEF UnlinkTerminal
    <3>3. CASE Fault(w)
      <4>1. ghostTmp' = ghostTmp
               \/ ghostTmp' = [directory \in DOMAIN ghostTmp |-> ghostTmp[directory] \cup {w}]
        BY <3>3 DEF Fault
      <4>. QED  BY <3>3, <4>1 DEF Fault
    <3>. QED  BY <1>4, <3>1, <3>2, <3>3
  <2>. QED  BY <1>0, <2>1 DEF SyncType
<1>5. CASE Crash \/ PowerLoss \/ Auditing \/ UNCHANGED vars
    BY <1>0, <1>5 DEF Crash, PowerLoss, Auditing, AuditOpen, AuditEvents,
                      AuditTerminal, AuditCustody, vars, SyncType
<1>. QED  BY <1>1, <1>2, <1>3, <1>4, <1>5, <1>6 DEF Next, Proceed, Publish

(* No step breaks the types of the calling threads.                        *)
LEMMA CallTypeStep ==
    ASSUME TypeOK, [Next]_vars
    PROVE  CallType'
<1>. USE DEF Goto, runVars, registryVars, syncVars, custodySyncVars, callVars, resultVars,
             processVars,
             auditVars
<1>0. CallType /\ RunType
    BY TypeParts
<1>1. CASE StartStep \/ Auditing \/ UNCHANGED vars
    BY <1>0, <1>1 DEF StartStep, Auditing, AuditOpen, AuditEvents, AuditTerminal,
                      AuditCustody, vars, CallType
<1>2. ASSUME NEW w \in Writers, Call(w) \/ Lock(w)
      PROVE  CallType'
    BY <1>0, <1>2 DEF Call, Lock, CallType, Labels
<1>3. ASSUME NEW w \in Writers, Refuse(w) \/ Return(w) \/ Fault(w)
      PROVE  CallType'
    BY <1>0, <1>3, LeaveType DEF Refuse, Return, Fault
<1>4. ASSUME NEW w \in Writers, Recover(w) \/ WriteEvent(w)
      PROVE  CallType'
  <2>1. LogHead \in Hash /\ Append(LogHead, payload[w]) \in Hash
    BY <1>0, TypingOfHead DEF RunType, CallType, Hash
  <2>. QED  BY <1>0, <1>4, <2>1 DEF Recover, WriteEvent, CallType, Labels, Steps
<1>5. ASSUME NEW w \in Writers,
             LinkEvent(w) \/ SyncEvent(w) \/ UnlinkEvent(w) \/ WitnessEvent(w)
                \/ FinishWitness(w) \/ SyncWitness(w)
      PROVE  CallType'
    BY <1>0, <1>5 DEF LinkEvent, SyncEvent, UnlinkEvent, WitnessEvent, FinishWitness,
                      SyncWitness,
                      CallType, Labels, Steps
<1>6. ASSUME NEW w \in Writers,
             WriteTerminal(w) \/ LinkTerminal(w) \/ SyncTerminal(w)
                \/ UnlinkTerminal(w) \/ WitnessSeal(w) \/ FinishSeal(w) \/ SyncSeal(w)
      PROVE  CallType'
  <2>1. {"link_terminal", "sync_terminal", "unlink_terminal", "witness_seal",
         "finish_seal", "sync_seal", "return"} \subseteq Labels
    BY DEF Labels, Steps
  <2>. QED  BY <1>0, <1>6, <2>1 DEF WriteTerminal, LinkTerminal, SyncTerminal,
                    UnlinkTerminal, WitnessSeal, FinishSeal, SyncSeal, CallType
<1>7. CASE Crash \/ PowerLoss
  <2>1. ProcessGone => CallType'
    <3>1. "dead" \in Labels /\ Authority \in Hash
      BY DEF Labels, Authority, Hash
    <3>. QED  BY <1>0, <3>1, NoPayloadType DEF ProcessGone, CallType
  <2>. QED  BY <1>7, <2>1 DEF Crash, PowerLoss
<1>. QED  BY <1>1, <1>2, <1>3, <1>4, <1>5, <1>6, <1>7 DEF Next, Proceed, Publish

(* No step breaks the types of the process and its results.                *)
LEMMA ProcessTypeStep ==
    ASSUME TypeOK, [Next]_vars
    PROVE  ProcessType'
<1>. USE DEF runVars, registryVars, syncVars, custodySyncVars, callVars, resultVars,
             processVars,
             auditVars
<1>0. ProcessType /\ CallType
    BY TypeParts
<1>1. CASE StartStep \/ Auditing \/ UNCHANGED vars
    BY <1>0, <1>1 DEF StartStep, Auditing, AuditOpen, AuditEvents, AuditTerminal,
                      AuditCustody, vars, ProcessType
<1>2. ASSUME NEW w \in Writers,
             Call(w) \/ Lock(w) \/ Refuse(w) \/ Recover(w) \/ Publish(w)
      PROVE  ProcessType'
    BY <1>0, <1>2 DEF Call, Lock, Refuse, Recover, Publish, WriteEvent, LinkEvent,
                SyncEvent, UnlinkEvent, WitnessEvent, FinishWitness, SyncWitness,
                WriteTerminal,
                LinkTerminal, SyncTerminal, UnlinkTerminal, WitnessSeal, FinishSeal, SyncSeal,
                ProcessType
<1>3. ASSUME NEW w \in Writers, Return(w)
      PROVE  ProcessType'
  <2>1. (sealAcked \/ Sealing(w)) \in BOOLEAN
    OBVIOUS
  <2>. QED  BY <1>0, <1>3, <2>1 DEF Return, ProcessType, CallType
<1>4. ASSUME NEW w \in Writers, Fault(w)
      PROVE  ProcessType'
    BY <1>0, <1>4 DEF Fault, ProcessType
<1>5. CASE Crash \/ PowerLoss
    BY <1>0, <1>5 DEF Crash, PowerLoss, ProcessGone, ProcessType
<1>. QED  BY <1>1, <1>2, <1>3, <1>4, <1>5 DEF Next, Proceed

(* No step breaks the types of the auditor.                                *)
LEMMA AuditTypeStep ==
    ASSUME TypeOK, [Next]_vars
    PROVE  AuditType'
<1>. USE DEF runVars, registryVars, syncVars, custodySyncVars, callVars, resultVars,
             processVars,
             auditVars
<1>0. AuditType /\ RunType /\ ProcessType
    BY TypeParts
<1>1. CASE StartStep \/ Crash \/ UNCHANGED vars
    BY <1>0, <1>1 DEF StartStep, Crash, vars, AuditType
<1>2. ASSUME NEW w \in Writers, Call(w) \/ Proceed(w) \/ Fault(w)
      PROVE  AuditType'
    BY <1>0, <1>2 DEF Call, Proceed, Lock, Refuse, Recover, Publish, WriteEvent,
                LinkEvent, SyncEvent, UnlinkEvent, WitnessEvent, FinishWitness, SyncWitness,
                WriteTerminal, LinkTerminal, SyncTerminal, UnlinkTerminal,
                WitnessSeal, FinishSeal, SyncSeal, Return, Fault, AuditType
<1>3. CASE PowerLoss
    BY <1>0, <1>3 DEF PowerLoss, AuditType, NoAudit, Hash
<1>4. CASE AuditOpen
  <2>1. (runTmp = {}) \in BOOLEAN
    OBVIOUS
  <2>. QED  BY <1>0, <1>4, <2>1 DEF AuditOpen, AuditType, ProcessType, Hash
<1>5. CASE AuditEvents
    BY <1>0, <1>5, TypingOfHead DEF AuditEvents, AuditType, RunType
<1>6. CASE AuditTerminal
  <2>1. (audit.custody /\ (terminal # {} => runTmp = {})) \in BOOLEAN
    OBVIOUS
  <2>. QED  BY <1>0, <1>6, <2>1 DEF AuditTerminal, AuditType
<1>7. CASE AuditCustody
  <2>1. (audit.custody /\ RunVerified(audit.seen)) \in BOOLEAN
    OBVIOUS
  <2>. QED  BY <1>0, <1>7, <2>1 DEF AuditCustody, AuditType
<1>. QED  BY <1>1, <1>2, <1>3, <1>4, <1>5, <1>6, <1>7 DEF Next, Auditing

(* The initial state has the types.                                        *)
LEMMA TypeInit == Init => TypeOK
<1>. SUFFICES ASSUME Init PROVE TypeOK
    OBVIOUS
<1>1. << >> \in Seq(Event) /\ << >> \in Seq(Witness) /\ << >> \in Hash
    BY DEF Hash
<1>2. RunType /\ RegistryType
    BY <1>1 DEF Init, RunType, RegistryType, Ready
<1>3. SyncType
    BY DEF Init, SyncType
<1>4. CallType
    BY <1>1, NoPayloadType DEF Init, CallType, Labels, Authority
<1>5. ProcessType
    BY DEF Init, ProcessType
<1>6. AuditType
    BY <1>1 DEF Init, AuditType, NoAudit
<1>. QED  BY <1>2, <1>3, <1>4, <1>5, <1>6, TypeParts

(* Every step keeps the types.                                             *)
LEMMA TypeStep == TypeOK /\ [Next]_vars => TypeOK'
BY RunTypeStep, RegistryTypeStep, SyncTypeStep, CallTypeStep, ProcessTypeStep,
   AuditTypeStep, TypePartsNext

(* Every state of the protocol has the types its code reads.               *)
THEOREM Typing == Spec => []TypeOK
BY TypeInit, TypeStep, PTL DEF Spec

-------------------------------------------------------------------------------
(* Mutual exclusion of the critical section *)

(* At first nobody holds the flock or is inside.                           *)
LEMMA ExclusionInit == Init => Exclusion
BY NoWriterAssumption DEF Init, Exclusion, Holding, Steps

(* Lock is the only way in and every way out releases the flock.           *)
LEMMA ExclusionStep ==
    ASSUME TypeOK, Exclusion, [Next]_vars
    PROVE  Exclusion'
<1>. USE NoWriterAssumption DEF Goto, runVars, registryVars, syncVars, custodySyncVars,
                                callVars,
             resultVars, processVars, auditVars
<1>0. CallType
    BY TypeParts
<1>1. CASE StartStep \/ Auditing \/ UNCHANGED vars
    BY <1>1 DEF StartStep, Auditing, AuditOpen, AuditEvents, AuditTerminal,
                AuditCustody, vars, Exclusion
<1>2. ASSUME NEW w \in Writers, Call(w) \/ Lock(w)
      PROVE  Exclusion'
    BY <1>0, <1>2 DEF Call, Lock, CallType, Exclusion, Holding, Steps
<1>3. ASSUME NEW w \in Writers, Refuse(w) \/ Return(w) \/ Fault(w)
      PROVE  Exclusion'
  <2>1. pc[w] \in Holding /\ Leave(w)
    BY <1>3 DEF Refuse, Return, Fault, Holding, Steps
  <2>2. "idle" \notin Holding
    BY DEF Holding, Steps
  <2>. QED  BY <1>0, <2>1, <2>2 DEF Leave, CallType, Exclusion
<1>4. ASSUME NEW w \in Writers, Recover(w) \/ Publish(w)
      PROVE  Exclusion'
  <2>1. /\ pc[w] \in Holding /\ UNCHANGED lock
        /\ \E l \in Holding : pc' = [pc EXCEPT ![w] = l]
    BY <1>4 DEF Recover, Publish, WriteEvent, LinkEvent, SyncEvent, UnlinkEvent,
                WitnessEvent, FinishWitness, SyncWitness, WriteTerminal, LinkTerminal,
                SyncTerminal, UnlinkTerminal, WitnessSeal, FinishSeal, SyncSeal, Holding,
                Steps
  <2>. QED  BY <1>0, <2>1 DEF CallType, Exclusion
<1>5. CASE Crash \/ PowerLoss
  <2>1. ProcessGone
    BY <1>5 DEF Crash, PowerLoss
  <2>. QED  BY <1>0, <2>1 DEF ProcessGone, CallType, Exclusion, Holding, Steps
<1>. QED  BY <1>1, <1>2, <1>3, <1>4, <1>5 DEF Next, Proceed

(* While one thread is in the critical section no other is.                *)
LEMMA Alone ==
    ASSUME Exclusion, NEW w \in Writers, NEW v \in Writers \ {w}, pc[w] \in Holding
    PROVE  pc[v] \notin Holding
BY DEF Exclusion

(* A thread outside the critical section has no obligation.                *)
LEMMA OutsideProgress ==
    ASSUME NEW w \in Writers, pc[w] \notin Holding
    PROVE  ProgressOf(w)
BY DEF ProgressOf, Holding, Steps, Publishing, Archiving

(* What one thread's step inside the critical section leaves to be shown   *)
(* of every thread's progress.                                             *)
LEMMA ProgressOfOne ==
    ASSUME TypeOK, Exclusion, NEW w \in Writers, pc[w] \in Holding,
           NEW l \in Labels, pc' = [pc EXCEPT ![w] = l], ProgressOf(w)'
    PROVE  Progress'
<1>1. SUFFICES ASSUME NEW v \in Writers \ {w}
               PROVE  ProgressOf(v)'
    BY DEF Progress
<1>2. pc'[v] \notin Holding
    BY Alone DEF TypeOK
<1>. QED  BY <1>2 DEF ProgressOf, Holding, Steps, Publishing, Archiving

-------------------------------------------------------------------------------
(* Events grow at their end, and lose their end in a power loss *)

(* What appending an event file does to the histories and the head.        *)
LEMMA Grown ==
    ASSUME events \in Seq(Event), NEW e \in Event, events' = Append(events, e)
    PROVE  /\ Len(events') = Len(events) + 1
           /\ events' # << >> /\ events'[Len(events')] = e
           /\ \A i \in 1..Len(events) : events'[i] = events[i]
           /\ \A n \in 0..Len(events) : History(n)' = History(n)
           /\ LogHead' = Append(e.previous, e.payload)
<1>1. /\ Len(events') = Len(events) + 1
      /\ events' # << >> /\ events'[Len(events')] = e
      /\ \A i \in 1..Len(events) : events'[i] = events[i]
    OBVIOUS
<1>. QED  BY <1>1 DEF History, LogHead, RecordHash

(* What a prefix of a sequence holds.                                      *)
LEMMA CutAt ==
    ASSUME NEW S, NEW s \in Seq(S), NEW m \in 0..Len(s)
    PROVE  /\ Len(SubSeq(s, 1, m)) = m
           /\ \A i \in 1..m : SubSeq(s, 1, m)[i] = s[i]
           /\ (SubSeq(s, 1, m) # << >> <=> m >= 1)
           /\ m = Len(s) => SubSeq(s, 1, m) = s
OBVIOUS

(* What is left of a sequence without its last element.                    *)
LEMMA CutLast ==
    ASSUME NEW S, NEW s \in Seq(S), s # << >>, NEW t, t = SubSeq(s, 1, Len(s) - 1)
    PROVE  /\ Len(t) = Len(s) - 1 /\ Len(t) \in Nat
           /\ (t # << >> <=> Len(t) >= 1)
           /\ \A i \in 1..Len(t) : t[i] = s[i]
<1>1. Len(s) \in Nat /\ Len(s) >= 1
    OBVIOUS
<1>2. Len(s) - 1 \in 0..Len(s)
    BY <1>1
<1>3. PICK m \in 0..Len(s) : m = Len(s) - 1
    BY <1>2
<1>4. t = SubSeq(s, 1, m) /\ m \in Nat
    BY <1>1, <1>3
<1>5. /\ Len(SubSeq(s, 1, m)) = m
      /\ \A i \in 1..m : SubSeq(s, 1, m)[i] = s[i]
      /\ (SubSeq(s, 1, m) # << >> <=> m >= 1)
    BY CutAt
<1>6. Len(t) = m /\ (t # << >> <=> m >= 1) /\ \A i \in 1..m : t[i] = s[i]
    BY <1>4, <1>5
<1>. QED  BY <1>3, <1>4, <1>6

(* What losing the newest event files does to the histories.               *)
LEMMA Cut ==
    ASSUME events \in Seq(Event), NEW m \in 0..Len(events),
           events' = SubSeq(events, 1, m)
    PROVE  /\ Len(events') = m
           /\ \A i \in 1..m : events'[i] = events[i]
           /\ \A n \in 0..m : History(n)' = History(n)
           /\ m = Len(events) => events' = events
<1>1. /\ Len(events') = m
      /\ \A i \in 1..m : events'[i] = events[i]
      /\ m = Len(events) => events' = events
    BY CutAt
<1>. QED  BY <1>1 DEF History

-------------------------------------------------------------------------------
(* Steps that leave the log alone *)

logVars == <<stage, events, witness, terminal, seal, syncedEvents, syncedTerminal,
             syncedWitnesses, syncedSeal, acked>>

Quiet(w) ==
    \/ Call(w) \/ Lock(w) \/ Refuse(w) \/ Recover(w) \/ WriteEvent(w)
    \/ UnlinkEvent(w) \/ WriteTerminal(w) \/ UnlinkTerminal(w) \/ Fault(w)

(* A quiet step touches neither the log nor the auditor.                   *)
LEMMA QuietStep ==
    ASSUME NEW w \in Writers, Quiet(w)
    PROVE  UNCHANGED logVars /\ UNCHANGED auditVars
BY DEF Quiet, Call, Lock, Refuse, Recover, WriteEvent, UnlinkEvent, WriteTerminal,
       UnlinkTerminal, Fault, logVars, runVars, registryVars, syncVars, custodySyncVars,
       resultVars,
       auditVars

(* Neither does a crash, an audit or a stutter touch the log.              *)
LEMMA QuietOthers ==
    ASSUME Crash \/ Auditing \/ UNCHANGED vars
    PROVE  UNCHANGED logVars
BY DEF Crash, ProcessGone, Auditing, AuditOpen, AuditEvents, AuditTerminal,
       AuditCustody, vars, logVars, runVars, registryVars, syncVars, custodySyncVars,
       resultVars

(* What speaks of the log alone survives a step that leaves it.            *)
LEMMA Unchanged ==
    ASSUME UNCHANGED logVars
    PROVE  /\ Chained => Chained'
           /\ Frontier /\ Synced => Frontier' /\ Synced'
           /\ Archive => Archive'
           /\ Acknowledged => Acknowledged'
<1>1. LogHead' = LogHead /\ Complete' = Complete /\ LastIsTerminal' = LastIsTerminal
    BY DEF logVars, LogHead, Complete, Whole, LastIsTerminal, RecordHash
<1>2. \A n : History(n)' = History(n)
    BY DEF logVars, History
<1>3. Chained => Chained'
    BY <1>2 DEF logVars, Chained
<1>4. Frontier /\ Synced => Frontier' /\ Synced'
    BY <1>2 DEF logVars, Frontier, Synced, Whole
<1>5. Archive => Archive'
    BY <1>1 DEF logVars, Archive
<1>6. Acknowledged => Acknowledged'
    BY <1>2 DEF logVars, Acknowledged, Whole, Terminated
<1>. QED  BY <1>3, <1>4, <1>5, <1>6

(* Every step but a power loss keeps Dormant: start_run writes no event    *)
(* until it returns.                                                       *)
LEMMA DormantStep ==
    ASSUME TypeOK, Dormant, [Next]_vars, ~powerLost'
    PROVE  Dormant'
<1>. USE DEF Goto, runVars, registryVars, syncVars, custodySyncVars, callVars, resultVars,
             processVars,
             auditVars
<1>0. RunType /\ CallType
    BY TypeParts
<1>1. CASE StartStep
    BY <1>0, <1>1 DEF StartStep, Dormant, RunType, Ready, AuthorityWitnessed
<1>2. ASSUME NEW w \in Writers, Call(w) \/ Proceed(w) \/ Fault(w)
      PROVE  Dormant'
  <2>1. stage = Ready
    <3>1. CASE Call(w)
      BY <3>1 DEF Call
    <3>2. CASE Proceed(w) \/ Fault(w)
      <4>1. pc[w] \notin {"idle", "dead"}
        BY <3>2 DEF Proceed, Lock, Refuse, Recover, Publish, WriteEvent, LinkEvent,
                SyncEvent, UnlinkEvent, WitnessEvent, FinishWitness, SyncWitness,
                WriteTerminal,
                LinkTerminal, SyncTerminal, UnlinkTerminal, WitnessSeal, FinishSeal, SyncSeal,
                Return, Fault, Steps
      <4>. QED  BY <4>1 DEF Dormant
    <3>. QED  BY <1>2, <3>1, <3>2
  <2>2. UNCHANGED stage
    BY <1>2 DEF Call, Proceed, Lock, Refuse, Recover, Publish, WriteEvent, LinkEvent,
                SyncEvent, UnlinkEvent, WitnessEvent, FinishWitness, SyncWitness,
                WriteTerminal,
                LinkTerminal, SyncTerminal, UnlinkTerminal, WitnessSeal, FinishSeal, SyncSeal,
                Return, Fault
  <2>. QED  BY <2>1, <2>2 DEF Dormant
<1>3. CASE Crash
    BY <1>3 DEF Crash, ProcessGone, Dormant
<1>4. ~PowerLoss
    BY DEF PowerLoss
<1>5. CASE Auditing \/ UNCHANGED vars
    BY <1>5 DEF Auditing, AuditOpen, AuditEvents, AuditTerminal, AuditCustody, vars,
                Dormant
<1>. QED  BY <1>1, <1>2, <1>3, <1>4, <1>5 DEF Next

-------------------------------------------------------------------------------
(* Each step that changes the log *)

(* Publishing an event file keeps the log's invariant.                     *)
LEMMA LinkEventKeeps ==
    ASSUME TypeOK, LogInv, NEW w \in Writers, ProgressOf(w), LinkEvent(w)
    PROVE  /\ Chained' /\ Frontier' /\ Synced' /\ Archive' /\ Acknowledged'
           /\ ProgressOf(w)'
<1>. DEFINE n == Len(events)
            e == [payload |-> payload[w], previous |-> LogHead]
<1>0. RunType /\ RegistryType /\ SyncType /\ CallType
    BY TypeParts
<1>1. /\ events \in Seq(Event) /\ n \in Nat
      /\ LogHead \in Hash /\ LogHead = History(n) /\ Len(LogHead) = n
  <2>1. events \in Seq(Event) /\ n \in 0..Len(events)
    BY <1>0 DEF RunType
  <2>. QED  BY <2>1, HeadIsHistory, HistoryType DEF LogInv
<1>2. /\ head[w] = Append(LogHead, payload[w]) /\ Complete /\ ~LastIsTerminal
      /\ payload[w] \in Payloads
    BY <1>0 DEF ProgressOf, LinkEvent, CallType
<1>3. SubSeq(head[w], 1, Sequence(w)) = LogHead
    BY <1>1, <1>2, AppendThenCut DEF Sequence, Hash
<1>4. /\ events' = Append(events, e) /\ e \in Event
      /\ pc' = [pc EXCEPT ![w] = "sync_event"]
      /\ UNCHANGED <<witness, terminal, seal, syncedEvents, syncedWitnesses, syncedSeal,
                     payload, head, acked, stage>>
    BY <1>1, <1>2, <1>3 DEF LinkEvent, Event, Goto, registryVars, syncVars,
                            custodySyncVars, callVars,
                            resultVars
<1>5. /\ Len(events') = n + 1
      /\ events' # << >> /\ events'[n + 1] = e
      /\ \A i \in 1..n : events'[i] = events[i]
      /\ \A k \in 0..n : History(k)' = History(k)
      /\ LogHead' = head[w]
    BY <1>1, <1>2, <1>4, Grown
<1>6. Chained'
  <2>1. \A i \in 1..n : events[i].payload \notin Terminals
    BY <1>1, <1>2 DEF LogInv, Chained, LastIsTerminal
  <2>2. ASSUME NEW i \in 1..Len(events')
        PROVE  /\ events'[i].previous = History(i - 1)'
               /\ i < Len(events') => events'[i].payload \notin Terminals
    <3>1. CASE i = n + 1
      BY <1>1, <1>5, <3>1
    <3>2. CASE i \in 1..n
      BY <1>1, <1>5, <2>1, <3>2 DEF LogInv, Chained
    <3>. QED  BY <1>1, <1>5, <2>2, <3>1, <3>2
  <2>. QED  BY <2>2 DEF Chained
<1>7. Frontier'
  <2>1. /\ syncedEvents <= n /\ Len(witness) <= syncedEvents + 1 /\ Len(witness) = n + 1
        /\ Whole(witness[Len(witness)])
        /\ syncedEvents \in Nat
    BY <1>0, <1>2 DEF LogInv, Frontier, Complete, SyncType
  <2>2. \A i \in 1..Len(witness) : i - 1 \in 0..n
    BY <1>1, <2>1
  <2>. QED  BY <1>1, <1>4, <1>5, <2>1, <2>2 DEF LogInv, Frontier, Whole
<1>8. terminal = {} /\ seal = {} /\ Archive' /\ Synced'
    BY <1>2, <1>4 DEF LogInv, Archive, Synced, Whole
<1>9. Acknowledged'
    BY <1>0, <1>1, <1>4, <1>5 DEF LogInv, Acknowledged, ProcessType, Whole, Terminated
<1>10. ProgressOf(w)'
  <2>1. Len(witness') = Len(events') /\ head'[w] = LogHead' /\ LastIs(payload[w])'
        /\ pc'[w] = "sync_event"
    BY <1>0, <1>1, <1>2, <1>4, <1>5 DEF Complete, LastIs, CallType
  <2>. QED  BY <1>4, <2>1 DEF ProgressOf, Publishing, Archiving
<1>. QED  BY <1>6, <1>7, <1>8, <1>9, <1>10

(* The facts about types and the last hash that the steps below start from. *)
LEMMA ChainBasics ==
    ASSUME TypeOK, Chained
    PROVE  /\ events \in Seq(Event) /\ witness \in Seq(Witness)
           /\ Len(events) \in Nat /\ Len(witness) \in Nat /\ syncedEvents \in Nat
           /\ pc \in [Writers -> Labels] /\ head \in [Writers -> Hash]
           /\ LogHead = History(Len(events)) /\ Len(LogHead) = Len(events)
           /\ LogHead \in Hash
           /\ (events # << >> <=> Len(events) >= 1)
<1>1. /\ events \in Seq(Event) /\ witness \in Seq(Witness) /\ syncedEvents \in Nat
      /\ pc \in [Writers -> Labels] /\ head \in [Writers -> Hash]
    BY TypeParts DEF RunType, RegistryType, SyncType, CallType
<1>2. Len(events) \in 0..Len(events)
    BY <1>1
<1>. QED  BY <1>1, <1>2, HeadIsHistory, HistoryType

(* The same under the invariant of the log.                                *)
LEMMA Basics ==
    ASSUME TypeOK, LogInv
    PROVE  /\ events \in Seq(Event) /\ witness \in Seq(Witness)
           /\ Len(events) \in Nat /\ Len(witness) \in Nat /\ syncedEvents \in Nat
           /\ pc \in [Writers -> Labels] /\ head \in [Writers -> Hash]
           /\ LogHead = History(Len(events)) /\ Len(LogHead) = Len(events)
           /\ LogHead \in Hash
           /\ (events # << >> <=> Len(events) >= 1)
BY ChainBasics DEF LogInv

(* So does the fsync of the events directory.                              *)
LEMMA SyncEventKeeps ==
    ASSUME TypeOK, LogInv, NEW w \in Writers, ProgressOf(w), SyncEvent(w)
    PROVE  /\ Chained' /\ Frontier' /\ Synced' /\ Archive' /\ Acknowledged'
           /\ ProgressOf(w)'
<1>1. /\ UNCHANGED <<stage, events, witness, terminal, seal, syncedTerminal,
                     syncedWitnesses, syncedSeal, acked, payload, head>>
      /\ syncedEvents' = Len(events)
      /\ pc[w] = "sync_event" /\ pc' = [pc EXCEPT ![w] = "unlink_event"]
    BY DEF SyncEvent, Goto, runVars, registryVars, custodySyncVars, callVars, resultVars
<1>2. /\ LogHead' = LogHead /\ Complete' = Complete
      /\ LastIsTerminal' = LastIsTerminal
      /\ LastIs(payload[w])' = LastIs(payload[w])
      /\ \A n : History(n)' = History(n)
    BY <1>1 DEF LogHead, Complete, Whole, LastIsTerminal, RecordHash, LastIs, History
<1>3. Chained' /\ Acknowledged'
    BY <1>1, <1>2 DEF LogInv, Chained, Acknowledged, Whole, Terminated
<1>4. Frontier' /\ Synced'
    BY <1>1, <1>2, Basics DEF LogInv, Frontier, Synced, Whole, ProgressOf, Publishing
<1>5. Archive'
    BY <1>1, <1>2 DEF LogInv, Archive
<1>6. ProgressOf(w)'
    BY <1>1, <1>2, Basics DEF ProgressOf, Publishing, Archiving
<1>. QED  BY <1>3, <1>4, <1>5, <1>6

(* So does creating the event's frontier witness.                          *)
LEMMA WitnessEventKeeps ==
    ASSUME TypeOK, LogInv, NEW w \in Writers, ProgressOf(w), WitnessEvent(w)
    PROVE  /\ Chained' /\ Frontier' /\ Synced' /\ Archive' /\ Acknowledged'
           /\ ProgressOf(w)'
<1>. DEFINE r == [head |-> head[w], whole |-> FALSE]
<1>1. /\ UNCHANGED <<stage, events, terminal, seal, syncedEvents, syncedTerminal,
                     syncedWitnesses, syncedSeal,
                     acked, payload, head>>
      /\ witness' = Append(witness, r)
      /\ pc[w] = "witness_event" /\ pc' = [pc EXCEPT ![w] = "finish_witness"]
    BY DEF WitnessEvent, Goto, runVars, syncVars, custodySyncVars, callVars, resultVars
<1>2. /\ Len(witness) = Len(events) /\ syncedEvents = Len(events)
      /\ head[w] = LogHead /\ LastIs(payload[w])
    BY <1>1 DEF ProgressOf, Publishing
<1>3. r \in Witness
    BY Basics DEF Witness
<1>4. /\ Len(witness') = Len(events) + 1 /\ witness' # << >>
      /\ witness'[Len(witness')] = r
      /\ \A i \in 1..Len(witness) : witness'[i] = witness[i]
    BY <1>1, <1>2, <1>3, Basics
<1>5. /\ LogHead' = LogHead /\ LastIs(payload[w])' = LastIs(payload[w])
      /\ \A n : History(n)' = History(n)
    BY <1>1 DEF LogHead, RecordHash, LastIs, History
<1>6. /\ witness # << >> => Whole(witness[Len(witness)])
      /\ stage = Ready => Whole(witness[1]) /\ witness # << >>
      /\ \A i \in 1..Len(witness) : /\ witness[i].head = History(i - 1)
                                    /\ i < Len(witness) => Whole(witness[i])
    BY <1>2, Basics DEF LogInv, Frontier
<1>7. Chained'
    BY <1>1, <1>5 DEF LogInv, Chained
<1>8. Frontier'
  <2>1. ASSUME NEW i \in 1..Len(witness')
        PROVE  /\ witness'[i].head = History(i - 1)'
               /\ i < Len(witness') => Whole(witness'[i])
    <3>1. CASE i = Len(witness')
      BY <1>2, <1>4, <1>5, <3>1, Basics
    <3>2. CASE i \in 1..Len(witness)
      BY <1>2, <1>4, <1>5, <1>6, <3>2, Basics
    <3>. QED  BY <1>2, <1>4, <2>1, <3>1, <3>2, Basics
  <2>2. stage = Ready => Whole(witness'[1])
    BY <1>4, <1>6, Basics
  <2>. QED  BY <1>1, <1>2, <1>4, <2>1, <2>2, Basics DEF Frontier
<1>12. Synced'
    BY <1>1, <1>2, <1>4, Basics DEF LogInv, Synced, Whole
<1>9. Archive'
  <2>1. ~Complete
    BY <1>2, Basics DEF Complete
  <2>2. terminal = {} /\ seal = {} /\ ~syncedSeal
    BY <2>1 DEF LogInv, Archive
  <2>. QED  BY <1>1, <2>2 DEF Archive
<1>10. Acknowledged'
  <2>1. ASSUME NEW hash \in acked
        PROVE  /\ Len(hash) < Len(witness') /\ Whole(witness'[Len(hash) + 1])
               /\ Len(hash) <= Len(events) /\ History(Len(hash)) = hash
               /\ Terminated(hash) \/ Len(hash) + 1 \in syncedWitnesses
    <3>1. /\ Len(hash) < Len(witness) /\ Whole(witness[Len(hash) + 1])
          /\ Len(hash) <= Len(events) /\ History(Len(hash)) = hash
          /\ Terminated(hash) \/ Len(hash) + 1 \in syncedWitnesses
          /\ Len(hash) \in Nat
      BY DEF LogInv, Acknowledged, TypeOK, Hash
    <3>2. Len(hash) < Len(witness') /\ Whole(witness'[Len(hash) + 1])
      BY <1>2, <1>4, <3>1, Basics
    <3>. QED  BY <3>1, <3>2
  <2>. QED  BY <1>1, <1>5, <2>1 DEF Acknowledged, Terminated
<1>11. ProgressOf(w)'
  <2>1. ~Whole(witness'[Len(witness')])
    BY <1>4 DEF Whole
  <2>. QED  BY <1>1, <1>2, <1>4, <1>5, <2>1, Basics DEF ProgressOf, Publishing, Archiving
<1>. QED  BY <1>7, <1>8, <1>9, <1>10, <1>11, <1>12

(* So does filling it.                                                     *)
LEMMA FinishWitnessKeeps ==
    ASSUME TypeOK, LogInv, NEW w \in Writers, ProgressOf(w), FinishWitness(w)
    PROVE  /\ Chained' /\ Frontier' /\ Synced' /\ Archive' /\ Acknowledged'
           /\ ProgressOf(w)'
<1>. DEFINE r == [head |-> head[w], whole |-> TRUE]
<1>1. /\ UNCHANGED <<stage, events, terminal, seal, syncedEvents, syncedTerminal,
                     syncedWitnesses, syncedSeal,
                     acked, payload, head>>
      /\ witness' = [witness EXCEPT ![Len(witness)] = r]
      /\ pc[w] = "finish_witness" /\ pc' = [pc EXCEPT ![w] = "sync_witness"]
    BY DEF FinishWitness, Goto, runVars, syncVars, custodySyncVars, callVars, resultVars
<1>2. /\ Len(witness) = Len(events) + 1 /\ ~Whole(witness[Len(witness)])
      /\ head[w] = LogHead /\ LastIs(payload[w])
    BY <1>1 DEF ProgressOf
<1>3. r \in Witness
    BY Basics DEF Witness
<1>4. /\ Len(witness') = Len(witness) /\ witness' # << >>
      /\ \A i \in 1..Len(witness) :
            witness'[i] = IF i = Len(witness) THEN r ELSE witness[i]
    BY <1>1, <1>2, <1>3, Basics, ReplaceLast
<1>5. /\ LogHead' = LogHead /\ LastIs(payload[w])' = LastIs(payload[w])
      /\ \A n : History(n)' = History(n)
    BY <1>1 DEF LogHead, RecordHash, LastIs, History
<1>6. Len(witness) \in 1..Len(witness) /\ witness'[Len(witness)] = r /\ Whole(r)
  <2>1. Len(witness) \in 1..Len(witness)
    BY <1>2, Basics
  <2>2. r.whole
    OBVIOUS
  <2>. QED  BY <1>4, <2>1, <2>2 DEF Whole
<1>7. Chained'
    BY <1>1, <1>5 DEF LogInv, Chained
<1>8. Frontier'
  <2>1. ASSUME NEW i \in 1..Len(witness')
        PROVE  /\ witness'[i].head = History(i - 1)'
               /\ i < Len(witness') => Whole(witness'[i])
    <3>1. CASE i = Len(witness)
      BY <1>2, <1>4, <1>5, <1>6, <3>1, Basics
    <3>2. CASE i # Len(witness)
      BY <1>2, <1>4, <1>5, <3>2, Basics DEF LogInv, Frontier
    <3>. QED  BY <3>1, <3>2
  <2>2. stage = Ready => Whole(witness'[1])
    BY <1>2, <1>4, <1>6, Basics DEF LogInv, Frontier, Whole
  <2>3. Whole(witness'[Len(witness')])
    BY <1>4, <1>6
  <2>4. /\ syncedEvents <= Len(events) /\ Len(witness) <= syncedEvents + 1
        /\ stage = Ready => Len(events) <= Len(witness)
    BY DEF LogInv, Frontier
  <2>5. UNCHANGED <<stage, events, syncedEvents>>
    BY <1>1
  <2>. QED  BY <1>4, <2>1, <2>2, <2>3, <2>4, <2>5 DEF Frontier
<1>12. Synced'
  <2>1. ASSUME NEW i \in syncedWitnesses
        PROVE  i \in 1..Len(witness') /\ Whole(witness'[i])
    <3>1. i \in 1..Len(witness) /\ Whole(witness[i])
      BY DEF LogInv, Synced
    <3>. QED  BY <1>2, <1>4, <3>1
  <2>. QED  BY <1>1, <2>1 DEF Synced, Whole
<1>9. Archive'
  <2>1. ~Complete
    BY <1>2, Basics DEF Complete
  <2>2. terminal = {} /\ seal = {} /\ ~syncedSeal
    BY <2>1 DEF LogInv, Archive
  <2>. QED  BY <1>1, <2>2 DEF Archive
<1>10. Acknowledged'
  <2>1. ASSUME NEW hash \in acked
        PROVE  /\ Len(hash) < Len(witness') /\ Whole(witness'[Len(hash) + 1])
               /\ Len(hash) <= Len(events) /\ History(Len(hash)) = hash
               /\ Terminated(hash) \/ Len(hash) + 1 \in syncedWitnesses
    <3>1. /\ Len(hash) < Len(witness) /\ Whole(witness[Len(hash) + 1])
          /\ Len(hash) <= Len(events) /\ History(Len(hash)) = hash
          /\ Terminated(hash) \/ Len(hash) + 1 \in syncedWitnesses
          /\ Len(hash) \in Nat
      BY DEF LogInv, Acknowledged, TypeOK, Hash
    <3>2. Len(hash) < Len(witness') /\ Whole(witness'[Len(hash) + 1])
      BY <1>2, <1>4, <3>1, Basics
    <3>. QED  BY <3>1, <3>2
  <2>. QED  BY <1>1, <1>5, <2>1 DEF Acknowledged, Terminated
<1>11. ProgressOf(w)'
  <2>1. Complete' /\ pc'[w] = "sync_witness" /\ Sealing(w)' = Sealing(w)
    BY <1>1, <1>2, <1>4, <1>6, Basics DEF Complete, Sealing
  <2>2. terminal = {} /\ seal = {}
    BY <1>2 DEF LogInv, Archive, Complete
  <2>. QED  BY <1>1, <1>2, <1>5, <2>1, <2>2 DEF ProgressOf, Publishing, Archiving
<1>. QED  BY <1>7, <1>8, <1>9, <1>10, <1>11, <1>12

(* So does the witness's fsync.                                            *)
LEMMA SyncWitnessKeeps ==
    ASSUME TypeOK, LogInv, NEW w \in Writers, ProgressOf(w), SyncWitness(w)
    PROVE  /\ Chained' /\ Frontier' /\ Synced' /\ Archive' /\ Acknowledged'
           /\ ProgressOf(w)'
<1>. DEFINE l == IF Sealing(w) THEN "write_terminal" ELSE "return"
<1>1. /\ UNCHANGED <<stage, events, witness, terminal, seal, syncedEvents,
                     syncedTerminal, syncedSeal, acked, payload, head>>
      /\ syncedWitnesses' = syncedWitnesses \cup {Len(witness)}
      /\ pc[w] = "sync_witness" /\ pc' = [pc EXCEPT ![w] = l]
    BY DEF SyncWitness, Goto, runVars, registryVars, callVars, resultVars
<1>2. /\ LogHead' = LogHead /\ Complete' = Complete
      /\ LastIsTerminal' = LastIsTerminal
      /\ LastIs(payload[w])' = LastIs(payload[w])
      /\ \A n : History(n)' = History(n)
    BY <1>1 DEF LogHead, Complete, Whole, LastIsTerminal, RecordHash, LastIs, History
<1>3. /\ Complete /\ head[w] = LogHead /\ LastIs(payload[w])
      /\ terminal = {} /\ seal = {} /\ Len(witness) \in 1..Len(witness)
    BY <1>1, Basics DEF ProgressOf, Complete
<1>4. Chained' /\ Frontier' /\ Acknowledged'
    BY <1>1, <1>2 DEF LogInv, Chained, Frontier, Acknowledged, Whole, Terminated
<1>5. Archive' /\ Synced'
    BY <1>1, <1>2, <1>3 DEF LogInv, Archive, Synced, Whole, Complete
<1>6. ProgressOf(w)'
  <2>1. pc'[w] = l /\ Sealing(w)' = Sealing(w)
    BY <1>1, Basics DEF Sealing
  <2>. QED  BY <1>1, <1>2, <1>3, <2>1 DEF ProgressOf, Publishing, Archiving
<1>. QED  BY <1>4, <1>5, <1>6

(* So does publishing terminal.json.                                       *)
LEMMA LinkTerminalKeeps ==
    ASSUME TypeOK, LogInv, NEW w \in Writers, ProgressOf(w), LinkTerminal(w)
    PROVE  /\ Chained' /\ Frontier' /\ Synced' /\ Archive' /\ Acknowledged'
           /\ ProgressOf(w)'
<1>1. /\ UNCHANGED <<stage, events, witness, seal, syncedEvents, syncedTerminal,
                     syncedWitnesses, syncedSeal,
                     acked, payload, head>>
      /\ terminal' = {head[w]}
      /\ pc[w] = "link_terminal" /\ pc' = [pc EXCEPT ![w] = "sync_terminal"]
    BY DEF LinkTerminal, Goto, registryVars, syncVars, custodySyncVars, callVars, resultVars
<1>2. /\ LogHead' = LogHead /\ Complete' = Complete
      /\ LastIsTerminal' = LastIsTerminal
      /\ LastIs(payload[w])' = LastIs(payload[w])
      /\ \A n : History(n)' = History(n)
    BY <1>1 DEF LogHead, Complete, Whole, LastIsTerminal, RecordHash, LastIs, History
<1>3. /\ Complete /\ head[w] = LogHead /\ LastIs(payload[w]) /\ Sealing(w)
      /\ seal = {}
    BY <1>1 DEF ProgressOf, Archiving
<1>4. Chained' /\ Frontier' /\ Synced' /\ Acknowledged'
    BY <1>1, <1>2 DEF LogInv, Chained, Frontier, Synced, Acknowledged, Whole, Terminated
<1>5. Archive'
    BY <1>1, <1>2, <1>3 DEF LogInv, Archive, LastIs, LastIsTerminal, Sealing
<1>6. ProgressOf(w)'
    BY <1>1, <1>2, <1>3, Basics DEF ProgressOf, Publishing, Archiving, Sealing
<1>. QED  BY <1>4, <1>5, <1>6

(* So does the fsync of the Run's directory.                               *)
LEMMA SyncTerminalKeeps ==
    ASSUME TypeOK, LogInv, NEW w \in Writers, ProgressOf(w), SyncTerminal(w)
    PROVE  /\ Chained' /\ Frontier' /\ Synced' /\ Archive' /\ Acknowledged'
           /\ ProgressOf(w)'
<1>1. /\ UNCHANGED <<stage, events, witness, terminal, seal, syncedEvents,
                     syncedWitnesses, syncedSeal, acked, payload, head>>
      /\ syncedTerminal'
      /\ pc[w] = "sync_terminal" /\ pc' = [pc EXCEPT ![w] = "unlink_terminal"]
    BY DEF SyncTerminal, Goto, runVars, registryVars, custodySyncVars, callVars,
           resultVars
<1>2. /\ LogHead' = LogHead /\ Complete' = Complete
      /\ LastIsTerminal' = LastIsTerminal
      /\ LastIs(payload[w])' = LastIs(payload[w])
      /\ \A n : History(n)' = History(n)
    BY <1>1 DEF LogHead, Complete, Whole, LastIsTerminal, RecordHash, LastIs, History
<1>3. /\ Complete /\ head[w] = LogHead /\ LastIs(payload[w]) /\ Sealing(w)
      /\ seal = {} /\ terminal = {head[w]}
    BY <1>1 DEF ProgressOf, Archiving
<1>4. Chained' /\ Frontier' /\ Synced' /\ Acknowledged'
    BY <1>1, <1>2 DEF LogInv, Chained, Frontier, Synced, Acknowledged, Whole, Terminated
<1>5. Archive'
    BY <1>1, <1>2 DEF LogInv, Archive
<1>6. ProgressOf(w)'
    BY <1>1, <1>2, <1>3, Basics DEF ProgressOf, Publishing, Archiving, Sealing
<1>. QED  BY <1>4, <1>5, <1>6

(* So do creating, filling and fsyncing the seal witness.                  *)
LEMMA SealKeeps ==
    ASSUME TypeOK, LogInv, NEW w \in Writers, ProgressOf(w),
           WitnessSeal(w) \/ FinishSeal(w) \/ SyncSeal(w)
    PROVE  /\ Chained' /\ Frontier' /\ Synced' /\ Archive' /\ Acknowledged'
           /\ ProgressOf(w)'
<1>1. /\ UNCHANGED <<stage, events, witness, terminal, syncedEvents, syncedTerminal,
                     syncedWitnesses, acked, payload, head>>
      /\ \/ /\ pc[w] = "witness_seal" /\ pc' = [pc EXCEPT ![w] = "finish_seal"]
            /\ seal' = {[head |-> head[w], whole |-> FALSE]} /\ seal = {}
            /\ UNCHANGED syncedSeal
         \/ /\ pc[w] = "finish_seal" /\ pc' = [pc EXCEPT ![w] = "sync_seal"]
            /\ seal' = {[head |-> head[w], whole |-> TRUE]}
            /\ UNCHANGED syncedSeal
         \/ /\ pc[w] = "sync_seal" /\ pc' = [pc EXCEPT ![w] = "return"]
            /\ syncedSeal' = TRUE /\ UNCHANGED seal
            /\ seal = {[head |-> head[w], whole |-> TRUE]}
    BY DEF WitnessSeal, FinishSeal, SyncSeal, Goto, runVars, registryVars, syncVars,
           custodySyncVars, callVars, resultVars, ProgressOf
<1>2. /\ LogHead' = LogHead /\ Complete' = Complete
      /\ LastIsTerminal' = LastIsTerminal
      /\ LastIs(payload[w])' = LastIs(payload[w])
      /\ \A n : History(n)' = History(n)
    BY <1>1 DEF LogHead, Complete, Whole, LastIsTerminal, RecordHash, LastIs, History
<1>3. /\ Complete /\ head[w] = LogHead /\ LastIs(payload[w]) /\ Sealing(w)
      /\ terminal = {head[w]} /\ syncedTerminal
    BY <1>1 DEF ProgressOf, Archiving
<1>4. Chained' /\ Frontier' /\ Synced' /\ Acknowledged'
    BY <1>1, <1>2 DEF LogInv, Chained, Frontier, Synced, Acknowledged, Whole, Terminated
<1>5. Archive'
  <2>1. /\ terminal' # {} => terminal' = {LogHead'} /\ Complete' /\ LastIsTerminal'
        /\ terminal' = {LogHead'} /\ syncedTerminal'
    BY <1>1, <1>2, <1>3 DEF LogInv, Archive
  <2>2. \E b \in BOOLEAN : seal' = {[head |-> LogHead', whole |-> b]}
    BY <1>1, <1>2, <1>3
  <2>3. syncedSeal' => seal' = {[head |-> LogHead', whole |-> TRUE]}
    <3>1. CASE pc[w] = "sync_seal"
      BY <1>1, <1>2, <1>3, <3>1
    <3>2. CASE pc[w] # "sync_seal"
      <4>1. ~syncedSeal
        <5>1. seal # {[head |-> LogHead, whole |-> TRUE]}
          <6>1. \/ seal = {}
                \/ pc[w] = "finish_seal" /\ seal = {[head |-> head[w], whole |-> FALSE]}
            BY <1>1, <3>2 DEF ProgressOf
          <6>2. [head |-> head[w], whole |-> FALSE] # [head |-> LogHead, whole |-> TRUE]
            OBVIOUS
          <6>. QED  BY <6>1, <6>2
        <5>. QED  BY <5>1 DEF LogInv, Archive
      <4>. QED  BY <1>1, <3>2, <4>1
    <3>. QED  BY <3>1, <3>2
  <2>. QED  BY <2>1, <2>2, <2>3 DEF Archive
<1>6. ProgressOf(w)'
    BY <1>1, <1>2, <1>3, Basics DEF ProgressOf, Publishing, Archiving, Sealing
<1>. QED  BY <1>4, <1>5, <1>6

(* So does returning the record hash to the caller.                        *)
LEMMA ReturnKeeps ==
    ASSUME TypeOK, LogInv, NEW w \in Writers, ProgressOf(w), Return(w)
    PROVE  Chained' /\ Frontier' /\ Synced' /\ Archive' /\ Acknowledged'
<1>1. /\ UNCHANGED <<stage, events, witness, terminal, seal, syncedEvents,
                     syncedTerminal>>
      /\ acked' = acked \cup {head[w]} /\ pc[w] = "return"
    BY DEF Return, runVars, registryVars, syncVars, custodySyncVars
<1>2. /\ Complete /\ head[w] = LogHead /\ LastIs(payload[w])
      /\ IF Sealing(w) THEN syncedSeal ELSE Len(witness) \in syncedWitnesses
    BY <1>1 DEF ProgressOf
<1>3. \A n : History(n)' = History(n)
    BY <1>1 DEF History
<1>4. LogHead' = LogHead /\ Complete' = Complete /\ LastIsTerminal' = LastIsTerminal
    BY <1>1 DEF LogHead, Complete, Whole, LastIsTerminal, RecordHash
<1>5. Chained' /\ Frontier' /\ Synced' /\ Archive'
  <2>1. UNCHANGED <<syncedWitnesses, syncedSeal>>
    BY DEF Return, syncVars, custodySyncVars
  <2>. QED  BY <1>1, <1>3, <1>4, <2>1 DEF LogInv, Chained, Frontier, Synced, Archive, Whole
<1>6. Acknowledged'
  <2>1. /\ Len(LogHead) < Len(witness) /\ Whole(witness[Len(LogHead) + 1])
        /\ Len(LogHead) <= Len(events) /\ History(Len(LogHead)) = LogHead
        /\ Len(LogHead) + 1 = Len(witness)
    BY <1>2, Basics DEF Complete
  <2>2. Sealing(w) => Terminated(LogHead)
    <3>1. Len(events) \in 1..Len(events)
      BY <1>2, Basics DEF LastIs
    <3>2. LogHead[Len(LogHead)] = payload[w] /\ LogHead # << >>
      BY <1>2, <3>1, Basics, HistoryType DEF LastIs
    <3>. QED  BY <3>2 DEF Terminated, Sealing
  <2>3. Terminated(LogHead) \/ Len(LogHead) + 1 \in syncedWitnesses
    BY <1>2, <2>1, <2>2
  <2>4. ASSUME NEW hash \in acked \cup {LogHead}
        PROVE  /\ Len(hash) < Len(witness) /\ Whole(witness[Len(hash) + 1])
               /\ Len(hash) <= Len(events) /\ History(Len(hash)) = hash
               /\ Terminated(hash) \/ Len(hash) + 1 \in syncedWitnesses
    BY <2>1, <2>3, <2>4 DEF LogInv, Acknowledged
  <2>5. /\ acked' = acked \cup {LogHead}
        /\ UNCHANGED <<witness, events, syncedWitnesses>>
    BY <1>1, <1>2 DEF Return, syncVars, custodySyncVars
  <2>. QED  BY <1>3, <2>4, <2>5 DEF Acknowledged, Whole, Terminated
<1>. QED  BY <1>5, <1>6

(* So does each step of start_run.                                         *)
LEMMA StartKeeps ==
    ASSUME TypeOK, LogInv, StartStep
    PROVE  Chained' /\ Frontier' /\ Synced' /\ Archive' /\ Acknowledged'
<1>. DEFINE own == <<[head |-> Authority, whole |-> TRUE]>>
<1>1. /\ UNCHANGED <<events, terminal, seal, syncedEvents, syncedTerminal, syncedSeal,
                     acked>>
      /\ stage \in 0..(Ready - 1) /\ stage' = stage + 1
      /\ witness' = IF stage' = AuthorityWitnessed THEN own ELSE witness
      /\ syncedWitnesses' = IF stage' = Ready THEN {1} ELSE syncedWitnesses
      /\ events = << >> /\ terminal = {} /\ seal = {} /\ acked = {}
      /\ witness = IF stage = AuthorityWitnessed THEN own ELSE << >>
      /\ syncedWitnesses = {}
    BY DEF StartStep, runVars, syncVars, resultVars, LogInv, Dormant, TypeOK, Ready
<1>5. /\ Len(own) = 1 /\ own # << >> /\ own[1].head = Authority /\ own[1].whole
      /\ Len(<< >>) = 0
    OBVIOUS
<1>. HIDE DEF own
<1>2. Chained' /\ Acknowledged'
    BY <1>1 DEF Chained, Acknowledged
<1>3. Archive'
    BY <1>1 DEF LogInv, Archive
<1>4. /\ stage' = Ready => witness' = own
      /\ witness' \in {own, << >>}
      /\ syncedWitnesses' \subseteq {1} /\ (syncedWitnesses' # {} => stage' = Ready)
    BY <1>1 DEF Ready, AuthorityWitnessed
<1>6. History(0)' = Authority
    BY DEF History, Authority
<1>7. Frontier'
  <2>1. CASE witness' = own
    <3>0. Len(witness') = 1
      BY <1>5, <2>1
    <3>1. \A i \in 1..Len(witness') : i = 1
      BY <3>0
    <3>2. syncedEvents' = 0 /\ Len(events') = 0
      BY <1>1, Basics DEF LogInv, Frontier
    <3>. QED  BY <1>5, <1>6, <2>1, <3>0, <3>1, <3>2 DEF Frontier, Whole
  <2>2. CASE witness' = << >>
    BY <1>1, <1>4, <1>5, <2>2, Basics DEF LogInv, Frontier, Whole
  <2>. QED  BY <1>4, <2>1, <2>2
<1>8. Synced'
    BY <1>4, <1>5 DEF Synced, Whole
<1>. QED  BY <1>2, <1>3, <1>7, <1>8

(* The invariant of the log says all that has to last.                     *)
LEMMA LogLasts == LogInv => Lasting
<1>. SUFFICES ASSUME LogInv PROVE Lasting
    OBVIOUS
<1>1. syncedSeal => Sealed
  <2>1. syncedSeal => seal = {[head |-> LogHead, whole |-> TRUE]}
    BY DEF LogInv, Archive
  <2>2. [head |-> LogHead, whole |-> TRUE].whole
    OBVIOUS
  <2>. QED  BY <2>1, <2>2 DEF Sealed, Whole
<1>2. AcknowledgedKept
    BY DEF LogInv, Acknowledged, AcknowledgedKept
<1>. QED  BY <1>1, <1>2 DEF LogInv, Frontier, Archive, Lasting

(* A power loss takes no acknowledged event, no fsynced witness, and of a  *)
(* sealed Run nothing but what its witnesses' fsyncs had not covered.      *)
LEMMA PowerLossKeeps ==
    ASSUME TypeOK, LogInv, PowerLoss
    PROVE  /\ Lasting'
           /\ terminal # {} => UNCHANGED events
           /\ seal # {} => UNCHANGED terminal
           /\ syncedSeal => UNCHANGED seal
           /\ Len(witness') \in Nat /\ Len(witness') <= Len(witness)
           /\ \A i \in syncedWitnesses : i <= Len(witness') /\ witness'[i] = witness[i]
<1>1. PICK m \in syncedEvents..Len(events) : events' = SubSeq(events, 1, m)
    BY DEF PowerLoss
<1>2. /\ UNCHANGED <<stage, syncedEvents, syncedTerminal, syncedWitnesses, syncedSeal,
                     acked>>
      /\ TearWitnesses /\ TearSeal /\ powerLost'
      /\ \/ terminal' = terminal
         \/ ~syncedTerminal /\ terminal' = {}
    BY DEF PowerLoss, ProcessGone, syncVars, custodySyncVars, resultVars
<1>3. /\ m \in 0..Len(events) /\ m \in Nat /\ syncedEvents <= m
      /\ syncedEvents <= Len(events) /\ Len(witness) <= syncedEvents + 1
      /\ \A i \in 1..Len(witness) : witness[i].head = History(i - 1)
    BY Basics DEF LogInv, Frontier
<1>4. /\ Len(events') = m
      /\ \A i \in 1..m : events'[i] = events[i]
      /\ \A k \in 0..m : History(k)' = History(k)
      /\ m = Len(events) => events' = events
    BY <1>1, <1>3, Basics, Cut
<1>5. /\ Len(witness') \in Nat /\ Len(witness') <= Len(witness)
      /\ \A i \in syncedWitnesses : i \in 1..Len(witness')
      /\ \A i \in 1..Len(witness') :
            /\ witness'[i].head = witness[i].head
            /\ i \in syncedWitnesses => witness'[i] = witness[i]
    BY <1>2, Torn, Basics
<1>6. terminal # {} => UNCHANGED events
  <2>1. terminal # {} => Len(witness) = Len(events) + 1
    BY DEF LogInv, Archive, Complete
  <2>. QED  BY <1>3, <1>4, <2>1, Basics
<1>7. Chained'
  <2>1. ASSUME NEW i \in 1..m
        PROVE  /\ events'[i].previous = History(i - 1)'
               /\ i < m => events'[i].payload \notin Terminals
    <3>1. i \in 1..Len(events) /\ i - 1 \in 0..m /\ (i < m => i < Len(events))
      BY <1>3, Basics
    <3>. QED  BY <1>4, <3>1 DEF LogInv, Chained
  <2>. QED  BY <1>4, <2>1 DEF Chained
<1>8. /\ syncedEvents' <= Len(events')
      /\ Len(witness') <= syncedEvents' + 1
    BY <1>2, <1>3, <1>4, <1>5, Basics
<1>9. ASSUME NEW i \in 1..Len(witness')
      PROVE  witness'[i].head = History(i - 1)'
  <2>1. i \in 1..Len(witness) /\ i - 1 \in 0..m
    BY <1>3, <1>5, Basics
  <2>. QED  BY <1>3, <1>4, <1>5, <2>1
<1>10. Synced'
  <2>1. ASSUME NEW i \in syncedWitnesses
        PROVE  i \in 1..Len(witness') /\ Whole(witness'[i])
    BY <1>5 DEF LogInv, Synced
  <2>. QED  BY <1>2, <2>1 DEF Synced, Whole
<1>11. /\ seal # {} => UNCHANGED terminal
       /\ syncedSeal => UNCHANGED seal
    BY <1>2 DEF LogInv, Archive, TearSeal
<1>12. terminal # {} => LogHead' = LogHead /\ LastIsTerminal' = LastIsTerminal
    BY <1>6 DEF LogHead, RecordHash, LastIsTerminal
<1>13. terminal' # {} => terminal' = {LogHead'} /\ LastIsTerminal'
    BY <1>2, <1>12 DEF LogInv, Archive
<1>14. seal' # {} => /\ \E b \in BOOLEAN : seal' = {[head |-> LogHead', whole |-> b]}
                     /\ terminal' = {LogHead'}
  <2>1. SUFFICES ASSUME seal' # {}
                 PROVE  /\ \E b \in BOOLEAN : seal' = {[head |-> LogHead', whole |-> b]}
                        /\ terminal' = {LogHead'}
    OBVIOUS
  <2>2. /\ seal # {}
        /\ seal' = seal \/ seal' = {[head |-> record.head, whole |-> FALSE] : record \in seal}
    BY <1>2, <2>1 DEF TearSeal
  <2>3. terminal = {LogHead} /\ terminal' = terminal
    BY <1>11, <2>2 DEF LogInv, Archive
  <2>4. LogHead' = LogHead
    BY <1>12, <2>3
  <2>5. PICK b \in BOOLEAN : seal = {[head |-> LogHead, whole |-> b]}
    BY <2>2 DEF LogInv, Archive
  <2>6. [head |-> LogHead, whole |-> b].head = LogHead
    OBVIOUS
  <2>7. \/ seal' = {[head |-> LogHead, whole |-> b]}
        \/ seal' = {[head |-> LogHead, whole |-> FALSE]}
    BY <2>2, <2>5, <2>6
  <2>. QED  BY <2>3, <2>4, <2>7
<1>15. syncedSeal' => Sealed'
  <2>1. syncedSeal => seal' = {[head |-> LogHead, whole |-> TRUE]}
    BY <1>11 DEF LogInv, Archive
  <2>2. [head |-> LogHead, whole |-> TRUE].whole
    OBVIOUS
  <2>. QED  BY <1>2, <2>1, <2>2 DEF Sealed, Whole
<1>16. AcknowledgedKept'
  <2>1. ASSUME NEW hash \in acked
        PROVE  /\ Len(hash) <= Len(events') /\ History(Len(hash))' = hash
               /\ \/ Len(hash) < Len(witness') /\ Whole(witness'[Len(hash) + 1])
                  \/ Terminated(hash) /\ Len(hash) + 1 \notin syncedWitnesses
    <3>1. /\ Len(hash) < Len(witness) /\ Whole(witness[Len(hash) + 1])
          /\ History(Len(hash)) = hash /\ Len(hash) \in Nat
          /\ Terminated(hash) \/ Len(hash) + 1 \in syncedWitnesses
      BY DEF LogInv, Acknowledged, TypeOK, Hash
    <3>2. Len(hash) \in 0..m
      BY <1>3, <3>1, Basics
    <3>3. ASSUME Len(hash) + 1 \in syncedWitnesses
          PROVE  Len(hash) < Len(witness') /\ Whole(witness'[Len(hash) + 1])
      <4>1. Len(hash) + 1 \in 1..Len(witness')
        BY <1>5, <3>3
      <4>2. Len(hash) < Len(witness')
        BY <1>5, <3>1, <4>1
      <4>3. witness'[Len(hash) + 1] = witness[Len(hash) + 1]
        BY <1>5, <3>3, <4>1
      <4>. QED  BY <3>1, <4>2, <4>3
    <3>4. Len(hash) <= Len(events') /\ History(Len(hash))' = hash
      BY <1>3, <1>4, <3>1, <3>2
    <3>. QED  BY <3>1, <3>3, <3>4
  <2>. QED  BY <1>2, <2>1 DEF AcknowledgedKept, Whole, Terminated
<1>. QED  BY <1>5, <1>6, <1>7, <1>8, <1>9, <1>10, <1>11, <1>13, <1>14, <1>15, <1>16
          DEF Lasting

(* Once the machine is down only the auditor moves.                        *)
LEMMA StillStep ==
    ASSUME TypeOK, Stopped, powerLost, [Next]_vars
    PROVE  /\ UNCHANGED <<runVars, registryVars, syncVars, pc, payload, head,
                          resultVars, processVars>>
           /\ Auditing \/ UNCHANGED vars
<1>1. ~alive /\ \A w \in Writers : pc[w] = "dead"
    BY DEF Stopped
<1>2. ASSUME NEW w \in Writers, Call(w) \/ Proceed(w) \/ Fault(w)
      PROVE  FALSE
  <2>1. alive \/ pc[w] # "dead"
    BY <1>2 DEF Call, Proceed, Lock, Refuse, Recover, Publish, WriteEvent, LinkEvent,
                SyncEvent, UnlinkEvent, WitnessEvent, FinishWitness, SyncWitness,
                WriteTerminal, LinkTerminal, SyncTerminal, UnlinkTerminal, WitnessSeal,
                FinishSeal, SyncSeal, Return, Fault, Steps
  <2>. QED  BY <1>1, <2>1
<1>3. Auditing \/ UNCHANGED vars
    BY <1>1, <1>2 DEF Next, StartStep, Crash, PowerLoss
<1>. QED  BY <1>3 DEF Auditing, AuditOpen, AuditEvents, AuditTerminal, AuditCustody, vars,
              callVars

(* So what has to last does.                                               *)
LEMMA LastingStays ==
    ASSUME Lasting, UNCHANGED <<runVars, registryVars, syncVars, resultVars, processVars>>
    PROVE  Lasting'
<1>. USE DEF runVars, registryVars, syncVars, custodySyncVars, resultVars, processVars
<1>1. LogHead' = LogHead /\ LastIsTerminal' = LastIsTerminal /\ Sealed' = Sealed
    BY DEF LogHead, LastIsTerminal, RecordHash, Sealed, Whole
<1>2. \A n : History(n)' = History(n)
    BY DEF History
<1>3. Chained' /\ Synced'
    BY <1>2 DEF Lasting, Chained, Synced, Whole
<1>4. AcknowledgedKept'
    BY <1>2 DEF Lasting, AcknowledgedKept, Terminated, Whole
<1>. QED  BY <1>1, <1>2, <1>3, <1>4 DEF Lasting

(* Power is lost in one kind of step.                                      *)
LEMMA PowerStep == [Next]_vars => PowerLoss \/ UNCHANGED powerLost
<1>. USE DEF processVars
<1>1. ASSUME NEW w \in Writers, Call(w) \/ Proceed(w) \/ Fault(w)
      PROVE  UNCHANGED powerLost
    BY <1>1 DEF Call, Proceed, Lock, Refuse, Recover, Publish, WriteEvent, LinkEvent,
                SyncEvent, UnlinkEvent, WitnessEvent, FinishWitness, SyncWitness,
                WriteTerminal, LinkTerminal, SyncTerminal, UnlinkTerminal, WitnessSeal,
                FinishSeal, SyncSeal, Return, Fault
<1>2. ASSUME StartStep \/ Crash \/ Auditing \/ UNCHANGED vars
      PROVE  UNCHANGED powerLost
    BY <1>2 DEF StartStep, Crash, Auditing, AuditOpen, AuditEvents, AuditTerminal,
                AuditCustody, vars
<1>. QED  BY <1>1, <1>2 DEF Next

(* A machine that is down stays down.                                      *)
LEMMA StoppedStep ==
    ASSUME TypeOK, Stopped, [Next]_vars
    PROVE  Stopped'
<1>1. CASE powerLost
    BY <1>1, StillStep DEF Stopped, processVars
<1>2. CASE PowerLoss
    BY <1>2 DEF PowerLoss, ProcessGone, Stopped
<1>. QED  BY <1>1, <1>2, PowerStep DEF Stopped

-------------------------------------------------------------------------------
(* The invariant of the log *)

(* The invariant of the log holds of the empty directory.                  *)
LEMMA LogInit == Init => LogInv
<1>. SUFFICES ASSUME Init PROVE LogInv
    OBVIOUS
<1>1. /\ stage = 0 /\ events = << >> /\ witness = << >> /\ terminal = {} /\ seal = {}
      /\ acked = {} /\ syncedEvents = 0
      /\ syncedWitnesses = {} /\ syncedSeal = FALSE
      /\ \A w \in Writers : pc[w] \in {"idle", "dead"}
    BY DEF Init
<1>2. Dormant /\ Chained /\ Synced /\ Archive /\ Acknowledged
    BY <1>1 DEF Dormant, Chained, Synced, Archive, Acknowledged, AuthorityWitnessed
<1>3. Frontier
    BY <1>1 DEF Frontier, Ready
<1>. QED  BY <1>2, <1>3 DEF LogInv

(* Quiet steps of the holder of the flock.                                 *)
LEMMA QuietProgress ==
    ASSUME TypeOK, Exclusion, LogInv, Progress, NEW w \in Writers, Quiet(w)
    PROVE  Progress'
<1>. USE DEF Goto
<1>1. /\ UNCHANGED logVars
      /\ LogHead' = LogHead /\ Complete' = Complete /\ LastIsTerminal' = LastIsTerminal
      /\ \A p : LastIs(p)' = LastIs(p)
    BY QuietStep DEF logVars, LogHead, Complete, Whole, LastIsTerminal, RecordHash, LastIs
<1>2. CASE Call(w) \/ Lock(w) \/ Refuse(w) \/ Fault(w)
  <2>1. \E l \in {"wait", "check", "idle"} : pc' = [pc EXCEPT ![w] = l]
    BY <1>2 DEF Call, Lock, Refuse, Fault, Leave
  <2>2. \A v \in Writers \ {w} : /\ payload'[v] = payload[v] /\ head'[v] = head[v]
                                 /\ pc'[v] = pc[v]
    BY <1>2, Basics DEF Call, Lock, Refuse, Fault, Leave, callVars, TypeOK
  <2>3. ASSUME NEW v \in Writers \ {w}
        PROVE  ProgressOf(v)'
    BY <1>1, <2>2 DEF Progress, ProgressOf, logVars, Whole, Sealing
  <2>4. ProgressOf(w)'
    BY <2>1, Basics DEF ProgressOf, Publishing, Archiving
  <2>. QED  BY <2>3, <2>4 DEF Progress
<1>3. ASSUME Recover(w) \/ WriteEvent(w) \/ UnlinkEvent(w) \/ WriteTerminal(w)
                \/ UnlinkTerminal(w)
      PROVE  Progress'
  <2>1. pc[w] \in Holding /\ ProgressOf(w)
    BY <1>3 DEF Recover, WriteEvent, UnlinkEvent, WriteTerminal, UnlinkTerminal, Holding,
                Steps, Progress
  <2>2. \E l \in Labels : pc' = [pc EXCEPT ![w] = l] /\ ProgressOf(w)'
    <3>1. CASE Recover(w)
      <4>1. /\ pc' = [pc EXCEPT ![w] = "write_terminal"] /\ head'[w] = LogHead
            /\ payload' = payload /\ Writable /\ LastIs(payload[w]) /\ Sealing(w)
        BY <3>1, Basics DEF Recover, Recoverable, LastIsTerminal, LastIs
      <4>2. Complete /\ terminal = {} /\ seal = {}
        BY <4>1, Basics DEF Writable, FrontierReadable, Complete
      <4>. QED  BY <1>1, <4>1, <4>2, Basics DEF ProgressOf, Publishing, Archiving, Labels,
                                              Steps, logVars, Sealing
    <3>2. CASE WriteEvent(w)
      <4>1. /\ pc' = [pc EXCEPT ![w] = "link_event"] /\ payload' = payload
            /\ head'[w] = Append(LogHead, payload[w])
            /\ Writable /\ ~LastIsTerminal
        BY <3>2, Basics DEF WriteEvent
      <4>2. Complete
        BY <4>1, Basics DEF Writable, FrontierReadable, Complete
      <4>. QED  BY <1>1, <4>1, <4>2, Basics DEF ProgressOf, Publishing, Archiving, Labels,
                                              Steps, logVars
    <3>3. CASE UnlinkEvent(w)
      <4>1. /\ pc[w] = "unlink_event" /\ pc' = [pc EXCEPT ![w] = "witness_event"]
            /\ payload' = payload /\ head' = head
        BY <3>3 DEF UnlinkEvent, callVars
      <4>. QED  BY <1>1, <2>1, <4>1, Basics DEF ProgressOf, Publishing, Archiving, Labels,
                                              Steps, logVars
    <3>4. CASE WriteTerminal(w)
      <4>1. /\ pc[w] = "write_terminal" /\ pc' = [pc EXCEPT ![w] = "link_terminal"]
            /\ payload' = payload /\ head' = head
        BY <3>4 DEF WriteTerminal, callVars
      <4>. QED  BY <1>1, <2>1, <4>1, Basics DEF ProgressOf, Publishing, Archiving, Labels,
                                              Steps, logVars, Sealing
    <3>5. CASE UnlinkTerminal(w)
      <4>1. /\ pc[w] = "unlink_terminal" /\ pc' = [pc EXCEPT ![w] = "witness_seal"]
            /\ payload' = payload /\ head' = head
        BY <3>5 DEF UnlinkTerminal, callVars
      <4>. QED  BY <1>1, <2>1, <4>1, Basics DEF ProgressOf, Publishing, Archiving, Labels,
                                              Steps, logVars, Sealing
    <3>. QED  BY <1>3, <3>1, <3>2, <3>3, <3>4, <3>5
  <2>. QED  BY <2>1, <2>2, ProgressOfOne
<1>. QED  BY <1>2, <1>3 DEF Quiet

LoudInside(w) ==
    \/ LinkEvent(w) \/ SyncEvent(w) \/ WitnessEvent(w) \/ FinishWitness(w)
    \/ SyncWitness(w) \/ LinkTerminal(w) \/ SyncTerminal(w)
    \/ WitnessSeal(w) \/ FinishSeal(w) \/ SyncSeal(w)

(* Every step but a power loss keeps the invariant of the log and of the   *)
(* threads in it.                                                          *)
LEMMA LogStep ==
    ASSUME TypeOK, Exclusion, LogInv, Progress, [Next]_vars, ~powerLost'
    PROVE  LogInv' /\ Progress'
<1>. DEFINE Kept == Chained' /\ Frontier' /\ Synced' /\ Archive' /\ Acknowledged' /\ Progress'
<1>1. ASSUME StartStep
      PROVE  Kept
  <2>1. /\ UNCHANGED <<pc, payload, head>>
        /\ \A w \in Writers : pc[w] \notin Holding
    BY <1>1, TypeParts DEF StartStep, callVars, LogInv, Dormant, Ready, Holding, Steps,
                           RunType
  <2>2. Progress'
    BY <2>1 DEF Progress, ProgressOf, Holding, Steps, Publishing, Archiving
  <2>. QED  BY <1>1, <2>2, StartKeeps
<1>2. ASSUME NEW w \in Writers, Quiet(w)
      PROVE  Kept
    BY <1>2, QuietStep, Unchanged, QuietProgress DEF LogInv
<1>3. ASSUME NEW w \in Writers, LoudInside(w)
      PROVE  Kept
  <2>1. ProgressOf(w)
    BY DEF Progress
  <2>2. Chained' /\ Frontier' /\ Synced' /\ Archive' /\ Acknowledged' /\ ProgressOf(w)'
    BY <1>3, <2>1, LinkEventKeeps, SyncEventKeeps, WitnessEventKeeps, FinishWitnessKeeps,
       SyncWitnessKeeps, LinkTerminalKeeps, SyncTerminalKeeps, SealKeeps DEF LoudInside
  <2>3. pc[w] \in Holding /\ \E l \in Labels : pc' = [pc EXCEPT ![w] = l]
    BY <1>3 DEF LoudInside, LinkEvent, SyncEvent, WitnessEvent, FinishWitness, SyncWitness,
                LinkTerminal, SyncTerminal, WitnessSeal, FinishSeal, SyncSeal, Goto, Holding,
                Steps, Labels
  <2>. QED  BY <2>2, <2>3, ProgressOfOne
<1>4. ASSUME NEW w \in Writers, Return(w)
      PROVE  Kept
  <2>1. pc[w] \in Holding /\ pc' = [pc EXCEPT ![w] = "idle"]
    BY <1>4 DEF Return, Leave, Holding, Steps
  <2>2. \A v \in Writers : pc'[v] \notin Holding
    BY <2>1, Basics, Alone DEF Holding, Steps
  <2>3. Progress'
    BY <2>2 DEF Progress, ProgressOf, Holding, Steps, Publishing, Archiving
  <2>4. ProgressOf(w)
    BY DEF Progress
  <2>. QED  BY <1>4, <2>3, <2>4, ReturnKeeps
<1>5. ASSUME Crash
      PROVE  Kept
  <2>1. pc' = [w \in Writers |-> "dead"]
    BY <1>5 DEF Crash, ProcessGone
  <2>2. Progress'
    BY <2>1 DEF Progress, ProgressOf, Publishing, Archiving
  <2>. QED  BY <1>5, <2>2, QuietOthers, Unchanged DEF LogInv
<1>6. ASSUME Auditing \/ UNCHANGED vars
      PROVE  Kept
  <2>1. UNCHANGED logVars /\ UNCHANGED <<pc, payload, head>>
    BY <1>6, QuietOthers DEF Auditing, AuditOpen, AuditEvents, AuditTerminal,
                             AuditCustody, vars, callVars
  <2>2. Progress'
    BY <2>1 DEF Progress, ProgressOf, logVars, LogHead, Complete, LastIsTerminal, LastIs,
                Whole, Sealing, RecordHash
  <2>. QED  BY <2>1, <2>2, Unchanged DEF LogInv
<1>7. Kept
    BY <1>1, <1>2, <1>3, <1>4, <1>5, <1>6
    DEF Next, Proceed, Publish, Quiet, LoudInside, PowerLoss
<1>. QED  BY <1>7, DormantStep DEF LogInv

-------------------------------------------------------------------------------
(* What a seal and an audit rest on *)

(* What a finished seal witness says of everything else.                   *)
LEMMA SealedFacts ==
    ASSUME LogInv, Sealed
    PROVE  /\ seal = {[head |-> LogHead, whole |-> TRUE]}
           /\ terminal = {LogHead} /\ syncedTerminal /\ Complete /\ LastIsTerminal
           /\ stage = Ready
<1>1. PICK record \in seal : record.whole
    BY DEF Sealed, Whole
<1>2. PICK b \in BOOLEAN : seal = {[head |-> LogHead, whole |-> b]}
    BY <1>1 DEF LogInv, Archive
<1>3. b = TRUE
    BY <1>1, <1>2
<1>4. terminal = {LogHead} /\ syncedTerminal /\ Complete /\ LastIsTerminal
    BY <1>1 DEF LogInv, Archive
<1>. QED  BY <1>1, <1>2, <1>3, <1>4 DEF LogInv, Dormant

(* No step but a power loss changes a sealed Run.                          *)
LEMMA SealedStep ==
    ASSUME TypeOK, Exclusion, LogInv, Progress, Sealed, [Next]_vars, ~PowerLoss
    PROVE  UNCHANGED <<events, witness, terminal, seal>>
<1>. USE DEF runVars, registryVars
<1>1. CASE StartStep
    BY <1>1, SealedFacts, TypeParts DEF StartStep, Ready, RunType
<1>2. ASSUME NEW w \in Writers,
             Quiet(w) \/ Return(w) \/ SyncEvent(w) \/ SyncWitness(w) \/ SyncTerminal(w)
                \/ SyncSeal(w)
      PROVE  UNCHANGED <<events, witness, terminal, seal>>
    BY <1>2, QuietStep DEF logVars, Return, SyncEvent, SyncWitness, SyncTerminal, SyncSeal
<1>3. ASSUME NEW w \in Writers,
             LinkEvent(w) \/ WitnessEvent(w) \/ FinishWitness(w)
                \/ LinkTerminal(w) \/ WitnessSeal(w) \/ FinishSeal(w)
      PROVE  FALSE
  <2>1. ProgressOf(w)
    BY DEF Progress
  <2>2. CASE LinkEvent(w)
    BY <2>1, <2>2, SealedFacts DEF LinkEvent, ProgressOf
  <2>3. CASE WitnessEvent(w)
    BY <2>1, <2>3, SealedFacts, Basics DEF WitnessEvent, ProgressOf, Publishing, Complete
  <2>4. CASE FinishWitness(w)
    BY <2>1, <2>4, SealedFacts DEF FinishWitness, ProgressOf, Complete
  <2>5. CASE LinkTerminal(w) \/ WitnessSeal(w)
    BY <2>5, SealedFacts DEF LinkTerminal, WitnessSeal
  <2>6. CASE FinishSeal(w)
    <3>1. seal = {[head |-> head[w], whole |-> FALSE]}
      BY <2>1, <2>6 DEF FinishSeal, ProgressOf
    <3>. QED  BY <3>1 DEF Sealed, Whole
  <2>. QED  BY <1>3, <2>2, <2>3, <2>4, <2>5, <2>6
<1>4. CASE Crash \/ Auditing \/ UNCHANGED vars
    BY <1>4, QuietOthers DEF logVars
<1>. QED  BY <1>1, <1>2, <1>3, <1>4 DEF Next, Proceed, Publish, Quiet

(* Only a power loss can take a terminal.json away.                        *)
LEMMA TerminalStays ==
    ASSUME terminal # {}, TypeOK, [Next]_vars, ~PowerLoss
    PROVE  UNCHANGED terminal
<1>. USE DEF runVars
<1>1. ASSUME NEW w \in Writers, Quiet(w)
      PROVE  UNCHANGED terminal
    BY <1>1, QuietStep DEF logVars
<1>2. ASSUME NEW w \in Writers, LoudInside(w) \/ Return(w)
      PROVE  UNCHANGED terminal
    BY <1>2 DEF LoudInside, LinkEvent, SyncEvent, WitnessEvent, FinishWitness, SyncWitness,
                LinkTerminal, SyncTerminal, WitnessSeal, FinishSeal, SyncSeal, Return
<1>3. CASE StartStep \/ Crash \/ Auditing \/ UNCHANGED vars
    BY <1>3, QuietOthers DEF logVars, StartStep
<1>. QED  BY <1>1, <1>2, <1>3 DEF Next, Proceed, Publish, Quiet, LoudInside

(* A verdict stays true of the log, whatever runs beside the audit.        *)
LEMMA VerdictStep ==
    ASSUME TypeOK, Exclusion, Stopped, ~powerLost => LogInv /\ Progress, Verdict,
           [Next]_vars
    PROVE  Verdict'
<1>. DEFINE Trusted == audit.integrity /\ audit.custody
<1>0. AuditType
    BY TypeParts
<1>1. ASSUME Trusted, ~powerLost
      PROVE  /\ RunVerified(audit.seen) /\ Sealed
             /\ ~PowerLoss => UNCHANGED <<witness, terminal, seal>>
  <2>1. RunVerified(audit.seen) /\ seal = {[head |-> audit.seen, whole |-> TRUE]}
    BY <1>1 DEF Verdict, RunVerified
  <2>2. [head |-> audit.seen, whole |-> TRUE].whole
    OBVIOUS
  <2>3. Sealed
    BY <2>1, <2>2 DEF Sealed, Whole
  <2>. QED  BY <1>1, <2>1, <2>3, SealedStep
<1>2. CASE UNCHANGED auditVars /\ ~PowerLoss
  <2>1. UNCHANGED <<auditPc, audit>> /\ UNCHANGED powerLost
    BY <1>2, PowerStep DEF auditVars
  <2>2. auditPc = "custody" => terminal' = {audit.seen}
    BY <1>2, TerminalStays DEF Verdict
  <2>3. SealedSequence(audit.seen)' <=> SealedSequence(audit.seen)
    BY <2>1 DEF SealedSequence
  <2>4. Trusted => UNCHANGED <<witness, terminal, seal>>
    <3>1. powerLost => UNCHANGED <<witness, terminal, seal>>
      BY StillStep DEF runVars, registryVars
    <3>. QED  BY <1>1, <1>2, <3>1
  <2>5. ASSUME Trusted
        PROVE  (RunVerified(audit.seen) \/ (powerLost /\ ~Durable(audit.seen)))'
    <3>1. RunVerified(audit.seen)' <=> RunVerified(audit.seen)
      BY <2>1, <2>4, <2>5 DEF RunVerified, FrontierReadable, Whole
    <3>2. powerLost => (Durable(audit.seen)' <=> Durable(audit.seen))
      BY <2>1, StillStep DEF Durable, syncVars, custodySyncVars
    <3>. QED  BY <2>1, <2>5, <3>1, <3>2 DEF Verdict
  <2>. QED  BY <2>1, <2>2, <2>3, <2>4, <2>5 DEF Verdict
<1>3. ASSUME PowerLoss
      PROVE  Verdict'
  <2>1. /\ auditPc' = "idle" /\ audit' = IF auditPc = "idle" THEN audit ELSE NoAudit
        /\ ~powerLost /\ powerLost' /\ UNCHANGED <<syncedWitnesses, syncedSeal>>
    BY <1>3 DEF PowerLoss, syncVars, custodySyncVars
  <2>2. CASE auditPc = "idle" /\ Trusted
    <3>1. /\ audit' = audit /\ terminal = {audit.seen}
          /\ RunVerified(audit.seen) /\ SealedSequence(audit.seen)
      BY <1>1, <2>1, <2>2 DEF Verdict
    <3>2. /\ UNCHANGED terminal
          /\ syncedSeal => UNCHANGED seal
          /\ Len(witness') \in Nat /\ Len(witness') <= Len(witness)
          /\ \A i \in syncedWitnesses : i <= Len(witness') /\ witness'[i] = witness[i]
      BY <1>3, <2>1, <3>1, PowerLossKeeps DEF RunVerified
    <3>3. SealedSequence(audit.seen)'
      BY <3>1 DEF SealedSequence
    <3>4. ASSUME Durable(audit.seen)
          PROVE  RunVerified(audit.seen)'
      <4>. DEFINE l == Len(audit.seen)
      <4>1. /\ l \in Nat /\ Len(witness) = l + 1 /\ UNCHANGED seal
            /\ 1..(l + 1) \subseteq syncedWitnesses
            /\ Len(witness[l + 1].head) = l /\ Whole(witness[l + 1])
        BY <1>0, <3>1, <3>2, <3>4 DEF AuditType, Hash, RunVerified, FrontierReadable, Durable
      <4>2. l + 1 \in 1..(l + 1) /\ \A n \in 0..l : n + 1 \in 1..(l + 1)
        BY <4>1
      <4>3. \A n \in 0..l : witness'[n + 1] = witness[n + 1]
        BY <3>2, <4>1, <4>2
      <4>4. Len(witness') = l + 1
        BY <3>2, <4>1, <4>2
      <4>5. witness'[l + 1] = witness[l + 1]
        BY <3>2, <4>1, <4>2
      <4>6. witness' # << >>
        BY <4>1, <4>4
      <4>7. FrontierReadable'
        BY <4>1, <4>4, <4>5, <4>6 DEF FrontierReadable, Whole
      <4>. QED  BY <3>1, <4>1, <4>3, <4>4, <4>7 DEF RunVerified
    <3>5. Durable(audit.seen)' <=> Durable(audit.seen)
      BY <2>1, <3>1 DEF Durable
    <3>. QED  BY <2>1, <3>1, <3>2, <3>3, <3>4, <3>5 DEF Verdict
  <2>3. CASE auditPc = "idle" /\ ~Trusted
    BY <2>1, <2>3 DEF Verdict
  <2>4. CASE auditPc # "idle"
    BY <2>1, <2>4 DEF Verdict, NoAudit
  <2>. QED  BY <2>2, <2>3, <2>4
<1>5. CASE AuditOpen
    BY <1>5 DEF AuditOpen, Verdict
<1>6. CASE AuditEvents
    BY <1>0, <1>6 DEF AuditEvents, Verdict, AuditType
<1>7. CASE AuditTerminal
  <2>1. ~audit'.integrity /\ UNCHANGED terminal /\ auditPc' \in {"idle", "custody"}
    BY <1>0, <1>7 DEF AuditTerminal, Verdict, AuditType, runVars
  <2>2. auditPc' = "custody" => /\ terminal = {audit.seen} /\ SealedSequence(audit.seen)
                                /\ audit' = audit
    BY <1>7 DEF AuditTerminal
  <2>. QED  BY <2>1, <2>2 DEF Verdict, SealedSequence
<1>8. CASE AuditCustody
  <2>1. /\ auditPc' = "idle" /\ UNCHANGED <<terminal, witness, seal>>
        /\ audit'.seen = audit.seen
        /\ audit'.custody => RunVerified(audit.seen)
        /\ terminal = {audit.seen} /\ SealedSequence(audit.seen)
    BY <1>0, <1>8 DEF AuditCustody, Verdict, AuditType, runVars, registryVars
  <2>2. /\ SealedSequence(audit.seen)' <=> SealedSequence(audit.seen)
        /\ RunVerified(audit.seen)' <=> RunVerified(audit.seen)
    BY <2>1 DEF SealedSequence, RunVerified, FrontierReadable, Whole
  <2>. QED  BY <2>1, <2>2 DEF Verdict
<1>9. Auditing \/ PowerLoss \/ UNCHANGED auditVars
  <2>1. ASSUME NEW w \in Writers, Quiet(w) \/ LoudInside(w) \/ Return(w)
        PROVE  UNCHANGED auditVars
    BY <2>1, QuietStep DEF LoudInside, LinkEvent, SyncEvent, WitnessEvent,
                FinishWitness, SyncWitness, LinkTerminal, SyncTerminal, WitnessSeal,
                FinishSeal,
                SyncSeal, Return
  <2>. QED  BY <2>1 DEF Next, Proceed, Publish, Quiet, LoudInside, StartStep, Crash, vars
<1>. QED  BY <1>2, <1>3, <1>5, <1>6, <1>7, <1>8, <1>9 DEF Auditing

(* What has to last follows from the invariant of the log afterwards too.  *)
LEMMA LogLastsNext == LogInv' => Lasting'
    BY LogLasts, PTL

(* Every step keeps what has to last.                                      *)
LEMMA LastingStep ==
    ASSUME IInv, [Next]_vars
    PROVE  Lasting' /\ (~powerLost' => LogInv' /\ Progress')
<1>1. CASE powerLost
  <2>1. UNCHANGED <<runVars, registryVars, syncVars, resultVars, processVars>>
    BY <1>1, StillStep DEF IInv
  <2>2. Lasting' /\ powerLost'
    BY <1>1, <2>1, LastingStays DEF IInv, processVars
  <2>. QED  BY <2>2
<1>2. CASE ~powerLost /\ PowerLoss
    BY <1>2, PowerLossKeeps DEF IInv, PowerLoss
<1>3. CASE ~powerLost /\ ~PowerLoss
  <2>1. ~powerLost'
    BY <1>3, PowerStep
  <2>. QED  BY <1>3, <2>1, LogStep, LogLastsNext DEF IInv
<1>. QED  BY <1>1, <1>2, <1>3

(* The inductive invariant holds in every reachable state.                 *)
LEMMA Invariance == Spec => []IInv
<1>1. Init => IInv
  <2>1. Init => Progress
    BY DEF Init, Progress, ProgressOf, Publishing, Archiving
  <2>2. Init => Verdict /\ Stopped
    BY DEF Init, Verdict, NoAudit, Stopped
  <2>. QED  BY <2>1, <2>2, TypeInit, ExclusionInit, LogInit, LogLasts DEF IInv
<1>2. IInv /\ [Next]_vars => IInv'
    BY TypeStep, ExclusionStep, StoppedStep, LastingStep, VerdictStep DEF IInv
<1>. QED  BY <1>1, <1>2, PTL DEF Spec

-------------------------------------------------------------------------------
(* Theorems *)

(* Whoever publishes finds its name free (the flock is enough).            *)
THEOREM NamesAreFree == Spec => []PublicationNameIsFree
<1>1. IInv => PublicationNameIsFree
  <2>1. SUFFICES ASSUME IInv, NEW w \in Writers, pc[w] # "dead"
                 PROVE  /\ pc[w] = "link_event" => Len(events) = Sequence(w)
                        /\ pc[w] = "witness_event" => Len(witness) = Len(head[w])
                        /\ pc[w] = "link_terminal" => terminal = {}
                        /\ pc[w] = "witness_seal" => seal = {}
    BY DEF PublicationNameIsFree
  <2>2. ProgressOf(w) /\ TypeOK /\ LogInv
    BY <2>1 DEF IInv, Stopped, Progress
  <2>3. pc[w] = "link_event" => Len(events) = Sequence(w)
    <3>1. payload[w] \in Payloads
      BY <2>2, TypeParts DEF CallType
    <3>2. Len(Append(LogHead, payload[w])) = Len(LogHead) + 1
      BY <2>2, <3>1, Basics DEF Hash
    <3>. QED  BY <2>2, <3>2, Basics DEF ProgressOf, Sequence
  <2>4. pc[w] = "witness_event" => Len(witness) = Len(head[w])
    BY <2>2, Basics DEF ProgressOf, Publishing
  <2>5. /\ pc[w] = "link_terminal" => terminal = {}
        /\ pc[w] = "witness_seal" => seal = {}
    BY <2>2 DEF ProgressOf, Archiving
  <2>. QED  BY <2>3, <2>4, <2>5
<1>. QED  BY <1>1, Invariance, PTL

(* The hash chain of the event files is unbroken.                          *)
LEMMA ChainUnbroken ==
    ASSUME TypeOK, Chained
    PROVE  ChainHolds
<1>1. SUFFICES ASSUME NEW i \in 1..Len(events)
               PROVE  events[i].previous = IF i = 1 THEN Authority
                                           ELSE RecordHash(events[i - 1])
    BY DEF ChainHolds
<1>2. events[i].previous = History(i - 1)
    BY DEF Chained
<1>3. CASE i = 1
  <2>1. History(0) = Authority
    BY DEF History, Authority
  <2>. QED  BY <1>2, <1>3, <2>1
<1>4. CASE i # 1
  <2>1. i - 1 \in 1..Len(events)
    BY <1>4, ChainBasics
  <2>2. events[i - 1].previous = History((i - 1) - 1)
    BY <2>1 DEF Chained
  <2>3. History(i - 1) = Append(History((i - 1) - 1), events[i - 1].payload)
    BY <2>1, ChainBasics, HistorySnoc
  <2>. QED  BY <1>2, <1>4, <2>2, <2>3 DEF RecordHash
<1>. QED  BY <1>3, <1>4

(* The witnesses and the event files tell one story at every instant.      *)
THEOREM WitnessesFollowEvents == Spec => []WitnessedChain
<1>1. IInv => WitnessedChain
  <2>1. SUFFICES ASSUME IInv PROVE WitnessedChain
    OBVIOUS
  <2>2. TypeOK /\ Lasting /\ (~powerLost => Frontier)
    BY <2>1 DEF IInv, LogInv
  <2>3. ChainHolds /\ \A i \in syncedWitnesses : i <= Len(witness) /\ Whole(witness[i])
    BY <2>2, ChainUnbroken, ChainBasics DEF Lasting, Synced
  <2>4. Len(witness) <= Len(events) + 1
    BY <2>2, ChainBasics DEF Lasting
  <2>. QED  BY <2>2, <2>3, <2>4 DEF WitnessedChain, Lasting, Frontier
<1>. QED  BY <1>1, Invariance, PTL

(* What append() and seal() returned is never lost.                        *)
THEOREM Durability == Spec => []AcknowledgedKept
<1>1. IInv => AcknowledgedKept
    BY DEF IInv, Lasting
<1>. QED  BY <1>1, Invariance, PTL

(* A call returns the hash of its own record.                              *)
THEOREM OwnRecord == Spec => []ReturnsOwnRecord
<1>1. IInv => ReturnsOwnRecord
  <2>1. SUFFICES ASSUME IInv, NEW w \in Writers, pc[w] = "return"
                 PROVE  head[w] # Authority /\ head[w][Len(head[w])] = payload[w]
    BY DEF ReturnsOwnRecord
  <2>2. TypeOK /\ LogInv /\ Progress
    BY <2>1 DEF IInv, Stopped
  <2>3. head[w] = LogHead /\ LastIs(payload[w])
    BY <2>1, <2>2 DEF Progress, ProgressOf
  <2>4. Len(events) \in 1..Len(events)
    BY <2>2, <2>3, Basics DEF LastIs
  <2>5. LogHead[Len(events)] = events[Len(events)].payload
    BY <2>2, <2>4, Basics, HistoryType
  <2>. QED  BY <2>2, <2>3, <2>4, <2>5, Basics DEF LastIs, Authority
<1>. QED  BY <1>1, Invariance, PTL

(* A complete log whose last event is terminal has no other.               *)
LEMMA LogIsSealedSequence ==
    ASSUME TypeOK, Chained, LastIsTerminal
    PROVE  SealedSequence(LogHead)
<1>1. Len(events) \in 1..Len(events)
    BY ChainBasics DEF LastIsTerminal
<1>2. \A i \in 1..Len(events) : LogHead[i] = events[i].payload
    BY <1>1, ChainBasics, HistoryType
<1>3. \A i \in 1..Len(events) : events[i].payload \in Terminals <=> i = Len(events)
    BY <1>1, ChainBasics DEF Chained, LastIsTerminal
<1>4. LogHead # << >>
    BY <1>1, ChainBasics
<1>. QED  BY <1>2, <1>3, <1>4, ChainBasics DEF SealedSequence

(* A complete registry's frontier can be read.                             *)
LEMMA CompleteIsReadable ==
    ASSUME TypeOK, LogInv, Complete
    PROVE  FrontierReadable
<1>1. Len(witness) \in 1..Len(witness) /\ Len(witness) - 1 = Len(events)
    BY Basics DEF Complete
<1>2. witness[Len(witness)].head = History(Len(witness) - 1)
    BY <1>1 DEF LogInv, Frontier
<1>3. Len(witness[Len(witness)].head) = Len(witness) - 1
    BY <1>1, <1>2, Basics
<1>. QED  BY <1>1, <1>3, Basics DEF FrontierReadable, Complete

(* terminal.json and seal.json name the whole, terminated log.             *)
THEOREM TerminalIsWhole == Spec => []TerminalNamesTheLog
<1>1. IInv => TerminalNamesTheLog
  <2>1. SUFFICES ASSUME IInv PROVE TerminalNamesTheLog
    OBVIOUS
  <2>2. TypeOK /\ Lasting /\ (~powerLost => LogInv)
    BY <2>1 DEF IInv
  <2>3. ASSUME NEW hash \in terminal
        PROVE  /\ hash = LogHead /\ SealedSequence(hash)
               /\ ~powerLost => Len(witness) = Len(hash) + 1 /\ FrontierReadable
    <3>1. hash = LogHead /\ LastIsTerminal /\ Chained
      BY <2>2, <2>3 DEF Lasting
    <3>2. ~powerLost => Len(witness) = Len(hash) + 1 /\ FrontierReadable
      BY <2>2, <2>3, <3>1, CompleteIsReadable, Basics DEF LogInv, Archive, Complete
    <3>. QED  BY <2>2, <3>1, <3>2, LogIsSealedSequence
  <2>4. ASSUME NEW record \in seal
        PROVE  terminal = {record.head}
    BY <2>2 DEF Lasting
  <2>. QED  BY <2>3, <2>4 DEF TerminalNamesTheLog
<1>. QED  BY <1>1, Invariance, PTL

(* An audit that reports integrity and custody has read the final history, *)
(* and the witnesses it trusted stay once they are fsynced.                *)
THEOREM TrustedAudit == Spec => []TrustedAuditIsFinal
<1>1. IInv => TrustedAuditIsFinal
  <2>1. SUFFICES ASSUME IInv, audit.integrity, audit.custody
                 PROVE  /\ audit.seen = LogHead /\ SealedSequence(audit.seen)
                        /\ terminal = {audit.seen}
                        /\ RunVerified(audit.seen)
                               \/ (powerLost /\ ~Durable(audit.seen))
    BY DEF TrustedAuditIsFinal
  <2>2. /\ terminal = {audit.seen} /\ SealedSequence(audit.seen)
        /\ RunVerified(audit.seen) \/ (powerLost /\ ~Durable(audit.seen))
    BY <2>1 DEF IInv, Verdict
  <2>3. terminal = {LogHead}
    BY <2>1, <2>2 DEF IInv, Lasting
  <2>. QED  BY <2>2, <2>3
<1>. QED  BY <1>1, Invariance, PTL

(* Nothing changes the history of a sealed Run, and only a power loss its  *)
(* witnesses, where no fsync had covered them.                             *)
THEOREM Immutability == Spec => SealedRunIsImmutable
<1>1. ASSUME IInv, [Next]_vars, Sealed
      PROVE  /\ UNCHANGED <<events, terminal>>
             /\ powerLost' = powerLost => UNCHANGED <<witness, seal>>
             /\ syncedSeal => UNCHANGED seal
             /\ \A i \in syncedWitnesses :
                   i <= Len(witness') /\ witness'[i] = witness[i]
  <2>1. /\ TypeOK /\ Exclusion /\ Stopped /\ Lasting
        /\ ~powerLost => LogInv /\ Progress
    BY <1>1 DEF IInv
  <2>2. CASE powerLost \/ ~PowerLoss
    <3>1. UNCHANGED <<events, witness, terminal, seal>>
      <4>1. powerLost => UNCHANGED <<runVars, registryVars>>
        BY <1>1, <2>1, StillStep
      <4>2. ~powerLost => UNCHANGED <<events, witness, terminal, seal>>
        BY <1>1, <2>1, <2>2, SealedStep
      <4>. QED  BY <4>1, <4>2 DEF runVars, registryVars
    <3>2. \A i \in syncedWitnesses : i <= Len(witness)
      BY <2>1, ChainBasics DEF Lasting, Synced
    <3>. QED  BY <3>1, <3>2
  <2>3. CASE ~powerLost /\ PowerLoss
    <3>1. seal # {} /\ terminal # {}
      BY <1>1, <2>1, <2>3, SealedFacts
    <3>2. powerLost' # powerLost
      BY <2>3 DEF PowerLoss
    <3>. QED  BY <2>1, <2>3, <3>1, <3>2, PowerLossKeeps
  <2>. QED  BY <2>2, <2>3
<1>2. IInv /\ [Next]_vars =>
        [Sealed =>
           /\ UNCHANGED <<events, terminal>>
           /\ powerLost' = powerLost => UNCHANGED <<witness, seal>>
           /\ syncedSeal => UNCHANGED seal
           /\ \A i \in syncedWitnesses :
                 i <= Len(witness') /\ witness'[i] = witness[i]]_vars
    BY <1>1
<1>. QED  BY <1>2, Invariance, PTL DEF Spec, SealedRunIsImmutable

(* An event without its witness is never built upon.                       *)
THEOREM Orphans == Spec => OrphanIsNeverAdopted
<1>1. IInv /\ [Next]_vars =>
        [Orphaned /\ ~powerLost' =>
            UNCHANGED <<events, witness, terminal, seal>>]_vars
  <2>1. SUFFICES ASSUME IInv, [Next]_vars, Orphaned, ~powerLost'
                 PROVE  UNCHANGED <<events, witness, terminal, seal>>
    OBVIOUS
  <2>2. TypeOK /\ LogInv /\ Progress
    <3>1. ~powerLost
      BY <2>1, StillStep DEF IInv, processVars
    <3>. QED  BY <2>1, <3>1 DEF IInv
  <2>3. ~Complete
    BY <2>1, <2>2, CompleteIsReadable, Basics DEF Orphaned, Complete
  <2>4. ASSUME NEW w \in Writers
        PROVE  ~LoudInside(w)
    <3>1. ProgressOf(w)
      BY <2>2 DEF Progress
    <3>2. pc[w] \notin {"link_event", "sync_witness"} /\ pc[w] \notin Archiving
      BY <2>3, <3>1 DEF ProgressOf
    <3>. QED  BY <2>1, <3>2 DEF Orphaned, LoudInside, LinkEvent, SyncEvent, WitnessEvent,
                FinishWitness, SyncWitness, LinkTerminal, SyncTerminal, WitnessSeal,
                FinishSeal, SyncSeal, Archiving
  <2>5. ASSUME NEW w \in Writers, Quiet(w) \/ Return(w)
        PROVE  UNCHANGED <<events, witness, terminal, seal>>
    BY <2>5, QuietStep DEF logVars, Return, runVars, registryVars
  <2>6. ~StartStep
    BY <2>1 DEF Orphaned, StartStep, Ready
  <2>7. ~PowerLoss
    BY <2>1 DEF PowerLoss
  <2>8. CASE Crash \/ Auditing \/ UNCHANGED vars
    BY <2>8, QuietOthers DEF logVars
  <2>. QED  BY <2>1, <2>4, <2>5, <2>6, <2>7, <2>8 DEF Next, Proceed, Publish, Quiet,
                                                       LoudInside
<1>. QED  BY <1>1, Invariance, PTL DEF Spec, OrphanIsNeverAdopted

-------------------------------------------------------------------------------
(* The protocol implements the abstract log *)

(* The witnessed log is the history up to the newest finished witness.     *)
WitnessedLogIsHistory ==
    WitnessedLog = IF witness = << >> THEN << >>
                   ELSE IF Whole(witness[Len(witness)]) THEN History(Len(witness) - 1)
                   ELSE History(Len(witness) - 2)

(* How to recognise the log the whole witnesses name.                      *)
LEMMA ReadWitnessedLog == TypeOK /\ LogInv => WitnessedLogIsHistory
<1>. SUFFICES ASSUME TypeOK, LogInv PROVE WitnessedLogIsHistory
    OBVIOUS
<1>. DEFINE last == CHOOSE i \in WholeWitnesses : \A j \in WholeWitnesses : j <= i
<1>1. CASE witness = << >>
    BY <1>1 DEF WitnessedLog, WholeWitnesses, WitnessedLogIsHistory
<1>2. ASSUME witness # << >>,
             NEW k \in 1..Len(witness), Whole(witness[k]),
             k = IF Whole(witness[Len(witness)]) THEN Len(witness) ELSE Len(witness) - 1
      PROVE  WitnessedLog = History(k - 1)
  <2>1. k \in WholeWitnesses /\ \A j \in WholeWitnesses : j <= k
    BY <1>2, Basics DEF WholeWitnesses
  <2>2. \A i \in WholeWitnesses : i \in Nat
    BY Basics DEF WholeWitnesses
  <2>3. last \in WholeWitnesses /\ \A j \in WholeWitnesses : j <= last
    BY <2>1
  <2>. HIDE DEF last
  <2>4. last = k
    <3>1. last \in Nat /\ k \in Nat /\ last <= k /\ k <= last
      BY <2>1, <2>2, <2>3
    <3>. QED  BY <3>1
  <2>5. witness[k].head = History(k - 1)
    BY <1>2 DEF LogInv, Frontier
  <2>. QED  BY <2>1, <2>4, <2>5 DEF WitnessedLog, last
<1>. HIDE DEF last
<1>3. ASSUME witness # << >>
      PROVE  /\ Len(witness) \in 1..Len(witness)
             /\ ~Whole(witness[Len(witness)]) =>
                   /\ Len(witness) - 1 \in 1..Len(witness)
                   /\ Whole(witness[Len(witness) - 1])
  <2>1. Len(witness) \in 1..Len(witness)
    BY <1>3, Basics
  <2>2. CASE stage = Ready
    BY <2>1, <2>2, Basics DEF LogInv, Frontier
  <2>3. CASE stage # Ready
    <3>1. witness = <<[head |-> Authority, whole |-> TRUE]>>
      BY <1>3, <2>3 DEF LogInv, Dormant
    <3>2. Len(witness) = 1 /\ Whole(witness[1])
      BY <3>1 DEF Whole
    <3>. QED  BY <2>1, <3>2
  <2>. QED  BY <2>2, <2>3
<1>4. CASE witness # << >> /\ Whole(witness[Len(witness)])
    BY <1>2, <1>3, <1>4 DEF WitnessedLogIsHistory
<1>5. CASE witness # << >> /\ ~Whole(witness[Len(witness)])
  <2>1. WitnessedLog = History((Len(witness) - 1) - 1)
    BY <1>2, <1>3, <1>5
  <2>2. (Len(witness) - 1) - 1 = Len(witness) - 2
    BY Basics
  <2>. QED  BY <1>5, <2>1, <2>2 DEF WitnessedLogIsHistory
<1>. QED  BY <1>1, <1>4, <1>5

(* The same of the next state.                                             *)
LEMMA ReadWitnessedLogNext == TypeOK' /\ LogInv' => WitnessedLogIsHistory'
BY ReadWitnessedLog, PTL

(* A nonempty set of positions has a first one and a last one.             *)
LEMMA LeastPosition ==
    ASSUME NEW T, T \subseteq Nat, T # {}
    PROVE  \E x \in T : \A y \in T : ~(y < x)
<1>1. PICK x \in T : \A y \in T : ~(<<y, x>> \in OpToRel(<, Nat))
    BY NatLessThanWellFounded, WFMin
<1>. QED  BY <1>1 DEF OpToRel

LEMMA LastPosition ==
    ASSUME NEW n \in Nat, NEW S \in SUBSET (1..n), S # {}
    PROVE  \E k \in S : \A j \in S : j <= k
<1>. DEFINE T == {m \in 0..n : n - m \in S}
<1>1. \A j \in S : j \in 1..n /\ n - j \in 0..n /\ n - (n - j) = j
    OBVIOUS
<1>2. T \subseteq Nat /\ T # {}
  <2>1. PICK j \in S : TRUE
    OBVIOUS
  <2>2. n - j \in T
    BY <1>1, <2>1
  <2>3. T \subseteq Nat
    OBVIOUS
  <2>. QED  BY <2>2, <2>3
<1>. HIDE DEF T
<1>3. PICK x \in T : \A y \in T : ~(y < x)
    BY <1>2, LeastPosition
<1>4. \A y \in T : ~(y < x)
    BY <1>3
<1>5. x \in 0..n /\ n - x \in S
    BY DEF T
<1>6. ASSUME NEW j \in S
      PROVE  j <= n - x
  <2>1. n - j \in T /\ j \in 1..n
    BY <1>1 DEF T
  <2>2. ~(n - j < x)
    BY <1>4, <2>1
  <2>. QED  BY <1>5, <2>1, <2>2
<1>. QED  BY <1>5, <1>6

(* The last whole witness names the witnessed log, the last fsynced one    *)
(* what is kept of it.                                                     *)
WholeIsLast ==
    /\ WholeWitnesses = {} => WitnessedLog = << >>
    /\ \A k \in WholeWitnesses :
          (\A j \in WholeWitnesses : j <= k) => WitnessedLog = witness[k].head
SyncedIsLast ==
    /\ syncedWitnesses = {} => KeptLength = 0
    /\ \A k \in syncedWitnesses :
          (\A j \in syncedWitnesses : j <= k) => KeptLength = k - 1

LEMMA ReadLast == TypeOK => WholeIsLast /\ SyncedIsLast
<1>. SUFFICES ASSUME TypeOK PROVE WholeIsLast /\ SyncedIsLast
    OBVIOUS
<1>1. WholeWitnesses \subseteq Nat /\ syncedWitnesses \subseteq Nat
    BY TypeParts DEF WholeWitnesses, SyncType, RegistryType
<1>2. ASSUME NEW S \in SUBSET Nat, NEW k \in S, \A j \in S : j <= k
      PROVE  (CHOOSE i \in S : \A j \in S : j <= i) = k
  <2>. DEFINE last == CHOOSE i \in S : \A j \in S : j <= i
  <2>1. last \in S /\ \A j \in S : j <= last
    BY <1>2
  <2>. HIDE DEF last
  <2>2. last <= k /\ k <= last /\ last \in Nat /\ k \in Nat
    BY <1>2, <2>1
  <2>3. last = k
    BY <2>2
  <2>. QED  BY <2>3 DEF last
<1>3. WholeIsLast
    BY <1>1, <1>2 DEF WholeIsLast, WitnessedLog
<1>4. SyncedIsLast
    BY <1>1, <1>2 DEF SyncedIsLast, KeptLength
<1>. QED  BY <1>3, <1>4

(* The same of the next state.                                             *)
LEMMA ReadLastNext == TypeOK' => WholeIsLast' /\ SyncedIsLast'
BY ReadLast, PTL

(* A step that changes no witness and fsyncs none changes nothing of the   *)
(* abstract log.                                                           *)
LEMMA SameWitnessedLog ==
    ASSUME UNCHANGED witness
    PROVE  UNCHANGED WitnessedLog
BY DEF WitnessedLog, WholeWitnesses, Whole

LEMMA SameLog ==
    ASSUME UNCHANGED <<witness, seal, custodySyncVars, powerLost>>
    PROVE  UNCHANGED Log!logVars
BY SameWitnessedLog DEF Log!logVars, Sealed, Whole, KeptLength, custodySyncVars

(* The witnessed log is a history.                                         *)
LEMMA WitnessedLogType ==
    ASSUME TypeOK, LogInv
    PROVE  Len(WitnessedLog) \in Nat /\ SubSeq(WitnessedLog, 1, 0) = << >>
<1>1. Len(witness) \in Nat
    BY Basics
<1>2. CASE WholeWitnesses = {}
    BY <1>2, ReadLast DEF WholeIsLast
<1>3. CASE WholeWitnesses # {}
  <2>1. PICK q \in WholeWitnesses : \A j \in WholeWitnesses : j <= q
    BY <1>1, <1>3, LastPosition DEF WholeWitnesses
  <2>2. q \in 1..Len(witness) /\ witness[q] \in Witness
    BY Basics DEF WholeWitnesses
  <2>3. WitnessedLog = witness[q].head /\ witness[q].head \in Seq(Payloads)
    BY <2>1, <2>2, ReadLast DEF WholeIsLast, Witness, Hash
  <2>. QED  BY <2>3
<1>. QED  BY <1>2, <1>3

(* A power loss takes the witnessed log back, but not behind what is kept. *)
LEMMA PowerLossLoses ==
    ASSUME TypeOK, LogInv, Lasting', TypeOK', PowerLoss
    PROVE  Log!Lose
<1>1. /\ ~powerLost /\ powerLost' /\ UNCHANGED <<syncedWitnesses, syncedSeal>>
      /\ TearWitnesses /\ TearSeal
    BY DEF PowerLoss, syncVars, custodySyncVars
<1>2. UNCHANGED <<KeptLength, syncedSeal>> /\ powerLost' = TRUE /\ powerLost = FALSE
    BY <1>1, TypeParts DEF KeptLength, ProcessType, PowerLoss
<1>3. Sealed' = Sealed \/ (~syncedSeal /\ Sealed' = FALSE)
  <2>1. CASE syncedSeal
    BY <1>1, <2>1 DEF TearSeal, Sealed, Whole
  <2>2. CASE ~syncedSeal
    <3>1. \/ seal' = seal \/ seal' = {}
          \/ seal' = {[head |-> record.head, whole |-> FALSE] : record \in seal}
      BY <1>1, <2>2 DEF TearSeal
    <3>2. seal' = seal => Sealed' = Sealed
      BY DEF Sealed, Whole
    <3>3. seal' # seal => ~Sealed'
      <4>1. \A h : [head |-> h, whole |-> FALSE].whole = FALSE
        OBVIOUS
      <4>. QED  BY <3>1, <4>1 DEF Sealed, Whole
    <3>4. CASE seal' = seal
      BY <3>2, <3>4
    <3>5. CASE seal' # seal
      <4>1. Sealed' = FALSE
        BY <3>3, <3>5 DEF Sealed
      <4>. QED  BY <2>2, <4>1
    <3>. QED  BY <3>4, <3>5
  <2>. QED  BY <2>1, <2>2
<1>4. /\ Len(witness') \in Nat /\ Len(witness') <= Len(witness)
      /\ Len(witness) \in Nat
      /\ WholeWitnesses' \subseteq WholeWitnesses /\ WholeWitnesses' \subseteq 1..Len(witness')
      /\ syncedWitnesses \subseteq WholeWitnesses'
      /\ \A i \in 1..Len(witness') : witness'[i].head = witness[i].head
  <2>1. /\ Len(witness') \in Nat /\ Len(witness') <= Len(witness) /\ Len(witness) \in Nat
        /\ \A i \in 1..Len(witness') : /\ witness'[i].head = witness[i].head
                                       /\ Whole(witness'[i]) => Whole(witness[i])
    BY <1>1, Torn, Basics
  <2>2. \A i \in syncedWitnesses : i \in 1..Len(witness') /\ Whole(witness'[i])
    BY <1>1 DEF Lasting, Synced, Whole
  <2>. QED  BY <2>1, <2>2 DEF WholeWitnesses, Whole
<1>5. \E n \in KeptLength..Len(WitnessedLog) : WitnessedLog' = SubSeq(WitnessedLog, 1, n)
  <2>1. CASE WholeWitnesses' = {}
    <3>1. WitnessedLog' = << >> /\ KeptLength = 0
      BY <1>4, <2>1, ReadLast, ReadLastNext DEF WholeIsLast, SyncedIsLast
    <3>2. Len(WitnessedLog) \in Nat /\ SubSeq(WitnessedLog, 1, 0) = << >>
      BY WitnessedLogType
    <3>. QED  BY <3>1, <3>2
  <2>2. CASE WholeWitnesses' # {}
    <3>1. PICK k \in WholeWitnesses' : \A j \in WholeWitnesses' : j <= k
      BY <1>4, <2>2, LastPosition
    <3>2. PICK q \in WholeWitnesses : \A j \in WholeWitnesses : j <= q
      BY <1>4, <2>2, LastPosition DEF WholeWitnesses
    <3>3. /\ k \in 1..Len(witness') /\ k \in 1..Len(witness) /\ k <= q
          /\ q \in 1..Len(witness)
      BY <1>4, <3>1, <3>2 DEF WholeWitnesses
    <3>4. WitnessedLog' = witness'[k].head /\ WitnessedLog = witness[q].head
      BY <3>1, <3>2, ReadLast, ReadLastNext DEF WholeIsLast
    <3>5. WitnessedLog' = History(k - 1) /\ WitnessedLog = History(q - 1)
      BY <1>4, <3>3, <3>4 DEF LogInv, Frontier
    <3>6. q - 1 \in 0..Len(events) /\ k - 1 \in 0..(q - 1)
      BY <1>4, <3>3, Basics DEF LogInv, Frontier
    <3>7. /\ Len(WitnessedLog) = q - 1
          /\ WitnessedLog' = SubSeq(WitnessedLog, 1, k - 1)
      BY <3>5, <3>6, Basics, HistoryType, HistoryPrefix
    <3>8. KeptLength \in Nat /\ KeptLength <= k - 1
      <4>1. CASE syncedWitnesses = {}
        BY <3>6, <4>1, ReadLast DEF SyncedIsLast
      <4>2. CASE syncedWitnesses # {}
        <5>1. PICK i \in syncedWitnesses : \A j \in syncedWitnesses : j <= i
          BY <1>4, <4>2, LastPosition
        <5>2. KeptLength = i - 1
          BY <5>1, ReadLast DEF SyncedIsLast
        <5>3. i \in WholeWitnesses' /\ i \in 1..Len(witness') /\ i <= k
          BY <1>4, <3>1, <5>1
        <5>. QED  BY <1>4, <3>3, <5>2, <5>3
      <4>. QED  BY <4>1, <4>2
    <3>. QED  BY <3>6, <3>7, <3>8
  <2>. QED  BY <2>1, <2>2
<1>. QED  BY <1>2, <1>3, <1>5 DEF Log!Lose

(* Every step is one of the abstract log, or stutters.                     *)
LEMMA RefinementStep ==
    ASSUME IInv, IInv', [Next]_vars
    PROVE  [Log!LogNext]_(Log!logVars)
<1>. USE DEF runVars, registryVars, syncVars, custodySyncVars
<1>10. CASE powerLost
  <2>1. UNCHANGED <<registryVars, syncVars, processVars>>
    BY <1>10, StillStep DEF IInv
  <2>. QED  BY <2>1, SameLog DEF processVars
<1>11. CASE ~powerLost /\ PowerLoss
    BY <1>11, PowerLossLoses DEF IInv, Log!LogNext
<1>. SUFFICES ASSUME ~powerLost, ~PowerLoss
              PROVE  [Log!LogNext]_(Log!logVars)
    BY <1>10, <1>11
<1>0. /\ TypeOK /\ LogInv /\ Progress /\ TypeOK' /\ LogInv'
      /\ powerLost' = powerLost
    BY PowerStep DEF IInv
<1>1. CASE UNCHANGED <<witness, seal, custodySyncVars>>
    BY <1>0, <1>1, SameLog
<1>2. CASE StartStep
  <2>1. /\ witness = IF stage = AuthorityWitnessed
                     THEN <<[head |-> Authority, whole |-> TRUE]>> ELSE << >>
        /\ witness' = IF stage' = AuthorityWitnessed
                      THEN <<[head |-> Authority, whole |-> TRUE]>> ELSE witness
        /\ syncedWitnesses = {} /\ syncedWitnesses' \in {{}, {1}}
        /\ UNCHANGED <<seal, syncedSeal>>
    BY <1>0, <1>2, TypeParts DEF StartStep, LogInv, Dormant, Ready, RunType
  <2>2. /\ [head |-> Authority, whole |-> TRUE].head = << >>
        /\ Len(<<[head |-> Authority, whole |-> TRUE]>>) = 1
        /\ <<[head |-> Authority, whole |-> TRUE]>>[1] = [head |-> Authority, whole |-> TRUE]
        /\ Len(<< >>) = 0
    BY DEF Authority
  <2>3. \A w : (w = << >> \/ w = <<[head |-> Authority, whole |-> TRUE]>>) =>
            \A k \in 1..Len(w) : k = 1 /\ w[k].head = << >>
    BY <2>2
  <2>4. WitnessedLog = << >> /\ WitnessedLog' = << >>
    <3>1. \A k \in WholeWitnesses : k = 1 /\ witness[k].head = << >>
      BY <2>1, <2>3 DEF WholeWitnesses
    <3>2. \A k \in WholeWitnesses' : k = 1 /\ witness'[k].head = << >>
      BY <2>1, <2>3 DEF WholeWitnesses
    <3>. QED  BY <1>0, <3>1, <3>2, ReadLast, ReadLastNext DEF WholeIsLast
  <2>5. KeptLength = 0 /\ KeptLength' = 0
    BY <1>0, <2>1, ReadLast, ReadLastNext DEF SyncedIsLast
  <2>. QED  BY <1>0, <2>1, <2>4, <2>5 DEF Log!logVars, Sealed, Whole
<1>4. ASSUME NEW w \in Writers, WitnessEvent(w)
      PROVE  UNCHANGED Log!logVars
  <2>1. /\ witness' = Append(witness, [head |-> head[w], whole |-> FALSE])
        /\ Len(witness) = Len(events) /\ LastIs(payload[w])
        /\ UNCHANGED <<seal, events, syncedWitnesses, syncedSeal>>
    BY <1>0, <1>4 DEF WitnessEvent, Progress, ProgressOf, Publishing
  <2>2. [head |-> head[w], whole |-> FALSE] \in Witness
    BY <1>0, Basics DEF Witness
  <2>3. /\ Len(witness') = Len(witness) + 1 /\ witness' # << >>
        /\ ~Whole(witness'[Len(witness')])
        /\ Len(witness) >= 1 /\ Len(witness) \in Nat
    BY <1>0, <2>1, <2>2, Basics DEF LastIs, Whole
  <2>4. Whole(witness[Len(witness)]) /\ witness # << >>
    BY <1>0, <2>1, <2>3, Basics DEF LogInv, Frontier
  <2>5. WitnessedLog = History(Len(witness) - 1)
    BY <1>0, <2>4, ReadWitnessedLog DEF WitnessedLogIsHistory
  <2>6. WitnessedLog' = History(Len(witness) - 2)'
    BY <1>0, <2>3, ReadWitnessedLogNext DEF WitnessedLogIsHistory
  <2>7. History(Len(witness) - 2)' = History(Len(witness) - 1)
    BY <2>1, <2>3 DEF History
  <2>. QED  BY <1>0, <2>1, <2>5, <2>6, <2>7 DEF Log!logVars, Sealed, Whole, KeptLength
<1>5. ASSUME NEW w \in Writers, FinishWitness(w)
      PROVE  Log!Grow
  <2>1. /\ witness' = [witness EXCEPT ![Len(witness)] = [head |-> head[w], whole |-> TRUE]]
        /\ Len(witness) = Len(events) + 1 /\ LastIs(payload[w])
        /\ ~Whole(witness[Len(witness)])
        /\ UNCHANGED <<seal, events, syncedWitnesses, syncedSeal>>
    BY <1>0, <1>5 DEF FinishWitness, Progress, ProgressOf
  <2>2. [head |-> head[w], whole |-> TRUE] \in Witness
    BY <1>0, Basics DEF Witness
  <2>3. /\ Len(witness') = Len(witness) /\ Len(events) >= 1 /\ Len(events) \in Nat
        /\ witness # << >> /\ witness' # << >>
        /\ witness'[Len(witness)] = [head |-> head[w], whole |-> TRUE]
    BY <1>0, <2>1, <2>2, Basics, ReplaceLast DEF LastIs
  <2>4. WitnessedLog = History(Len(events) - 1)
    <3>1. Len(witness) - 2 = Len(events) - 1
      BY <2>1, <2>3
    <3>. QED  BY <1>0, <2>1, <2>3, <3>1, ReadWitnessedLog DEF WitnessedLogIsHistory
  <2>5. WitnessedLog' = History(Len(events))
    <3>1. Whole(witness'[Len(witness')])
      BY <2>3 DEF Whole
    <3>2. WitnessedLog' = History(Len(witness) - 1)'
      BY <1>0, <2>3, <3>1, ReadWitnessedLogNext DEF WitnessedLogIsHistory
    <3>. QED  BY <2>1, <2>3, <3>2 DEF History
  <2>6. /\ History(Len(events)) = Append(History(Len(events) - 1), payload[w])
        /\ payload[w] \in Payloads
    <3>1. Len(events) \in 1..Len(events) /\ events[Len(events)].payload = payload[w]
      BY <2>1, <2>3 DEF LastIs
    <3>2. payload[w] \in Payloads
      BY <1>0, TypeParts DEF CallType
    <3>. QED  BY <1>0, <3>1, <3>2, Basics, HistorySnoc
  <2>7. ~Log!Ended(WitnessedLog)
    <3>1. Len(events) - 1 \in 0..Len(events)
      BY <2>3
    <3>2. /\ Len(WitnessedLog) = Len(events) - 1
          /\ \A i \in 1..(Len(events) - 1) : WitnessedLog[i] = events[i].payload
          /\ WitnessedLog \in Hash
      BY <1>0, <2>4, <3>1, Basics, HistoryType
    <3>3. ASSUME WitnessedLog # << >>
          PROVE  WitnessedLog[Len(WitnessedLog)] \notin Terminals
      <4>1. Len(events) - 1 \in 1..(Len(events) - 1) /\ Len(events) - 1 \in 1..Len(events)
        BY <2>3, <3>2, <3>3 DEF Hash
      <4>. QED  BY <1>0, <2>3, <3>2, <4>1 DEF LogInv, Chained
    <3>. QED  BY <3>3 DEF Log!Ended
  <2>8. UNCHANGED <<Sealed, KeptLength, syncedSeal, powerLost>> /\ ~powerLost
    BY <1>0, <2>1 DEF Sealed, Whole, KeptLength
  <2>. QED  BY <2>4, <2>5, <2>6, <2>7, <2>8 DEF Log!Grow, Payloads
<1>6. ASSUME NEW w \in Writers, WitnessSeal(w)
      PROVE  UNCHANGED Log!logVars
  <2>1. ~Sealed /\ ~Sealed' /\ UNCHANGED <<witness, syncedWitnesses, syncedSeal>>
    BY <1>6 DEF WitnessSeal, Sealed, Whole
  <2>2. Sealed' = Sealed
    BY <2>1 DEF Sealed
  <2>. QED  BY <1>0, <2>1, <2>2, SameWitnessedLog DEF Log!logVars, KeptLength
<1>7. ASSUME NEW w \in Writers, FinishSeal(w)
      PROVE  Log!SealLog
  <2>1. /\ seal = {[head |-> head[w], whole |-> FALSE]} /\ Complete
        /\ LastIs(payload[w]) /\ Sealing(w)
        /\ seal' = {[head |-> head[w], whole |-> TRUE]}
        /\ UNCHANGED <<witness, syncedWitnesses, syncedSeal>>
    BY <1>0, <1>7 DEF FinishSeal, Progress, ProgressOf, Archiving
  <2>2. ~Sealed /\ Sealed' = TRUE
    BY <2>1 DEF Sealed, Whole
  <2>3. UNCHANGED <<WitnessedLog, KeptLength, syncedSeal, powerLost>> /\ ~powerLost
    BY <1>0, <2>1, SameWitnessedLog DEF KeptLength
  <2>4. WitnessedLog = History(Len(events))
    <3>1. witness # << >> /\ Len(witness) - 1 = Len(events)
      BY <1>0, <2>1, Basics DEF Complete
    <3>. QED  BY <1>0, <2>1, <3>1, ReadWitnessedLog DEF WitnessedLogIsHistory, Complete
  <2>5. Log!Ended(WitnessedLog)
    <3>1. Len(events) \in 1..Len(events)
      BY <1>0, <2>1, Basics DEF LastIs
    <3>2. /\ Len(WitnessedLog) = Len(events) /\ WitnessedLog # << >>
          /\ WitnessedLog[Len(events)] = events[Len(events)].payload
      BY <1>0, <2>4, <3>1, Basics, HistoryType
    <3>. QED  BY <2>1, <3>2 DEF Log!Ended, LastIs, Sealing
  <2>. QED  BY <2>2, <2>3, <2>5 DEF Log!SealLog
<1>12. ASSUME NEW w \in Writers, SyncWitness(w)
      PROVE  Log!Keep
  <2>1. /\ syncedWitnesses' = syncedWitnesses \cup {Len(witness)} /\ Complete
        /\ UNCHANGED <<witness, seal, syncedSeal>>
    BY <1>0, <1>12 DEF SyncWitness, Progress, ProgressOf
  <2>2. /\ Len(witness) = Len(events) + 1 /\ Len(events) \in Nat /\ witness # << >>
        /\ Whole(witness[Len(witness)])
    BY <1>0, <2>1, Basics DEF Complete
  <2>3. WitnessedLog = History(Len(events)) /\ Len(WitnessedLog) = Len(events)
    <3>1. Len(witness) - 1 = Len(events) /\ Len(events) \in 0..Len(events)
      BY <2>2
    <3>. QED  BY <1>0, <2>2, <3>1, Basics, HistoryType, ReadWitnessedLog
              DEF WitnessedLogIsHistory
  <2>4. KeptLength' = Len(events)
    <3>1. \A j \in syncedWitnesses' : j <= Len(witness)
      BY <1>0, <2>1, <2>2 DEF LogInv, Synced
    <3>2. KeptLength' = Len(witness) - 1
      BY <1>0, <2>1, <3>1, ReadLastNext DEF SyncedIsLast
    <3>. QED  BY <2>2, <3>2
  <2>5. UNCHANGED <<WitnessedLog, Sealed, syncedSeal, powerLost>> /\ ~powerLost
    BY <1>0, <2>1, SameWitnessedLog DEF Sealed, Whole
  <2>. QED  BY <2>3, <2>4, <2>5 DEF Log!Keep
<1>13. ASSUME NEW w \in Writers, SyncSeal(w)
      PROVE  Log!KeepSeal
  <2>1. /\ seal = {[head |-> head[w], whole |-> TRUE]} /\ syncedSeal' = TRUE
        /\ UNCHANGED <<witness, seal, syncedWitnesses>>
    BY <1>0, <1>13 DEF SyncSeal, Progress, ProgressOf
  <2>2. Sealed
    <3>1. [head |-> head[w], whole |-> TRUE].whole
      OBVIOUS
    <3>. QED  BY <2>1, <3>1 DEF Sealed, Whole
  <2>3. UNCHANGED <<WitnessedLog, Sealed, KeptLength, powerLost>> /\ ~powerLost
    BY <1>0, <2>1, SameWitnessedLog DEF Sealed, Whole, KeptLength
  <2>. QED  BY <2>1, <2>2, <2>3 DEF Log!KeepSeal
<1>8. ASSUME NEW w \in Writers,
             Quiet(w) \/ LinkEvent(w) \/ SyncEvent(w) \/ LinkTerminal(w)
                \/ SyncTerminal(w) \/ Return(w)
      PROVE  UNCHANGED <<witness, seal, custodySyncVars>>
    BY <1>8, QuietStep DEF logVars, LinkEvent, SyncEvent, LinkTerminal, SyncTerminal, Return
<1>9. CASE Crash \/ Auditing \/ UNCHANGED vars
    BY <1>1, <1>9, QuietOthers DEF logVars
<1>. QED  BY <1>1, <1>2, <1>4, <1>5, <1>6, <1>7, <1>8, <1>9, <1>12, <1>13
          DEF Next, Proceed, Publish, Quiet, Log!LogNext

(* The protocol implements the abstract Event Ledger.                      *)
THEOREM Refinement == Spec => ImplementsLog
<1>1. Init => Log!LogInit
    BY DEF Init, Log!LogInit, WitnessedLog, WholeWitnesses, Sealed, KeptLength
<1>2. IInv /\ IInv' /\ [Next]_vars => [Log!LogNext]_(Log!logVars)
    BY RefinementStep
<1>. QED  BY <1>1, <1>2, Invariance, PTL DEF Spec, ImplementsLog, Log!LogSpec

-------------------------------------------------------------------------------
(* A sealed Run audits clean *)

(* A call that reached its lock's inside cleaned or refused what others    *)
(* left, so the only temporary there is the one it is publishing.          *)
TemporariesOf(w) ==
    /\ pc[w] \in {"link_event", "sync_event", "unlink_event"} =>
          eventTmp = {w} /\ runTmp = {}
    /\ pc[w] \in {"link_terminal", "sync_terminal", "unlink_terminal"} =>
          eventTmp = {} /\ runTmp = {w}
    /\ pc[w] \in {"witness_event", "finish_witness", "sync_witness", "write_terminal",
                  "witness_seal", "finish_seal", "sync_seal", "return"} =>
          eventTmp = {} /\ runTmp = {}

(* No temporary outlives the seal, unless a power loss brings one back,    *)
(* and an audit begun after the seal has met nothing but the sealed log.   *)
CleanAudit ==
    /\ seal # {} /\ ~powerLost => eventTmp = {} /\ runTmp = {}
    /\ sealAcked => syncedSeal
    /\ audit.afterSeal => sealAcked
    /\ audit.afterSeal /\ ~powerLost =>
          /\ audit.custody
          /\ auditPc \in {"terminal", "custody"} => audit.seen = LogHead
          /\ auditPc = "idle" => audit.integrity

Clean == CleanAudit /\ \A w \in Writers : TemporariesOf(w)

LEMMA TemporariesOfOne ==
    ASSUME TypeOK, Exclusion, NEW w \in Writers, pc[w] \in Holding,
           NEW l \in Labels, pc' = [pc EXCEPT ![w] = l], TemporariesOf(w)'
    PROVE  \A v \in Writers : TemporariesOf(v)'
<1>1. SUFFICES ASSUME NEW v \in Writers \ {w}
               PROVE  TemporariesOf(v)'
    OBVIOUS
<1>2. pc'[v] \notin Holding
    BY Alone DEF TypeOK
<1>. QED  BY <1>2 DEF TemporariesOf, Holding, Steps

LEMMA TemporariesStep ==
    ASSUME IInv, Clean, [Next]_vars
    PROVE  \A v \in Writers : TemporariesOf(v)'
<1>. USE DEF Goto, Leave, Holding, Steps, Labels
<1>0. /\ TypeOK /\ Exclusion
      /\ \A v \in Writers : TemporariesOf(v)
      /\ pc \in [Writers -> Labels]
    BY DEF IInv, Clean, TypeOK
<1>1. ASSUME UNCHANGED <<eventTmp, runTmp, pc>>
      PROVE  \A v \in Writers : TemporariesOf(v)'
    BY <1>0, <1>1 DEF TemporariesOf
<1>2. ASSUME NEW w \in Writers, NEW l \in {"idle", "check"}, pc[w] \in Holding,
             pc' = [pc EXCEPT ![w] = l]
      PROVE  \A v \in Writers : TemporariesOf(v)'
  <2>1. TemporariesOf(w)'
    BY <1>0, <1>2 DEF TemporariesOf
  <2>. QED  BY <1>0, <1>2, <2>1, TemporariesOfOne
<1>3. ASSUME NEW w \in Writers, Call(w) \/ Lock(w)
      PROVE  \A v \in Writers : TemporariesOf(v)'
  <2>1. pc'[w] \in {"wait", "check"} /\ UNCHANGED <<eventTmp, runTmp>>
    BY <1>0, <1>3 DEF Call, Lock, runVars
  <2>2. \A v \in Writers \ {w} : pc'[v] = pc[v]
    BY <1>0, <1>3 DEF Call, Lock, TypeOK
  <2>3. TemporariesOf(w)'
    BY <2>1 DEF TemporariesOf
  <2>4. \A v \in Writers \ {w} : TemporariesOf(v)'
    BY <1>0, <2>1, <2>2 DEF TemporariesOf
  <2>. QED  BY <2>3, <2>4
<1>4. ASSUME NEW w \in Writers, Refuse(w) \/ Fault(w) \/ Return(w)
      PROVE  \A v \in Writers : TemporariesOf(v)'
  <2>1. pc[w] \in Holding /\ pc' = [pc EXCEPT ![w] = "idle"]
    BY <1>4 DEF Refuse, Fault, Return
  <2>. QED  BY <1>2, <2>1
<1>5. ASSUME NEW w \in Writers, Recover(w) \/ Publish(w)
      PROVE  \A v \in Writers : TemporariesOf(v)'
  <2>1. TemporariesOf(w)
    BY <1>0
  <2>2. PICK l \in Labels : pc[w] \in Holding /\ pc' = [pc EXCEPT ![w] = l]
    BY <1>5 DEF Recover, Publish, WriteEvent, LinkEvent, SyncEvent, UnlinkEvent,
                WitnessEvent, FinishWitness, SyncWitness, WriteTerminal, LinkTerminal,
                SyncTerminal, UnlinkTerminal, WitnessSeal, FinishSeal, SyncSeal
  <2>3. CASE Recover(w) \/ WriteEvent(w) \/ LinkEvent(w) \/ SyncEvent(w) \/ UnlinkEvent(w)
    <3>1. TemporariesOf(w)'
      BY <1>0, <2>1, <2>3 DEF Recover, WriteEvent, LinkEvent, SyncEvent, UnlinkEvent,
                              Writable,
                         TemporariesOf, runVars, registryVars
    <3>. QED  BY <1>0, <2>2, <3>1, TemporariesOfOne
  <2>4. CASE WitnessEvent(w) \/ FinishWitness(w) \/ SyncWitness(w)
    <3>1. TemporariesOf(w)'
      BY <1>0, <2>1, <2>4 DEF WitnessEvent, FinishWitness, SyncWitness, TemporariesOf, runVars
    <3>. QED  BY <1>0, <2>2, <3>1, TemporariesOfOne
  <2>5. CASE WriteTerminal(w) \/ LinkTerminal(w) \/ SyncTerminal(w) \/ UnlinkTerminal(w)
    <3>1. TemporariesOf(w)'
      BY <1>0, <2>1, <2>5 DEF WriteTerminal, LinkTerminal, SyncTerminal, UnlinkTerminal,
                         TemporariesOf, runVars, registryVars
    <3>. QED  BY <1>0, <2>2, <3>1, TemporariesOfOne
  <2>6. CASE WitnessSeal(w) \/ FinishSeal(w) \/ SyncSeal(w)
    <3>1. TemporariesOf(w)'
      BY <1>0, <2>1, <2>6 DEF WitnessSeal, FinishSeal, SyncSeal, TemporariesOf, runVars
    <3>. QED  BY <1>0, <2>2, <3>1, TemporariesOfOne
  <2>. QED  BY <1>5, <2>3, <2>4, <2>5, <2>6 DEF Publish
<1>6. CASE Crash \/ PowerLoss
  <2>1. \A v \in Writers : pc'[v] = "dead"
    BY <1>6 DEF Crash, PowerLoss, ProcessGone
  <2>. QED  BY <2>1 DEF TemporariesOf
<1>7. CASE StartStep \/ Auditing \/ UNCHANGED vars
  <2>1. UNCHANGED <<eventTmp, runTmp, pc>>
    BY <1>7 DEF StartStep, Auditing, AuditOpen, AuditEvents, AuditTerminal, AuditCustody,
                vars, runVars
  <2>. QED  BY <1>1, <2>1
<1>. QED  BY <1>3, <1>4, <1>5, <1>6, <1>7 DEF Next, Proceed

(* What a writer's step, a fault or a crash leaves of an audit's promise.  *)
LEMMA SealedTemporaries ==
    ASSUME IInv, Clean, [Next]_vars, ~powerLost'
    PROVE  /\ ~powerLost
           /\ seal' # {} => eventTmp' = {} /\ runTmp' = {}
<1>. USE DEF runVars, registryVars, processVars, callVars
<1>0. /\ ~powerLost /\ Progress /\ CleanAudit
      /\ \A v \in Writers : TemporariesOf(v)
  <2>1. ~powerLost
    BY PowerStep DEF PowerLoss
  <2>. QED  BY <2>1 DEF IInv, Clean
<1>1. CASE StartStep \/ Crash \/ Auditing \/ UNCHANGED vars
    BY <1>0, <1>1 DEF StartStep, Crash, ProcessGone, Auditing, AuditOpen, AuditEvents,
                      AuditTerminal,
                      AuditCustody, vars, CleanAudit
<1>2. ASSUME NEW w \in Writers,
             \/ Call(w) \/ Lock(w) \/ Refuse(w) \/ Recover(w) \/ Return(w)
             \/ LinkEvent(w) \/ SyncEvent(w) \/ WitnessEvent(w) \/ FinishWitness(w)
             \/ SyncWitness(w) \/ LinkTerminal(w) \/ SyncTerminal(w)
      PROVE  UNCHANGED <<powerLost, seal, eventTmp, runTmp>>
    BY <1>2 DEF Call, Lock, Refuse, Recover, Return, LinkEvent, SyncEvent, WitnessEvent,
                FinishWitness, SyncWitness, LinkTerminal, SyncTerminal
<1>3. ASSUME NEW w \in Writers, UnlinkEvent(w) \/ UnlinkTerminal(w) \/ Fault(w)
      PROVE  /\ UNCHANGED <<powerLost, seal>>
             /\ eventTmp' \subseteq eventTmp /\ runTmp' \subseteq runTmp
    BY <1>3 DEF UnlinkEvent, UnlinkTerminal, Fault
<1>4. ASSUME NEW w \in Writers, WriteEvent(w) \/ WriteTerminal(w)
      PROVE  seal' = {} /\ UNCHANGED powerLost
  <2>1. ProgressOf(w)
    BY <1>0 DEF Progress
  <2>. QED  BY <1>4, <2>1 DEF WriteEvent, WriteTerminal, Writable, ProgressOf, Archiving
<1>5. ASSUME NEW w \in Writers, WitnessSeal(w) \/ FinishSeal(w) \/ SyncSeal(w)
      PROVE  UNCHANGED powerLost /\ eventTmp' = {} /\ runTmp' = {}
  <2>1. TemporariesOf(w)
    BY <1>0
  <2>. QED  BY <1>5, <2>1 DEF WitnessSeal, FinishSeal, SyncSeal, TemporariesOf
<1>6. ~PowerLoss
    BY DEF PowerLoss
<1>. QED  BY <1>0, <1>1, <1>2, <1>3, <1>4, <1>5, <1>6 DEF CleanAudit, Next, Proceed, Publish

LEMMA SealStays ==
    ASSUME IInv, Clean, [Next]_vars, sealAcked'
    PROVE  syncedSeal'
<1>. USE DEF syncVars, custodySyncVars
<1>1. ASSUME NEW w \in Writers, Call(w) \/ Proceed(w) \/ Fault(w), ~Return(w)
      PROVE  sealAcked' = sealAcked /\ (syncedSeal => syncedSeal')
  <2>1. sealAcked' = sealAcked
    BY <1>1 DEF Call, Proceed, Lock, Refuse, Recover, Publish, Fault, WriteEvent, LinkEvent,
                SyncEvent, UnlinkEvent, WitnessEvent, FinishWitness, SyncWitness,
                WriteTerminal, LinkTerminal, SyncTerminal, UnlinkTerminal, WitnessSeal,
                FinishSeal, SyncSeal, resultVars
  <2>2. CASE Quiet(w)
    BY <2>1, <2>2, QuietStep DEF logVars
  <2>3. CASE LoudInside(w) /\ syncedSeal
    <3>1. LinkEvent(w) => syncedSeal'
      BY <2>3 DEF LinkEvent
    <3>2. SyncEvent(w) => syncedSeal'
      BY <2>3 DEF SyncEvent
    <3>3. WitnessEvent(w) => syncedSeal'
      BY <2>3 DEF WitnessEvent
    <3>4. FinishWitness(w) => syncedSeal'
      BY <2>3 DEF FinishWitness
    <3>5. SyncWitness(w) => syncedSeal'
      BY <2>3 DEF SyncWitness
    <3>6. LinkTerminal(w) => syncedSeal'
      BY <2>3 DEF LinkTerminal
    <3>7. SyncTerminal(w) => syncedSeal'
      BY <2>3 DEF SyncTerminal
    <3>8. WitnessSeal(w) => syncedSeal'
      BY <2>3 DEF WitnessSeal
    <3>9. FinishSeal(w) => syncedSeal'
      BY <2>3 DEF FinishSeal
    <3>10. SyncSeal(w) => syncedSeal'
      BY <2>3 DEF SyncSeal
    <3>. QED  BY <2>1, <2>3, <3>1, <3>2, <3>3, <3>4, <3>5, <3>6, <3>7, <3>8, <3>9, <3>10
              DEF LoudInside
  <2>. QED  BY <1>1, <2>1, <2>2, <2>3 DEF Proceed, Publish, Quiet, LoudInside
<1>2. ASSUME StartStep \/ Crash \/ PowerLoss \/ Auditing \/ UNCHANGED vars
      PROVE  sealAcked' = sealAcked /\ syncedSeal' = syncedSeal
    BY <1>2 DEF StartStep, Crash, PowerLoss, ProcessGone, Auditing, AuditOpen, AuditEvents,
                AuditTerminal, AuditCustody, vars, resultVars
<1>3. ASSUME NEW w \in Writers, Return(w)
      PROVE  syncedSeal'
  <2>1. /\ pc[w] = "return" /\ syncedSeal' = syncedSeal
        /\ sealAcked' = (sealAcked \/ Sealing(w))
    BY <1>3 DEF Return
  <2>2. ProgressOf(w)
    BY <2>1 DEF IInv, Stopped, Progress
  <2>3. Sealing(w) => syncedSeal
    BY <2>1, <2>2 DEF ProgressOf
  <2>. QED  BY <2>1, <2>3 DEF Clean, CleanAudit
<1>. QED  BY <1>1, <1>2, <1>3 DEF Next, Proceed, Clean, CleanAudit

(* What the auditor finds of a sealed Run.                                 *)
LEMMA SealedReads ==
    ASSUME TypeOK, LogInv, Sealed
    PROVE  /\ ChainHolds /\ terminal = {LogHead} /\ SealedSequence(LogHead)
           /\ RunVerified(LogHead)
<1>1. /\ seal = {[head |-> LogHead, whole |-> TRUE]} /\ terminal = {LogHead}
      /\ Complete /\ LastIsTerminal
    BY SealedFacts
<1>2. ChainHolds
    BY ChainUnbroken DEF LogInv
<1>3. SealedSequence(LogHead)
    BY <1>1, LogIsSealedSequence DEF LogInv
<1>4. ASSUME NEW n \in 0..Len(LogHead)
      PROVE  witness[n + 1] = [head |-> SubSeq(LogHead, 1, n), whole |-> TRUE]
  <2>1. n \in 0..Len(events) /\ n + 1 \in 1..Len(witness) /\ Len(witness) = Len(events) + 1
    BY <1>1, <1>4, Basics DEF Complete
  <2>2. SubSeq(LogHead, 1, n) = History(n)
    <3>1. Len(events) \in 0..Len(events) /\ LogHead = History(Len(events))
      BY Basics
    <3>2. SubSeq(History(Len(events)), 1, n) = History(n)
      BY <2>1, <3>1, Basics, HistoryPrefix
    <3>. QED  BY <3>1, <3>2
  <2>3. /\ witness[n + 1].head = History((n + 1) - 1)
        /\ n + 1 < Len(witness) => Whole(witness[n + 1])
    BY <2>1 DEF LogInv, Frontier
  <2>4. Whole(witness[n + 1])
    BY <1>1, <2>1, <2>3 DEF Complete
  <2>5. witness[n + 1] \in Witness /\ (n + 1) - 1 = n
    BY <2>1, Basics
  <2>. QED  BY <2>2, <2>3, <2>4, <2>5 DEF Witness, Whole
<1>5. RunVerified(LogHead)
    BY <1>1, <1>4, CompleteIsReadable, Basics DEF RunVerified, Complete
<1>. QED  BY <1>1, <1>2, <1>3, <1>5

LEMMA CleanAuditStep ==
    ASSUME IInv, Clean, [Next]_vars
    PROVE  CleanAudit'
<1>0. /\ TypeOK /\ Exclusion /\ CleanAudit /\ AuditType /\ (syncedSeal => Sealed)
      /\ ~powerLost => LogInv /\ Progress
    BY TypeParts DEF IInv, Lasting, Clean
<1>1. /\ sealAcked' => syncedSeal'
      /\ ~powerLost' => ~powerLost /\ (seal' # {} => eventTmp' = {} /\ runTmp' = {})
    BY SealedTemporaries, SealStays
<1>2. sealAcked => sealAcked'
  <2>1. ASSUME NEW w \in Writers, Call(w) \/ Proceed(w) \/ Fault(w)
        PROVE  sealAcked => sealAcked'
    BY <2>1 DEF Call, Proceed, Lock, Refuse, Recover, Publish, Return, Fault, WriteEvent,
                LinkEvent, SyncEvent, UnlinkEvent, WitnessEvent, FinishWitness, SyncWitness,
                WriteTerminal, LinkTerminal, SyncTerminal, UnlinkTerminal, WitnessSeal,
                FinishSeal, SyncSeal, resultVars
  <2>2. ASSUME StartStep \/ Crash \/ PowerLoss \/ Auditing \/ UNCHANGED vars
        PROVE  sealAcked' = sealAcked
    BY <2>2 DEF StartStep, Crash, PowerLoss, ProcessGone, Auditing, AuditOpen, AuditEvents,
                AuditTerminal, AuditCustody, vars, resultVars
  <2>. QED  BY <2>1, <2>2 DEF Next
<1>3. Sealed /\ ~powerLost' => LogHead' = LogHead
  <2>1. ~powerLost' => ~PowerLoss
    BY DEF PowerLoss
  <2>2. Sealed /\ ~powerLost' => events' = events
    BY <1>0, <1>1, <2>1, SealedStep
  <2>. QED  BY <2>2 DEF LogHead, RecordHash
<1>4. Sealed /\ ~powerLost => eventTmp = {} /\ runTmp = {}
    BY <1>0 DEF CleanAudit, Sealed
<1>5. /\ audit'.afterSeal => sealAcked'
      /\ audit'.afterSeal /\ ~powerLost' =>
            /\ audit'.custody
            /\ auditPc' \in {"terminal", "custody"} => audit'.seen = LogHead'
            /\ auditPc' = "idle" => audit'.integrity
  <2>1. CASE UNCHANGED auditVars
    BY <1>0, <1>1, <1>2, <1>3, <2>1 DEF CleanAudit, auditVars
  <2>2. CASE PowerLoss
    <3>1. powerLost' /\ audit' \in {audit, NoAudit}
      BY <2>2 DEF PowerLoss
    <3>. QED  BY <1>0, <1>2, <3>1 DEF CleanAudit, NoAudit
  <2>3. CASE AuditOpen
    <3>1. /\ audit'.afterSeal = sealAcked /\ audit'.custody = (runTmp = {}) /\ auditPc' = "events"
          /\ sealAcked' = sealAcked
      BY <2>3 DEF AuditOpen, resultVars
    <3>2. sealAcked => Sealed
      BY <1>0 DEF CleanAudit
    <3>. QED  BY <1>0, <1>1, <1>4, <3>1, <3>2
  <2>4. CASE AuditEvents \/ AuditTerminal \/ AuditCustody
    <3>1. /\ sealAcked' = sealAcked /\ powerLost' = powerLost /\ events' = events
          /\ audit'.afterSeal = audit.afterSeal
      BY <1>0, <2>4 DEF AuditEvents, AuditTerminal, AuditCustody, resultVars, processVars,
                        runVars,
                        AuditType
    <3>2. audit.afterSeal => sealAcked /\ Sealed
      BY <1>0 DEF CleanAudit
    <3>3. ASSUME audit.afterSeal, ~powerLost
          PROVE  /\ audit.custody
                 /\ auditPc \in {"terminal", "custody"} => audit.seen = LogHead
                 /\ eventTmp = {} /\ runTmp = {}
                 /\ ChainHolds /\ terminal = {LogHead} /\ SealedSequence(LogHead)
                 /\ RunVerified(LogHead) /\ LogHead' = LogHead
      BY <1>0, <1>3, <1>4, <3>1, <3>2, <3>3, SealedReads DEF CleanAudit
    <3>4. ASSUME audit.afterSeal, ~powerLost
          PROVE  /\ audit'.custody
                 /\ auditPc' \in {"terminal", "custody"} => audit'.seen = LogHead
                 /\ auditPc' = "idle" => audit'.integrity
      <4>1. CASE AuditEvents
        BY <1>0, <3>3, <3>4, <4>1 DEF AuditEvents, AuditType
      <4>2. CASE AuditTerminal
        BY <1>0, <3>3, <3>4, <4>2 DEF AuditTerminal, AuditType
      <4>3. CASE AuditCustody
        BY <1>0, <3>3, <3>4, <4>3 DEF AuditCustody, AuditType
      <4>. QED  BY <2>4, <4>1, <4>2, <4>3
    <3>. QED  BY <3>1, <3>2, <3>3, <3>4
  <2>5. Auditing \/ PowerLoss \/ UNCHANGED auditVars
    <3>1. ASSUME NEW w \in Writers, Quiet(w) \/ LoudInside(w) \/ Return(w)
          PROVE  UNCHANGED auditVars
      BY <3>1, QuietStep DEF LoudInside, LinkEvent, SyncEvent, WitnessEvent,
                  FinishWitness, SyncWitness, LinkTerminal, SyncTerminal, WitnessSeal,
                  FinishSeal,
                  SyncSeal, Return
    <3>. QED  BY <3>1 DEF Next, Proceed, Publish, Quiet, LoudInside, StartStep, Crash, vars
  <2>. QED  BY <2>1, <2>2, <2>3, <2>4, <2>5 DEF Auditing
<1>. QED  BY <1>1, <1>5 DEF CleanAudit

(* An audit begun after seal() returned reports both Archive Integrity and *)
(* Filesystem Custody, whatever calls, faults or crashes come in between,  *)
(* unless the machine loses power (store.py, audit_run).                   *)
THEOREM CleanAudits == Spec => []SealedRunAuditsClean
<1>1. Init => Clean
    BY DEF Init, Clean, CleanAudit, TemporariesOf, NoAudit
<1>2. IInv /\ Clean /\ [Next]_vars => Clean'
    BY CleanAuditStep, TemporariesStep DEF Clean
<1>3. IInv /\ Clean => SealedRunAuditsClean
    BY DEF Clean, CleanAudit, SealedRunAuditsClean
<1>. QED  BY <1>1, <1>2, <1>3, Invariance, PTL DEF Spec
===============================================================================
