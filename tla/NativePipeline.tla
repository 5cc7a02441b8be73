---------------------------- MODULE NativePipeline ----------------------------
(***************************************************************************)
(* One CTA of a kernel the native CUDA backend emits: a copy warp and an   *)
(* MMA warp connected by a ring of stages in shared memory, readout warps  *)
(* that take finished accumulators out of tensor memory, the copy engine   *)
(* and the tensor engine that work on their own, and the CTA-wide          *)
(* rendezvous between them.                                                *)
(*                                                                         *)
(* A warp's program is the list of segments _Emitter.emit, sequence, loop  *)
(* and pipeline write at kernel scope; it enters those its role condition  *)
(* admits.  The MMA warp issues from its first lane only; the lanes of the *)
(* copy warp meet at __syncwarp before and after every stage.              *)
(***************************************************************************)
EXTENDS Naturals, Sequences, FiniteSetsExt, Mbarrier

CONSTANTS
    Readers,    \* the warps of the readout role
    Copy,       \* the warp of the role that fills the stages
    Issue,      \* the warp of the role that issues the MMAs
    Schedules   \* the admitted Schedules considered

Warps == Readers \union {Copy, Issue}

(***************************************************************************)
(* What the pipeline of a Schedule may look like once verify and preflight *)
(* have admitted it.  A contraction of one step has no loop and one stage; *)
(* a tile loop of one trip is refused.  An operation before the            *)
(* contraction may be its readout: another role's readout waits on a       *)
(* barrier the MMA signals, and that is all the verifier asks of it.       *)
(***************************************************************************)
Admitted(s) ==
    /\ s.stages \in Nat \ {0} /\ s.trips \in Nat \ {0} /\ s.tiles \in Nat \ {0}
    /\ s.mmas \in Nat \ {0}
    /\ s.movements \in Seq({"tma", "global"}) /\ s.movements # << >>
    /\ s.leader \in Warps /\ s.owner \in Warps
    /\ s.readoutFirst \in BOOLEAN
    /\ s.trips = 1 => s.stages = 1 /\ s.tiles = 1

ASSUME ConstantsAssumption ==
    /\ Copy # Issue /\ {Copy, Issue} \intersect Readers = {}
    /\ Readers # {}    \* a role that reads tensor memory has four warps
    /\ \A s \in Schedules : Admitted(s)

VARIABLES
    sched,      \* the Schedule the kernel was emitted from
    pc,         \* the segment each warp is in
    tile,       \* the output tile each warp is in
    ready,      \* the barrier that fills a stage, per stage
    free,       \* the barrier that returns a stage, per stage
    done,       \* the completion barrier of each MMA
    tmem,       \* tensor memory is allocated
    smem,       \* the operand tiles each stage holds
    acc,        \* the contributions each accumulator holds
    copying,    \* the copy warp's step and load
    issuing,    \* the MMA warp's step and drained stages
    inflight,   \* the bulk copies the copy engine has not delivered
    queue,      \* what the tensor engine has not executed
    reading,    \* each readout warp's MMA, and whether it passed its wait
    out         \* what each readout warp last read from each accumulator

vars == <<sched, pc, tile, ready, free, done, tmem, smem, acc, copying, issuing,
          inflight, queue, reading, out>>

Stages == 0..(sched.stages - 1)
Loads == 1..Len(sched.movements)
Mmas == 1..sched.mmas

StageOf(k) == k % sched.stages
Parity(k) == (k \div sched.stages) % 2
(* Mutant: a wait on one slot is taken to prove every arrival. *)
DrainedStagesOne == 1

DrainedStages == Min({sched.stages, sched.trips})
(* Mutant: one lap too many when the stages divide the steps. *)
FinalStepByLap(stage) == stage + (sched.trips \div sched.stages) * sched.stages

FinalStep(stage) ==
    stage + ((sched.trips - 1 - stage) \div sched.stages) * sched.stages

Product(t) == [i \in 1..sched.trips |-> {<<t, i - 1>>}]

(***************************************************************************)
(* The segments of the program in the order they are emitted; a warp       *)
(* passes those its role condition excludes.                               *)
(***************************************************************************)
ToClosing == "syncTile"
ToReadout(w) == IF w \in Readers THEN "readout" ELSE ToClosing
ToRingEnd(w) == IF sched.readoutFirst THEN ToClosing ELSE ToReadout(w)
ToInval(w) == IF w = sched.leader THEN "inval" ELSE ToRingEnd(w)
ToRing(w) == IF w \in {Copy, Issue} THEN "ring" ELSE "syncRing"
ToSetup(w) == IF w = sched.leader THEN "setup" ELSE "syncSetup"
ToTile(w) == IF sched.readoutFirst /\ w \in Readers THEN "readout" ELSE ToSetup(w)
AfterReadout(w) == IF sched.readoutFirst THEN ToSetup(w) ELSE ToClosing
ToClose(w) == IF w = sched.leader THEN "close" ELSE "syncClose"
ToEnd(w) == IF w = sched.owner THEN "dealloc" ELSE "end"

Rendezvous == {"syncAlloc", "syncSetup", "syncRing", "syncTile", "syncClose", "syncLast"}

MoreTiles(w) == tile[w] < sched.tiles

Beyond(w) ==
    CASE pc[w] = "syncAlloc" -> ToTile(w)
      [] pc[w] = "syncSetup" -> ToRing(w)
      [] pc[w] = "syncRing" -> ToInval(w)
      [] pc[w] = "syncTile" -> ToClose(w)
      [] pc[w] = "syncClose" ->
            IF MoreTiles(w) THEN ToTile(w) ELSE IF sched.tiles > 1 THEN "syncLast" ELSE ToEnd(w)
      [] pc[w] = "syncLast" -> ToEnd(w)

Goto(w, segment) == pc' = [pc EXCEPT ![w] = segment]

\* __syncthreads releases nobody until every warp has arrived at one.
Syncthreads ==
    /\ \A w \in Warps : pc[w] \in Rendezvous
    /\ pc' = [w \in Warps |-> Beyond(w)]
    /\ tile' = [w \in Warps |-> IF pc[w] = "syncClose" /\ MoreTiles(w) THEN tile[w] + 1 ELSE tile[w]]
    /\ UNCHANGED <<sched, ready, free, done, tmem, smem, acc, copying, issuing,
                   inflight, queue, reading, out>>

Alloc(w) ==
    /\ pc[w] = "alloc"
    /\ tmem' = TRUE
    /\ Goto(w, "syncAlloc")
    /\ UNCHANGED <<sched, tile, ready, free, done, smem, acc, copying, issuing,
                   inflight, queue, reading, out>>

(* Mutant: one arrival fills a stage, however many loads it holds. *)
FillsOnce == 1

\* The arrivals that fill a stage.
Fills == Len(sched.movements)

\* Thread 0 initialises the ring and the completion barriers of the pipeline.
Setup(w) ==
    /\ pc[w] = "setup"
    /\ ready' = [stage \in Stages |-> Initialised(Fills)]
    /\ free' = [stage \in Stages |-> Initialised(1)]
    /\ done' = [m \in Mmas |-> Initialised(1)]
    /\ Goto(w, "syncSetup")
    /\ UNCHANGED <<sched, tile, tmem, smem, acc, copying, issuing, inflight, queue, reading, out>>

(* Mutant: the wait asks for the phase of the lap to come. *)
ReturnedThisLap(k) == k >= sched.stages => Passed(free[StageOf(k)], Parity(k))

\* The stage of a step came back from the lap before.
Returned(k) == k >= sched.stages => Passed(free[StageOf(k)], Parity(k - sched.stages))

(***************************************************************************)
(* The copy warp: for every step of the contraction, wait for the stage to *)
(* come back, then one load after the other.                               *)
(***************************************************************************)
AwaitFree(w) ==
    /\ w = Copy /\ pc[w] = "ring" /\ copying.load = 0
    /\ Returned(copying.step)
    /\ copying' = [copying EXCEPT !.load = 1]
    /\ UNCHANGED <<sched, pc, tile, ready, free, done, tmem, smem, acc, issuing,
                   inflight, queue, reading, out>>

\* The lane that issued the last load of the last step leaves the ring.
NextLoad(w) ==
    IF copying.load < Len(sched.movements)
        THEN /\ copying' = [copying EXCEPT !.load = @ + 1]
             /\ UNCHANGED pc
        ELSE IF copying.step + 1 < sched.trips
        THEN /\ copying' = [step |-> copying.step + 1, load |-> 0]
             /\ UNCHANGED pc
        ELSE /\ copying' = [step |-> 0, load |-> 0]
             /\ Goto(w, "syncRing")

\* A bulk copy: announced on the stage's barrier, delivered by the copy engine.
LoadTma(w) ==
    LET stage == StageOf(copying.step) IN
    /\ w = Copy /\ pc[w] = "ring" /\ copying.load # 0
    /\ sched.movements[copying.load] = "tma"
    /\ ready' = [ready EXCEPT ![stage] = Expecting(@)]
    /\ inflight' = inflight \union
            {[stage |-> stage, load |-> copying.load, operand |-> <<tile[w], copying.step>>]}
    /\ NextLoad(w)
    /\ UNCHANGED <<sched, tile, free, done, tmem, smem, acc, issuing, queue, reading, out>>

\* A staged global load: the warp writes the tile itself, fences and arrives.
LoadGlobal(w) ==
    LET stage == StageOf(copying.step) IN
    /\ w = Copy /\ pc[w] = "ring" /\ copying.load # 0
    /\ sched.movements[copying.load] = "global"
    /\ smem' = [smem EXCEPT ![stage][copying.load] = <<tile[w], copying.step>>]
    /\ ready' = [ready EXCEPT ![stage] = Arrived(@)]
    /\ NextLoad(w)
    /\ UNCHANGED <<sched, tile, free, done, tmem, acc, issuing, inflight, queue, reading, out>>

\* The copy engine delivers the outstanding copies in any order.
Deliver ==
    \E c \in inflight :
        /\ smem' = [smem EXCEPT ![c.stage][c.load] = c.operand]
        /\ ready' = [ready EXCEPT ![c.stage] = Delivered(@)]
        /\ inflight' = inflight \ {c}
        /\ UNCHANGED <<sched, pc, tile, free, done, tmem, acc, copying, issuing, queue,
                       reading, out>>

(***************************************************************************)
(* The MMA warp: for every step, wait for the stage, issue every MMA on it *)
(* and a commit that returns it; after the last step one commit publishes  *)
(* every accumulator; then wait until each used stage came back.           *)
(***************************************************************************)
MmasOn(w, k) ==
    [m \in Mmas |-> [kind |-> "mma", mma |-> m, stage |-> StageOf(k), operand |-> <<tile[w], k>>]]
ReturnStage(k) == <<[kind |-> "free", mma |-> 0, stage |-> StageOf(k), operand |-> << >>]>>
PublishAll == [m \in Mmas |-> [kind |-> "done", mma |-> m, stage |-> 0, operand |-> << >>]]

(* Mutant: every step notifies the readout. *)
PublishedEachStep(k) == PublishAll

Published(k) == IF k + 1 = sched.trips THEN PublishAll ELSE << >>

IssueStep(w) ==
    LET k == issuing.step IN
    /\ w = Issue /\ pc[w] = "ring" /\ k < sched.trips
    /\ Passed(ready[StageOf(k)], Parity(k))
    /\ queue' = queue \o MmasOn(w, k) \o ReturnStage(k) \o Published(k)
    /\ issuing' = [issuing EXCEPT !.step = k + 1]
    /\ UNCHANGED <<sched, pc, tile, ready, free, done, tmem, smem, acc, copying, inflight,
                   reading, out>>

Drain(w) ==
    LET stage == issuing.drained IN
    /\ w = Issue /\ pc[w] = "ring" /\ issuing.step = sched.trips
    /\ Passed(free[stage], Parity(FinalStep(stage)))
    /\ IF stage + 1 < DrainedStages
           THEN /\ issuing' = [issuing EXCEPT !.drained = stage + 1]
                /\ UNCHANGED pc
           ELSE /\ issuing' = [step |-> 0, drained |-> 0]
                /\ Goto(w, "syncRing")
    /\ UNCHANGED <<sched, tile, ready, free, done, tmem, smem, acc, copying, inflight, queue,
                   reading, out>>

(***************************************************************************)
(* The tensor engine executes what the MMA warp issued in that order.  The *)
(* first step of a contraction overwrites the accumulator.                 *)
(***************************************************************************)
Accumulated(e) ==
    LET contribution == {smem[e.stage][l] : l \in Loads}
    IN IF e.operand[2] = 0 THEN <<contribution>> ELSE Append(acc[e.mma], contribution)

Execute ==
    LET e == Head(queue) IN
    /\ queue # << >>
    /\ queue' = Tail(queue)
    /\ acc' = IF e.kind = "mma" THEN [acc EXCEPT ![e.mma] = Accumulated(e)] ELSE acc
    /\ free' = IF e.kind = "free" THEN [free EXCEPT ![e.stage] = Arrived(@)] ELSE free
    /\ done' = IF e.kind = "done" THEN [done EXCEPT ![e.mma] = Arrived(@)] ELSE done
    /\ UNCHANGED <<sched, pc, tile, ready, tmem, smem, copying, issuing, inflight, reading, out>>

\* Thread 0 invalidates the barriers of the ring.
InvalidateRing(w) ==
    /\ pc[w] = "inval"
    /\ ready' = [stage \in Stages |-> Dead]
    /\ free' = [stage \in Stages |-> Dead]
    /\ Goto(w, ToRingEnd(w))
    /\ UNCHANGED <<sched, tile, done, tmem, smem, acc, copying, issuing, inflight, queue,
                   reading, out>>

(* Mutant: the wait asks for the second phase, which never begins. *)
CompleteNextPhase(m) == Passed(done[m], 1)

\* The readout of an accumulator waits for the first phase of its barrier.
Complete(m) == Passed(done[m], 0)

(***************************************************************************)
(* A readout warp: for every accumulator in turn, wait for its completion, *)
(* then load its own rows.                                                 *)
(***************************************************************************)
AwaitDone(w) ==
    /\ w \in Readers /\ pc[w] = "readout" /\ ~reading[w].waited
    /\ Complete(reading[w].mma)
    /\ reading' = [reading EXCEPT ![w].waited = TRUE]
    /\ UNCHANGED <<sched, pc, tile, ready, free, done, tmem, smem, acc, copying, issuing,
                   inflight, queue, out>>

ReadTmem(w) ==
    LET m == reading[w].mma IN
    /\ w \in Readers /\ pc[w] = "readout" /\ reading[w].waited
    /\ out' = [out EXCEPT ![w][m] = acc[m]]
    /\ IF m < sched.mmas
           THEN /\ reading' = [reading EXCEPT ![w] = [mma |-> m + 1, waited |-> FALSE]]
                /\ UNCHANGED pc
           ELSE /\ reading' = [reading EXCEPT ![w] = [mma |-> 1, waited |-> FALSE]]
                /\ Goto(w, AfterReadout(w))
    /\ UNCHANGED <<sched, tile, ready, free, done, tmem, smem, acc, copying, issuing,
                   inflight, queue>>

\* Thread 0 invalidates the completion barriers behind the readouts of the tile.
InvalidateCompletions(w) ==
    /\ pc[w] = "close"
    /\ done' = [m \in Mmas |-> Dead]
    /\ Goto(w, "syncClose")
    /\ UNCHANGED <<sched, tile, ready, free, tmem, smem, acc, copying, issuing, inflight,
                   queue, reading, out>>

Dealloc(w) ==
    /\ pc[w] = "dealloc"
    /\ tmem' = FALSE
    /\ Goto(w, "end")
    /\ UNCHANGED <<sched, tile, ready, free, done, smem, acc, copying, issuing, inflight,
                   queue, reading, out>>
-------------------------------------------------------------------------------
Init ==
    /\ sched \in Schedules
    /\ pc = [w \in Warps |-> IF w = sched.owner THEN "alloc" ELSE "syncAlloc"]
    /\ tile = [w \in Warps |-> 1]
    /\ ready = [stage \in Stages |-> Dead]
    /\ free = [stage \in Stages |-> Dead]
    /\ done = [m \in Mmas |-> Dead]
    /\ tmem = FALSE
    /\ smem = [stage \in Stages |-> [l \in Loads |-> << >>]]
    /\ acc = [m \in Mmas |-> << >>]
    /\ copying = [step |-> 0, load |-> 0]
    /\ issuing = [step |-> 0, drained |-> 0]
    /\ inflight = {}
    /\ queue = << >>
    /\ reading = [w \in Readers |-> [mma |-> 1, waited |-> FALSE]]
    /\ out = [w \in Readers |-> [m \in Mmas |-> << >>]]

Step(w) ==
    \/ Alloc(w) \/ Setup(w)
    \/ AwaitFree(w) \/ LoadTma(w) \/ LoadGlobal(w)
    \/ IssueStep(w) \/ Drain(w)
    \/ InvalidateRing(w) \/ AwaitDone(w) \/ ReadTmem(w) \/ InvalidateCompletions(w)
    \/ Dealloc(w)

Next == Syncthreads \/ Deliver \/ Execute \/ \E w \in Warps : Step(w)

Spec == Init /\ [][Next]_vars

(***************************************************************************)
(* A resident CTA's warps are scheduled and its engines work.              *)
(***************************************************************************)
Fairness ==
    /\ WF_vars(Syncthreads) /\ WF_vars(Deliver) /\ WF_vars(Execute)
    /\ \A w \in Warps : WF_vars(Step(w))

FairSpec == Spec /\ Fairness
-------------------------------------------------------------------------------
TypeOK ==
    /\ sched \in Schedules
    /\ pc \in [Warps -> Rendezvous \union {"alloc", "setup", "ring", "inval", "readout",
                                           "close", "dealloc", "end"}]
    /\ tile \in [Warps -> 1..sched.tiles]
    /\ \A stage \in Stages : WithinCount(ready[stage]) /\ WithinCount(free[stage])
    /\ \A m \in Mmas : WithinCount(done[m])
    /\ tmem \in BOOLEAN
    /\ copying.step \in 0..(sched.trips - 1) /\ copying.load \in 0..Len(sched.movements)
    /\ issuing.step \in 0..sched.trips /\ issuing.drained \in 0..(DrainedStages - 1)

(***************************************************************************)
(* A barrier is live whenever anyone will still wait on it or arrive at    *)
(* it: a warp in the ring, a commit the tensor engine has not reached, a   *)
(* copy under way, a readout warp before its wait.  (pipeline drains each  *)
(* used stage before it invalidates the ring, and only a readout closes a  *)
(* completion barrier; a commit or a copy that came later would hit memory *)
(* that holds no barrier.)                                                 *)
(***************************************************************************)
BarriersOutliveTheirUsers ==
    /\ \A w \in {Copy, Issue} : pc[w] = "ring" =>
            \A stage \in Stages : ready[stage].live /\ free[stage].live
    /\ \A c \in inflight : ready[c.stage].live
    /\ \A i \in DOMAIN queue :
            /\ queue[i].kind = "free" => free[queue[i].stage].live
            /\ queue[i].kind = "done" => done[queue[i].mma].live
    /\ \A w \in Readers : pc[w] = "readout" => done[reading[w].mma].live

(***************************************************************************)
(* From the moment an MMA is issued until the tensor engine has executed   *)
(* it, its stage holds the operands of its own step and tile, and no copy  *)
(* into that stage is under way.  (The parity waits of the ring: a waiter  *)
(* sees one bit of a phase counter that advances once per lap.)            *)
(***************************************************************************)
StageHeldUntilExecuted ==
    \A i \in DOMAIN queue : queue[i].kind = "mma" =>
        /\ \A l \in Loads : smem[queue[i].stage][l] = queue[i].operand
        /\ \A c \in inflight : c.stage # queue[i].stage

(***************************************************************************)
(* While a readout warp reads an accumulator, the accumulator holds the    *)
(* complete product of the warp's own tile and nothing is queued that      *)
(* would change it; tensor memory is allocated under both engines.  (loop: *)
(* "Ensure all TMEM readers have completed before the next output tile     *)
(* overwrites it".)                                                        *)
(***************************************************************************)
AccumulatorHeldWhileRead ==
    /\ queue # << >> => tmem
    /\ \A w \in Readers : pc[w] = "readout" /\ reading[w].waited =>
            /\ acc[reading[w].mma] = Product(tile[w])
            /\ \A i \in DOMAIN queue : queue[i].kind = "mma" => queue[i].mma # reading[w].mma
            /\ tmem

(***************************************************************************)
(* A readout warp that is past its wait met a barrier in its second phase. *)
(* (NATIVE_CUDA_DESIGN.md: "initialize count one, issue all K iterations,  *)
(* commit once from the MMA issuing thread, wait successfully on phase     *)
(* zero before TMEM readout".)                                             *)
(***************************************************************************)
ReadoutFollowsPublication ==
    \A w \in Readers : pc[w] = "readout" /\ reading[w].waited =>
        done[reading[w].mma].live /\ done[reading[w].mma].phase = 1

\* Every warp reaches the end of the kernel, where tensor memory is given back: no wait
\* and no rendezvous is left for ever.  (pipeline's waits and parities, emit's tail.)
KernelEnds == <>(~tmem /\ \A w \in Warps : pc[w] = "end")

(***************************************************************************)
(* The kernel computes tile by tile what Contraction promises.  A tile is  *)
(* closed when thread 0 has invalidated its completion barriers.           *)
(***************************************************************************)
OpenTile ==
    LET w == sched.leader IN
    IF pc[w] \in {"syncLast", "dealloc", "end"} THEN sched.tiles + 1
    ELSE IF pc[w] = "syncClose" THEN tile[w] + 1
    ELSE tile[w]

TileByTile == INSTANCE Contraction WITH
    tile <- OpenTile,
    published <- {m \in Mmas : done[m].live /\ done[m].phase = 1},
    taken <- {t \in Readers \X Mmas : out[t[1]][t[2]] = Product(OpenTile)},
    out <- out

ImplementsContraction == TileByTile!Spec
===============================================================================
