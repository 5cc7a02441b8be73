------------------------- MODULE NativePipelineProofs -------------------------
EXTENDS NativePipeline, FiniteSetTheorems, SequenceTheorems, TLAPS

(* The theorems of NativePipeline, for every admitted schedule, number of  *)
(* stages, trips, tiles, warps and readers.                                *)
(*                                                                         *)
(* What a run of the ring has done is two numbers: f, the loop steps whose *)
(* commands the tensor core has executed in full, and o, how many it has   *)
(* executed of what follows: commands of the next step, or, after the last *)
(* one, notices. FlowAt(f, o) says what every barrier, stage, command in   *)
(* the queue and copy in flight must then be: the copy warp is at most a   *)
(* ring ahead of f, the issue warp between the two, and a barrier's phase  *)
(* is the parity of its uses so far. Flow says that such                   *)
(* numbers exist whenever the CTA is between the ring's two rendezvous or  *)
(* reads; each action moves one of them, or none. The remaining parts of   *)
(* IInv say where warps stand between two rendezvous and what the barriers *)
(* and the outputs hold when no ring runs. Only ReadoutBehind is assumed   *)
(* of the schedules beyond what preflight checks: without it the run       *)
(* native_readout_first violates what is proved here.                      *)

(* The readout of an accumulator is declared behind its contraction.       *)
ReadoutBehind == \A s \in Schedules : ~s.readoutFirst

-------------------------------------------------------------------------------
(* Where the warps are *)

(* Between two rendezvous the warps are in the segments that lie between   *)
(* them, and in the same tile.                                             *)
Among(segments) == \A w \in Warps : pc[w] \in segments
Allocating == Among({"alloc", "syncAlloc"})
Opening == Among({"setup", "syncSetup"})
Ringing == Among({"ring", "syncRing"})
Reading == Among({"inval", "readout", "syncTile"})
Closing == Among({"close", "syncClose"})
Leaving == Among({"syncLast"})
Ending == Among({"dealloc", "end"})

Tile == tile[sched.leader]

Lockstep ==
    /\ \A w \in Warps : tile[w] = Tile
    /\ Allocating \/ Opening \/ Ringing \/ Reading \/ Closing \/ Leaving \/ Ending
    /\ Allocating => Tile = 1
    /\ Leaving \/ Ending => Tile = sched.tiles

Roles ==
    \A w \in Warps :
        /\ pc[w] \in {"alloc", "dealloc"} => w = sched.owner
        /\ pc[w] \in {"setup", "inval", "close"} => w = sched.leader
        /\ pc[w] = "ring" => w \in {Copy, Issue}
        /\ pc[w] = "readout" => w \in Readers

Allocated ==
    /\ Allocating /\ pc[sched.owner] # "alloc" => tmem
    /\ Opening \/ Ringing \/ Reading \/ Closing \/ Leaving => tmem

-------------------------------------------------------------------------------
(* The data *)

Operands == (1..sched.tiles) \X (0..(sched.trips - 1))
Barrier == [live : BOOLEAN, count : Nat, pending : Nat, tx : Nat, phase : {0, 1}]
Commands == [kind : {"mma", "free", "done"}, mma : Nat, stage : Nat, operand : Operands \union {<< >>}]

Shaped ==
    /\ ready \in [Stages -> Barrier] /\ free \in [Stages -> Barrier] /\ done \in [Mmas -> Barrier]
    /\ smem \in [Stages -> [Loads -> Operands \union {<< >>}]]
    /\ acc \in [Mmas -> Seq(SUBSET Operands)]
    /\ copying \in [step : 0..(sched.trips - 1), load : 0..Len(sched.movements)]
    /\ issuing \in [step : 0..sched.trips, drained : 0..(DrainedStages - 1)]
    /\ queue \in Seq(Commands)
    /\ reading \in [Readers -> [mma : Mmas, waited : BOOLEAN]]
    /\ out \in [Readers -> [Mmas -> Seq(SUBSET Operands)]]

(* A warp outside the ring, or a readout, has its counters at their start, *)
(* and the engines are idle but in the contraction.                        *)
Idle ==
    /\ pc[Copy] # "ring" => copying = [step |-> 0, load |-> 0]
    /\ pc[Issue] # "ring" => issuing = [step |-> 0, drained |-> 0]
    /\ ~Ringing /\ ~Reading => queue = << >>
    /\ ~Ringing => inflight = {}
    /\ \A w \in Readers : pc[w] # "readout" => reading[w] = [mma |-> 1, waited |-> FALSE]

(* The completion barriers outside the contraction.                        *)
Completed(m) == done[m].live /\ done[m].phase = 1
Fresh(b, count) == b = Initialised(count)

Opened ==
    /\ Opening /\ pc[sched.leader] = "syncSetup" =>
          /\ \A stage \in Stages : Fresh(ready[stage], Fills) /\ Fresh(free[stage], 1)
          /\ \A m \in Mmas : Fresh(done[m], 1)
    /\ Closing /\ pc[sched.leader] = "close" => \A m \in Mmas : Completed(m)
    /\ \/ Allocating \/ Leaving \/ Ending
       \/ Opening /\ pc[sched.leader] = "setup"
       \/ Closing /\ pc[sched.leader] = "syncClose"
       => \A m \in Mmas : done[m] = Dead

-------------------------------------------------------------------------------
(* The flow of steps through the ring: f steps executed, and o commands of *)
(* the next one.                                                           *)

Copied == IF pc[Copy] = "ring" THEN copying.step ELSE sched.trips
Issued == IF pc[Issue] = "ring" THEN issuing.step ELSE sched.trips

Ordered(f) ==
    /\ f <= Issued /\ Issued <= Copied /\ Copied <= f + sched.stages
    /\ copying.load > 0 => Copied < f + sched.stages

(* The commands of a step, the last being its commit; the notifications    *)
(* stand behind the last step.                                             *)
PerStep == sched.mmas + 1
Command(k, i) ==
    IF k = sched.trips THEN [kind |-> "done", mma |-> i, stage |-> 0, operand |-> << >>]
    ELSE IF i <= sched.mmas
        THEN [kind |-> "mma", mma |-> i, stage |-> StageOf(k), operand |-> <<Tile, k>>]
        ELSE [kind |-> "free", mma |-> 0, stage |-> StageOf(k), operand |-> << >>]
Standing(k, i) == k < Issued \/ (k = sched.trips /\ Issued = sched.trips /\ i <= sched.mmas)

Queued(f, o) ==
    /\ Len(queue) = (Issued - f) * PerStep - o + (IF Issued = sched.trips THEN sched.mmas ELSE 0)
    /\ \A p \in 1..Len(queue) : \E k \in f..sched.trips, i \in 1..PerStep :
          /\ p = (k - f) * PerStep + i - o
          /\ Standing(k, i) /\ queue[p] = Command(k, i)

Drained(f) ==
    /\ pc[Issue] = "ring" => \A stage \in 0..(issuing.drained - 1) : FinalStep(stage) < f
    /\ pc[Issue] # "ring" => f = sched.trips

(* The copies announced on a stage, those issued so far, what they leave.  *)
Transfer(k, l) == [stage |-> StageOf(k), load |-> l, operand |-> <<Tile, k>>]
Started(k, l) == k < Copied \/ (k = Copied /\ l < copying.load)
Announced(k) == {c \in inflight : c.stage = StageOf(k)}

Copies ==
    /\ IsFiniteSet(inflight)
    /\ \A c \in inflight : \E k \in Issued..Copied, l \in Loads :
          k < sched.trips /\ Started(k, l) /\ c = Transfer(k, l)

Held(f) ==
    \A k \in f..Copied, l \in Loads : Started(k, l) =>
        Transfer(k, l) \in inflight \/ smem[StageOf(k)][l] = <<Tile, k>>

Window(f) == f..(f + sched.stages - 1)
Filling(k) == k = Copied /\ copying.load > 0
Full(k) == k < Copied /\ Announced(k) = {}

FreeFor(k) == [live |-> TRUE, count |-> 1, pending |-> 1, tx |-> 0, phase |-> Parity(k)]
ReadyFor(k) ==
    [live |-> TRUE, count |-> Fills,
     pending |-> IF Filling(k) THEN Fills - copying.load + 1
                 ELSE IF Announced(k) # {} THEN 0 ELSE Fills,
     tx |-> Cardinality(Announced(k)),
     phase |-> IF Full(k) THEN 1 - Parity(k) ELSE Parity(k)]
Ring(f) ==
    \A k \in Window(f) :
        free[StageOf(k)] = FreeFor(k) /\ ready[StageOf(k)] = ReadyFor(k)

Contributions(t, count) == [i \in 1..count |-> {<<t, i - 1>>}]
Executed(f, o, m) == IF f < sched.trips /\ m <= o THEN f + 1 ELSE f
Accumulators(f, o) ==
    \A m \in Mmas :
        /\ Executed(f, o, m) > 0 => acc[m] = Contributions(Tile, Executed(f, o, m))
        /\ done[m] = [live |-> TRUE, count |-> 1, pending |-> 1, tx |-> 0,
                      phase |-> IF f = sched.trips /\ m <= o THEN 1 ELSE 0]

Readouts(o) ==
    \A w \in Readers :
        /\ pc[w] = "readout" => /\ reading[w].mma <= o + 1
                                /\ reading[w].waited => reading[w].mma <= o
        /\ pc[w] = "syncTile" => o = sched.mmas

FlowAt(f, o) ==
    /\ Ordered(f) /\ Queued(f, o) /\ Drained(f) /\ Copies /\ Held(f)
    /\ Ringing => Ring(f)
    /\ Accumulators(f, o) /\ Readouts(o)
Flow == Ringing \/ Reading => \E f \in 0..sched.trips, o \in 0..sched.mmas : FlowAt(f, o)

-------------------------------------------------------------------------------
(* What the readout warps have read. *)
Taken(w) ==
    IF pc[w] = "readout" THEN 1..(reading[w].mma - 1)
    ELSE IF pc[w] \in {"syncTile", "close", "syncClose", "syncLast", "dealloc", "end"} THEN Mmas
    ELSE {}
Before(t) == IF t = 1 THEN << >> ELSE Product(t - 1)
Outputs ==
    \A w \in Readers, m \in Mmas :
        out[w][m] = IF m \in Taken(w) THEN Product(Tile) ELSE Before(Tile)

IInv ==
    /\ TypeOK /\ Shaped /\ Lockstep /\ Roles /\ Allocated /\ Idle /\ Opened /\ Flow /\ Outputs

-------------------------------------------------------------------------------
(* Laps of the ring *)

LEMMA Division ==
    ASSUME NEW s \in Nat \ {0}, NEW k \in Nat
    PROVE  /\ k \div s \in Nat /\ k % s \in 0..(s - 1)
           /\ k = (k \div s) * s + (k % s)
  <1>1. k \div s \in Nat /\ (k \div s) * s <= k /\ k < (k \div s) * s + s
    BY SMT
  <1>2. k % s \in 0..(s - 1)
    BY SMT
  <1>3. k = (k \div s) * s + (k % s)
    BY SMT
  <1> QED
    BY <1>1, <1>2, <1>3

LEMMA Quotient ==
    ASSUME NEW s \in Nat \ {0}, NEW k \in Nat, NEW q \in Nat, NEW r \in 0..(s - 1),
           k = q * s + r
    PROVE  k \div s = q /\ k % s = r
  <1>1. k \div s \in Nat /\ k % s \in 0..(s - 1) /\ k = (k \div s) * s + (k % s)
    BY Division
  <1>2. ASSUME NEW d \in Nat, NEW e \in 0..(s - 1), k = d * s + e
        PROVE  d = q
    <2>1. d < q => d * s + s <= q * s
      BY SMT
    <2>2. q < d => q * s + s <= d * s
      BY SMT
    <2> QED
      BY <1>2, <2>1, <2>2, SMT
  <1>3. k \div s = q
    BY <1>1, <1>2
  <1> QED
    BY <1>1, <1>3, SMT

(* One lap later the stage is the same and the parity is not.              *)
LEMMA NextLap ==
    ASSUME NEW s \in Nat \ {0}, NEW k \in Nat
    PROVE  /\ (k + s) % s = k % s /\ (k + s) \div s = k \div s + 1
           /\ (k \div s) % 2 \in {0, 1} /\ ((k + s) \div s) % 2 = 1 - ((k \div s) % 2)
  <1>1. k \div s \in Nat /\ k % s \in 0..(s - 1) /\ k = (k \div s) * s + (k % s)
    BY Division
  <1>2. k + s = (k \div s + 1) * s + (k % s)
    BY <1>1, SMT
  <1>3. k + s \in Nat /\ k \div s + 1 \in Nat
    BY <1>1, SMT
  <1>4. (k + s) % s = k % s /\ (k + s) \div s = k \div s + 1
    BY <1>1, <1>2, <1>3, Quotient
  <1>5. \A q \in Nat : q % 2 \in {0, 1} /\ (q + 1) % 2 = 1 - (q % 2)
    BY SMT
  <1> QED
    BY <1>1, <1>4, <1>5

(* Steps less than a lap apart are in different stages...                  *)
LEMMA SameStage ==
    ASSUME NEW s \in Nat \ {0}, NEW k \in Nat, NEW j \in Nat,
           k <= j, j < k + s, k % s = j % s
    PROVE  j = k
  <1>1. k \div s \in Nat /\ k % s \in 0..(s - 1) /\ k = (k \div s) * s + (k % s)
    BY Division
  <1>2. j \div s \in Nat /\ j % s \in 0..(s - 1) /\ j = (j \div s) * s + (j % s)
    BY Division
  <1>3. k \div s < j \div s => (k \div s) * s + s <= (j \div s) * s
    BY <1>1, <1>2, SMT
  <1>4. j \div s < k \div s => (j \div s) * s + s <= (k \div s) * s
    BY <1>1, <1>2, SMT
  <1> QED
    BY <1>1, <1>2, <1>3, <1>4, SMT

(* ... and every stage has a step in a lap.                                *)
LEMMA EveryStage ==
    ASSUME NEW s \in Nat \ {0}, NEW f \in Nat, NEW stage \in 0..(s - 1)
    PROVE  \E k \in f..(f + s - 1) : k % s = stage
  <1> DEFINE q == f \div s
             r == f % s
  <1>1. q \in Nat /\ r \in 0..(s - 1) /\ f = q * s + r
    BY Division
  <1> HIDE DEF q, r
  <1>2. CASE r <= stage
    <2>1. q * s + stage \in f..(f + s - 1)
      BY <1>1, <1>2, SMT
    <2>2. (q * s + stage) % s = stage
      BY <1>1, <2>1, Quotient
    <2> QED
      BY <2>1, <2>2
  <1>3. CASE stage < r
    <2>1. (q + 1) * s + stage \in f..(f + s - 1)
      BY <1>1, <1>3, SMT
    <2>2. ((q + 1) * s + stage) % s = stage
      BY <1>1, <2>1, Quotient
    <2> QED
      BY <2>1, <2>2
  <1> QED
    BY <1>1, <1>2, <1>3

(* The last step a stage serves lies in the last lap.                      *)
LEMMA LastLap ==
    ASSUME NEW s \in Nat \ {0}, NEW trips \in Nat \ {0}, NEW stage \in 0..(s - 1),
           stage < trips, NEW last, last = stage + ((trips - 1 - stage) \div s) * s
    PROVE  /\ last \in 0..(trips - 1) /\ last % s = stage
           /\ trips <= last + s
           /\ stage = (trips - 1) % s => last = trips - 1
  <1> DEFINE q == (trips - 1 - stage) \div s
             r == (trips - 1 - stage) % s
  <1>. trips - 1 - stage \in Nat
    BY SMT
  <1>1. q \in Nat /\ r \in 0..(s - 1) /\ trips - 1 - stage = q * s + r
    BY Division
  <1>2. last = q * s + stage
    BY <1>1, SMT
  <1> HIDE DEF q, r
  <1>3. q * s \in Nat
    BY <1>1, SMT
  <1>4. last \in 0..(trips - 1) /\ trips <= last + s
    BY <1>1, <1>2, <1>3, SMT
  <1>5. last % s = stage
    BY <1>1, <1>2, <1>4, Quotient
  <1>6. last \in Nat /\ trips - 1 \in Nat /\ last <= trips - 1 /\ trips - 1 < last + s
    BY <1>4, SMT
  <1>7. last % s = (trips - 1) % s => trips - 1 = last
    BY <1>6, SameStage
  <1> QED
    BY <1>4, <1>5, <1>7

-------------------------------------------------------------------------------
(* What an admitted Schedule gives *)

LEMMA Sizes ==
    ASSUME sched \in Schedules
    PROVE  /\ sched.stages \in Nat \ {0} /\ sched.trips \in Nat \ {0}
           /\ sched.tiles \in Nat \ {0} /\ sched.mmas \in Nat \ {0}
           /\ sched.movements \in Seq({"tma", "global"})
           /\ Len(sched.movements) \in Nat \ {0}
           /\ sched.leader \in Warps /\ sched.owner \in Warps
           /\ sched.trips = 1 => sched.tiles = 1
  <1>1. Admitted(sched)
    BY ConstantsAssumption
  <1>2. \A q \in Seq({"tma", "global"}) : q # << >> => Len(q) \in Nat \ {0}
    BY EmptySeq, LenProperties
  <1> QED
    BY <1>1, <1>2 DEF Admitted

LEMMA Cast ==
    /\ Copy \in Warps /\ Issue \in Warps /\ Readers \subseteq Warps /\ Copy # Issue
    /\ Copy \notin Readers /\ Issue \notin Readers /\ Readers # {}
  BY ConstantsAssumption DEF Warps

LEMMA StageOfStep ==
    ASSUME sched \in Schedules, NEW k \in Nat
    PROVE  /\ StageOf(k) \in Stages /\ Parity(k) \in {0, 1}
           /\ StageOf(k + sched.stages) = StageOf(k)
           /\ Parity(k + sched.stages) = 1 - Parity(k)
  <1>1. sched.stages \in Nat \ {0}
    BY Sizes
  <1>2. k % sched.stages \in 0..(sched.stages - 1)
    BY <1>1, Division
  <1>3. /\ (k + sched.stages) % sched.stages = k % sched.stages
        /\ (k \div sched.stages) % 2 \in {0, 1}
        /\ ((k + sched.stages) \div sched.stages) % 2 = 1 - ((k \div sched.stages) % 2)
    BY <1>1, NextLap
  <1> QED
    BY <1>2, <1>3 DEF StageOf, Parity, Stages

LEMMA WindowSteps ==
    ASSUME sched \in Schedules, NEW f \in Nat
    PROVE  /\ \A j, k \in Window(f) : StageOf(j) = StageOf(k) => j = k
           /\ \A stage \in Stages : \E k \in Window(f) : StageOf(k) = stage
           /\ f \in Window(f) /\ Window(f) \subseteq Nat
  <1>1. sched.stages \in Nat \ {0}
    BY Sizes
  <1>2. \A stage \in Stages : \E k \in Window(f) : StageOf(k) = stage
    BY <1>1, EveryStage DEF Window, Stages, StageOf
  <1>3. ASSUME NEW j \in Window(f), NEW k \in Window(f), j <= k, StageOf(j) = StageOf(k)
        PROVE  j = k
    <2>1. j \in Nat /\ k \in Nat /\ k < j + sched.stages
      BY <1>1, <1>3 DEF Window
    <2> QED
      BY <1>1, <1>3, <2>1, SameStage DEF StageOf
  <1>4. \A j, k \in Window(f) : j <= k \/ k <= j
    BY <1>1 DEF Window
  <1>5. f \in Window(f) /\ Window(f) \subseteq Nat
    BY <1>1 DEF Window
  <1> QED
    BY <1>2, <1>3, <1>4, <1>5

(* The drain waits for the last step of every stage that was used, and so  *)
(* for the last step of all.                                               *)
LEMMA DrainWaits ==
    ASSUME sched \in Schedules
    PROVE  /\ DrainedStages \in Nat \ {0} /\ DrainedStages <= sched.stages
           /\ \A d \in 0..(DrainedStages - 1) :
                 /\ FinalStep(d) \in 0..(sched.trips - 1) /\ StageOf(FinalStep(d)) = d
                 /\ sched.trips <= FinalStep(d) + sched.stages
           /\ \E d \in 0..(DrainedStages - 1) : FinalStep(d) = sched.trips - 1
  <1>1. sched.stages \in Nat \ {0} /\ sched.trips \in Nat \ {0}
    BY Sizes
  <1>2. /\ DrainedStages \in {sched.stages, sched.trips}
        /\ DrainedStages <= sched.stages /\ DrainedStages <= sched.trips
    <2>1. \E m \in {sched.stages, sched.trips} :
             \A y \in {sched.stages, sched.trips} : m <= y
      BY <1>1
    <2> QED
      BY <1>1, <2>1 DEF DrainedStages, Min
  <1>3. ASSUME NEW d \in 0..(DrainedStages - 1)
        PROVE  /\ FinalStep(d) \in 0..(sched.trips - 1) /\ StageOf(FinalStep(d)) = d
               /\ sched.trips <= FinalStep(d) + sched.stages
               /\ d = (sched.trips - 1) % sched.stages => FinalStep(d) = sched.trips - 1
    <2>1. d \in 0..(sched.stages - 1) /\ d < sched.trips
      BY <1>1, <1>2
    <2>2. FinalStep(d) = d + ((sched.trips - 1 - d) \div sched.stages) * sched.stages
      BY DEF FinalStep
    <2> QED
      BY <1>1, <2>1, <2>2, LastLap DEF StageOf
  <1>4. (sched.trips - 1) % sched.stages \in 0..(DrainedStages - 1)
    <2>1. sched.trips - 1 \in Nat
      BY <1>1
    <2>2. (sched.trips - 1) % sched.stages \in 0..(sched.stages - 1)
      BY <1>1, <2>1, Division
    <2>3. /\ (sched.trips - 1) \div sched.stages \in Nat
          /\ sched.trips - 1 = ((sched.trips - 1) \div sched.stages) * sched.stages
                               + ((sched.trips - 1) % sched.stages)
      BY <1>1, <2>1, Division
    <2>4. ((sched.trips - 1) \div sched.stages) * sched.stages \in Nat
      BY <1>1, <2>3
    <2> DEFINE r == (sched.trips - 1) % sched.stages
               b == ((sched.trips - 1) \div sched.stages) * sched.stages
    <2>5. r \in 0..(sched.stages - 1) /\ b \in Nat /\ sched.trips - 1 = b + r
      BY <2>2, <2>3, <2>4
    <2> HIDE DEF r, b
    <2>6. r <= sched.trips - 1
      BY <1>1, <2>5
    <2>7. r \in 0..(DrainedStages - 1)
      BY <1>1, <1>2, <2>5, <2>6
    <2> QED
      BY <2>7 DEF r
  <1> QED
    BY <1>1, <1>2, <1>3, <1>4

-------------------------------------------------------------------------------
(* How the warps move *)

Straight == sched.readoutFirst = FALSE

Follows(from, to) ==
    \/ from = "alloc" /\ to = "syncAlloc"
    \/ from = "setup" /\ to = "syncSetup"
    \/ from = "ring" /\ to = "syncRing"
    \/ from = "inval" /\ to \in {"readout", "syncTile"}
    \/ from = "readout" /\ to = "syncTile"
    \/ from = "close" /\ to = "syncClose"
    \/ from = "dealloc" /\ to = "end"

LEMMA StepMoves ==
    ASSUME TypeOK, Straight, NEW w \in Warps, Step(w)
    PROVE  /\ sched' = sched /\ tile' = tile
           /\ \/ pc' = pc
              \/ \E segment :
                    /\ pc' = [pc EXCEPT ![w] = segment] /\ Follows(pc[w], segment)
                    /\ segment = "readout" => w \in Readers
  <1>1. CASE Alloc(w)
    <2>1. pc[w] = "alloc" /\ pc' = [pc EXCEPT ![w] = "syncAlloc"] /\ sched' = sched /\ tile' = tile
      BY <1>1 DEF Alloc, Goto
    <2>2. Follows(pc[w], "syncAlloc") /\ "syncAlloc" # "readout"
      BY <2>1 DEF Follows
    <2> QED
      BY <2>1, <2>2
  <1>2. CASE Setup(w)
    <2>1. pc[w] = "setup" /\ pc' = [pc EXCEPT ![w] = "syncSetup"] /\ sched' = sched /\ tile' = tile
      BY <1>2 DEF Setup, Goto
    <2>2. Follows(pc[w], "syncSetup") /\ "syncSetup" # "readout"
      BY <2>1 DEF Follows
    <2> QED
      BY <2>1, <2>2
  <1>3. CASE AwaitFree(w)
    BY <1>3 DEF AwaitFree
  <1>4. CASE LoadTma(w)
    BY <1>4 DEF LoadTma, NextLoad, Goto, Follows
  <1>5. CASE LoadGlobal(w)
    BY <1>5 DEF LoadGlobal, NextLoad, Goto, Follows
  <1>6. CASE IssueStep(w)
    BY <1>6 DEF IssueStep
  <1>7. CASE Drain(w)
    BY <1>7 DEF Drain, Goto, Follows
  <1>8. CASE InvalidateRing(w)
    <2>1. /\ pc[w] = "inval" /\ pc' = [pc EXCEPT ![w] = ToRingEnd(w)]
          /\ sched' = sched /\ tile' = tile
      BY <1>8 DEF InvalidateRing, Goto
    <2>2. ToRingEnd(w) = "syncTile" \/ (ToRingEnd(w) = "readout" /\ w \in Readers)
      BY DEF ToRingEnd, ToReadout, ToClosing, Straight
    <2> QED
      BY <2>1, <2>2 DEF Follows
  <1>9. CASE AwaitDone(w)
    BY <1>9 DEF AwaitDone
  <1>10. CASE ReadTmem(w)
    BY <1>10 DEF ReadTmem, Goto, Follows, AfterReadout, ToClosing, Straight
  <1>11. CASE InvalidateCompletions(w)
    <2>1. pc[w] = "close" /\ pc' = [pc EXCEPT ![w] = "syncClose"] /\ sched' = sched /\ tile' = tile
      BY <1>11 DEF InvalidateCompletions, Goto
    <2>2. Follows(pc[w], "syncClose") /\ "syncClose" # "readout"
      BY <2>1 DEF Follows
    <2> QED
      BY <2>1, <2>2
  <1>12. CASE Dealloc(w)
    <2>1. pc[w] = "dealloc" /\ pc' = [pc EXCEPT ![w] = "end"] /\ sched' = sched /\ tile' = tile
      BY <1>12 DEF Dealloc, Goto
    <2>2. Follows(pc[w], "end") /\ "end" # "readout"
      BY <2>1 DEF Follows
    <2> QED
      BY <2>1, <2>2
  <1> QED
    BY <1>1, <1>2, <1>3, <1>4, <1>5, <1>6, <1>7, <1>8, <1>9, <1>10, <1>11, <1>12 DEF Step

Segments == Rendezvous \union {"alloc", "setup", "ring", "inval", "readout", "close",
                               "dealloc", "end"}

LEMMA Apart ==
    /\ Allocating => pc[Copy] \in {"alloc", "syncAlloc"}
    /\ Opening => pc[Copy] \in {"setup", "syncSetup"}
    /\ Ringing => pc[Copy] \in {"ring", "syncRing"}
    /\ Reading => pc[Copy] \in {"inval", "readout", "syncTile"}
    /\ Closing => pc[Copy] \in {"close", "syncClose"}
    /\ Leaving => pc[Copy] = "syncLast"
    /\ Ending => pc[Copy] \in {"dealloc", "end"}
  BY Cast DEF Allocating, Opening, Ringing, Reading, Closing, Leaving, Ending, Among

(* A step between two rendezvous leaves the warps between them.            *)
LEMMA StepStaysBetween ==
    ASSUME TypeOK, Straight, Lockstep, Roles,
           Deliver \/ Execute \/ \E w \in Warps : Step(w)
    PROVE  /\ sched' = sched /\ tile' = tile /\ pc' \in [Warps -> Segments] /\ Straight'
           /\ Lockstep' /\ Roles' /\ Tile' = Tile
           /\ Allocating' <=> Allocating
           /\ Opening' <=> Opening
           /\ Ringing' <=> Ringing
           /\ Reading' <=> Reading
           /\ Closing' <=> Closing
           /\ Leaving' <=> Leaving
           /\ Ending' <=> Ending
  <1>1. /\ sched' = sched /\ tile' = tile
        /\ \/ pc' = pc
           \/ \E w \in Warps : \E segment :
                 /\ pc' = [pc EXCEPT ![w] = segment] /\ Follows(pc[w], segment)
                 /\ segment = "readout" => w \in Readers
    BY StepMoves DEF Deliver, Execute
  <1>2. pc \in [Warps -> Segments] /\ sched \in Schedules
    BY DEF TypeOK, Segments
  <1>3. Tile' = Tile /\ Straight'
    BY <1>1 DEF Tile, Straight
  <1>4. CASE pc' = pc
    BY <1>1, <1>2, <1>3, <1>4
       DEF Lockstep, Roles, Allocating, Opening, Ringing, Reading, Closing, Leaving, Ending, Among
  <1>5. ASSUME NEW w \in Warps, NEW segment,
               pc' = [pc EXCEPT ![w] = segment], Follows(pc[w], segment),
               segment = "readout" => w \in Readers
        PROVE  /\ pc' \in [Warps -> Segments] /\ Roles' /\ Lockstep'
               /\ Allocating' <=> Allocating
               /\ Opening' <=> Opening
               /\ Ringing' <=> Ringing
               /\ Reading' <=> Reading
               /\ Closing' <=> Closing
               /\ Leaving' <=> Leaving
               /\ Ending' <=> Ending
    <2>1. \A v \in Warps : pc'[v] = IF v = w THEN segment ELSE pc[v]
      BY <1>2, <1>5
    <2>2. segment \in Segments
      BY <1>5 DEF Follows, Segments, Rendezvous
    <2>3. pc' \in [Warps -> Segments]
      BY <1>2, <1>5, <2>2
    <2>4. Roles'
      <3> SUFFICES ASSUME NEW v \in Warps
                   PROVE  /\ pc'[v] \in {"alloc", "dealloc"} => v = sched.owner
                          /\ pc'[v] \in {"setup", "inval", "close"} => v = sched.leader
                          /\ pc'[v] = "ring" => v \in {Copy, Issue}
                          /\ pc'[v] = "readout" => v \in Readers
        BY <1>1 DEF Roles
      <3>1. CASE v # w
        BY <2>1, <3>1 DEF Roles
      <3>2. CASE v = w
        BY <1>5, <2>1, <3>2 DEF Follows
      <3> QED
        BY <3>1, <3>2
    <2>5. /\ Allocating => Allocating'
          /\ Opening => Opening'
          /\ Ringing => Ringing'
      BY <1>5, <2>1 DEF Allocating, Opening, Ringing, Among, Follows
    <2>6. /\ Reading => Reading'
          /\ Closing => Closing'
          /\ Leaving => Leaving'
          /\ Ending => Ending'
      BY <1>5, <2>1 DEF Reading, Closing, Leaving, Ending, Among, Follows
    <2>7. /\ Allocating' => pc'[Copy] \in {"alloc", "syncAlloc"}
          /\ Opening' => pc'[Copy] \in {"setup", "syncSetup"}
          /\ Ringing' => pc'[Copy] \in {"ring", "syncRing"}
          /\ Reading' => pc'[Copy] \in {"inval", "readout", "syncTile"}
          /\ Closing' => pc'[Copy] \in {"close", "syncClose"}
          /\ Leaving' => pc'[Copy] = "syncLast"
          /\ Ending' => pc'[Copy] \in {"dealloc", "end"}
      BY Cast DEF Allocating, Opening, Ringing, Reading, Closing, Leaving, Ending, Among
    <2>8. Allocating \/ Opening \/ Ringing \/ Reading \/ Closing \/ Leaving \/ Ending
      BY DEF Lockstep
    <2>9. /\ Allocating' <=> Allocating
          /\ Opening' <=> Opening
          /\ Ringing' <=> Ringing
          /\ Reading' <=> Reading
          /\ Closing' <=> Closing
          /\ Leaving' <=> Leaving
          /\ Ending' <=> Ending
      BY <2>5, <2>6, <2>7, <2>8
    <2>10. Lockstep'
      BY <1>1, <1>3, <2>9 DEF Lockstep
    <2> QED
      BY <2>3, <2>4, <2>9, <2>10
  <1> QED
    BY <1>1, <1>2, <1>3, <1>4, <1>5

(* A rendezvous: all warps are at the same one, and pass to the segments   *)
(* behind it.                                                              *)
Passes ==
    \/ Among({"syncAlloc"}) /\ Opening' /\ Tile' = Tile /\ pc'[sched.leader] = "setup"
    \/ /\ Among({"syncSetup"}) /\ Ringing' /\ Tile' = Tile
       /\ pc'[Copy] = "ring" /\ pc'[Issue] = "ring"
    \/ /\ Among({"syncRing"}) /\ Reading' /\ Tile' = Tile
       /\ \A w \in Readers : pc'[w] \in {"inval", "readout"}
    \/ Among({"syncTile"}) /\ Closing' /\ Tile' = Tile /\ pc'[sched.leader] = "close"
    \/ Among({"syncClose"}) /\ Opening' /\ Tile' = Tile + 1 /\ pc'[sched.leader] = "setup"
    \/ (Among({"syncClose"}) \/ Among({"syncLast"})) /\ (Leaving' \/ Ending') /\ Tile' = Tile

LEMMA RendezvousPasses ==
    ASSUME TypeOK, Straight, Lockstep, Roles, Syncthreads
    PROVE  /\ sched' = sched /\ Straight' /\ pc' \in [Warps -> Segments]
           /\ tile' \in [Warps -> 1..sched.tiles]
           /\ Lockstep' /\ Roles' /\ Passes
  <1>1. /\ sched' = sched /\ Straight' /\ sched.tiles \in Nat \ {0} /\ sched.leader \in Warps
        /\ pc \in [Warps -> Segments] /\ tile \in [Warps -> 1..sched.tiles] /\ Tile \in 1..sched.tiles
        /\ sched.owner \in Warps
    BY Sizes DEF Syncthreads, Straight, TypeOK, Segments, Tile
  <1>2. /\ \A w \in Warps : pc[w] \in Rendezvous /\ pc'[w] = Beyond(w)
        /\ \A w \in Warps : tile'[w] = IF pc[w] = "syncClose" /\ Tile < sched.tiles
                                          THEN Tile + 1 ELSE Tile
        /\ pc' = [w \in Warps |-> Beyond(w)] /\ tile' = [w \in Warps |-> tile'[w]]
    BY DEF Syncthreads, MoreTiles, Lockstep
  <1>3. \E s \in Rendezvous : Among({s})
    <2>1. Allocating => Among({"syncAlloc"})
      BY <1>2 DEF Allocating, Among, Rendezvous
    <2>2. Opening => Among({"syncSetup"})
      BY <1>2 DEF Opening, Among, Rendezvous
    <2>3. Ringing => Among({"syncRing"})
      BY <1>2 DEF Ringing, Among, Rendezvous
    <2>4. Reading => Among({"syncTile"})
      BY <1>2 DEF Reading, Among, Rendezvous
    <2>5. Closing => Among({"syncClose"})
      BY <1>2 DEF Closing, Among, Rendezvous
    <2>6. Leaving => Among({"syncLast"})
      BY DEF Leaving
    <2>7. Ending => FALSE
      BY <1>2, Cast DEF Ending, Among, Rendezvous
    <2> QED
      BY <2>1, <2>2, <2>3, <2>4, <2>5, <2>6, <2>7 DEF Lockstep, Rendezvous
  <1>4. /\ tile' \in [Warps -> 1..sched.tiles]
        /\ Among({"syncClose"}) /\ Tile < sched.tiles => \A w \in Warps : tile'[w] = Tile + 1
        /\ ~(Among({"syncClose"}) /\ Tile < sched.tiles) => \A w \in Warps : tile'[w] = Tile
    <2>1. \A w \in Warps : tile'[w] \in 1..sched.tiles
      BY <1>1, <1>2
    <2>2. \A w \in Warps : Among({"syncClose"}) <=> pc[w] = "syncClose"
      BY <1>3 DEF Among
    <2> QED
      BY <1>2, <2>1, <2>2
  <1>5. Tile' = tile'[sched.leader]
    BY <1>1 DEF Tile
  <1>6. CASE Among({"syncAlloc"})
    <2>1. \A w \in Warps : pc'[w] = IF w = sched.leader THEN "setup" ELSE "syncSetup"
      BY <1>2, <1>6 DEF Among, Beyond, ToTile, ToSetup, Straight
    <2>2. Opening' /\ pc'[sched.leader] = "setup"
      BY <1>1, <2>1 DEF Opening, Among
    <2>3. \A w \in Warps : tile'[w] = Tile
      BY <1>4, <1>6, Cast DEF Among
    <2> QED
      BY <1>1, <1>2, <1>4, <1>5, <1>6, <2>1, <2>2, <2>3, Cast
         DEF Passes, Lockstep, Roles, Segments, Rendezvous, Allocating, Leaving, Ending, Among, Opening
  <1>7. CASE Among({"syncSetup"})
    <2>1. \A w \in Warps : pc'[w] = IF w \in {Copy, Issue} THEN "ring" ELSE "syncRing"
      BY <1>2, <1>7 DEF Among, Beyond, ToRing
    <2>2. Ringing' /\ pc'[Copy] = "ring" /\ pc'[Issue] = "ring"
      BY <2>1, Cast DEF Ringing, Among
    <2>3. \A w \in Warps : tile'[w] = Tile
      BY <1>4, <1>7, Cast DEF Among
    <2> QED
      BY <1>1, <1>2, <1>4, <1>5, <1>7, <2>1, <2>2, <2>3, Cast
         DEF Passes, Lockstep, Roles, Segments, Rendezvous, Allocating, Leaving, Ending, Among
  <1>8. CASE Among({"syncRing"})
    <2>1. /\ \A w \in Warps : pc'[w] = IF w = sched.leader THEN "inval"
                                       ELSE IF w \in Readers THEN "readout" ELSE "syncTile"
      BY <1>2, <1>8 DEF Among, Beyond, ToInval, ToRingEnd, ToReadout, ToClosing, Straight
    <2>2. Reading' /\ \A w \in Readers : pc'[w] \in {"inval", "readout"}
      BY <2>1, Cast DEF Reading, Among
    <2>3. \A w \in Warps : tile'[w] = Tile
      BY <1>4, <1>8, Cast DEF Among
    <2> QED
      BY <1>1, <1>2, <1>4, <1>5, <1>8, <2>1, <2>2, <2>3, Cast
         DEF Passes, Lockstep, Roles, Segments, Rendezvous, Allocating, Leaving, Ending, Among
  <1>9. CASE Among({"syncTile"})
    <2>1. \A w \in Warps : pc'[w] = IF w = sched.leader THEN "close" ELSE "syncClose"
      BY <1>2, <1>9 DEF Among, Beyond, ToClose
    <2>2. Closing' /\ pc'[sched.leader] = "close"
      BY <1>1, <2>1 DEF Closing, Among
    <2>3. \A w \in Warps : tile'[w] = Tile
      BY <1>4, <1>9, Cast DEF Among
    <2> QED
      BY <1>1, <1>2, <1>4, <1>5, <1>9, <2>1, <2>2, <2>3, Cast
         DEF Passes, Lockstep, Roles, Segments, Rendezvous, Allocating, Leaving, Ending, Among
  <1>10. CASE Among({"syncClose"}) /\ Tile < sched.tiles
    <2>1. \A w \in Warps : pc'[w] = IF w = sched.leader THEN "setup" ELSE "syncSetup"
      BY <1>2, <1>10 DEF Among, Beyond, ToTile, ToSetup, Straight, MoreTiles, Lockstep
    <2>2. Opening' /\ pc'[sched.leader] = "setup"
      BY <1>1, <2>1 DEF Opening, Among
    <2>3. \A w \in Warps : tile'[w] = Tile + 1
      BY <1>4, <1>10
    <2> QED
      BY <1>1, <1>2, <1>4, <1>5, <1>10, <2>1, <2>2, <2>3, Cast
         DEF Passes, Lockstep, Roles, Segments, Rendezvous, Allocating, Leaving, Ending, Among, Opening
  <1>11. CASE (Among({"syncClose"}) /\ ~(Tile < sched.tiles)) \/ Among({"syncLast"})
    <2>1. \/ \A w \in Warps : pc'[w] = "syncLast"
          \/ \A w \in Warps : pc'[w] = IF w = sched.owner THEN "dealloc" ELSE "end"
      BY <1>2, <1>11 DEF Among, Beyond, ToEnd, MoreTiles, Lockstep
    <2>2. Leaving' \/ Ending'
      BY <2>1 DEF Leaving, Ending, Among
    <2>3. \A w \in Warps : tile'[w] = Tile
      BY <1>4, <1>11, Cast DEF Among
    <2>4. Tile = sched.tiles
      <3>1. CASE Among({"syncClose"}) /\ ~(Tile < sched.tiles)
        BY <1>1, <3>1
      <3>2. CASE Among({"syncLast"})
        BY <3>2 DEF Lockstep, Leaving
      <3> QED
        BY <1>11, <3>1, <3>2
    <2>5. Lockstep'
      BY <1>1, <1>5, <2>1, <2>2, <2>3, <2>4, Cast
         DEF Lockstep, Allocating, Leaving, Ending, Among
    <2>6. Roles' /\ pc' \in [Warps -> Segments]
      BY <1>1, <1>2, <2>1 DEF Roles, Segments, Rendezvous
    <2>7. Passes
      BY <1>1, <1>5, <1>11, <2>2, <2>3 DEF Passes
    <2> QED
      BY <1>1, <1>4, <2>5, <2>6, <2>7
  <1> QED
    BY <1>3, <1>6, <1>7, <1>8, <1>9, <1>10, <1>11 DEF Rendezvous

LEMMA ApartNext ==
    /\ Allocating' => pc'[Copy] \in {"alloc", "syncAlloc"}
    /\ Opening' => pc'[Copy] \in {"setup", "syncSetup"}
    /\ Ringing' => pc'[Copy] \in {"ring", "syncRing"}
    /\ Reading' => pc'[Copy] \in {"inval", "readout", "syncTile"}
    /\ Closing' => pc'[Copy] \in {"close", "syncClose"}
    /\ Leaving' => pc'[Copy] = "syncLast"
    /\ Ending' => pc'[Copy] \in {"dealloc", "end"}
  BY Cast DEF Allocating, Opening, Ringing, Reading, Closing, Leaving, Ending, Among

(* The segment of one warp tells where all of them are.                    *)
LEMMA WhereAll ==
    ASSUME Lockstep, NEW w \in Warps
    PROVE  /\ pc[w] \in {"alloc", "syncAlloc"} => Allocating
           /\ pc[w] \in {"setup", "syncSetup"} => Opening
           /\ pc[w] \in {"ring", "syncRing"} => Ringing
           /\ pc[w] \in {"inval", "readout", "syncTile"} => Reading
           /\ pc[w] \in {"close", "syncClose"} => Closing
           /\ pc[w] = "syncLast" => Leaving
           /\ pc[w] \in {"dealloc", "end"} => Ending
  BY DEF Lockstep, Allocating, Opening, Ringing, Reading, Closing, Leaving, Ending, Among

Counted ==
    /\ \A stage \in Stages : WithinCount(ready[stage]) /\ WithinCount(free[stage])
    /\ \A m \in Mmas : WithinCount(done[m])

Placed == TypeOK /\ Straight /\ Lockstep /\ Roles
Filled == Counted /\ Shaped /\ Allocated /\ Idle /\ Opened /\ Flow /\ Outputs

LEMMA InvariantOf ==
    ASSUME sched \in Schedules, pc \in [Warps -> Segments], tile \in [Warps -> 1..sched.tiles],
           tmem \in BOOLEAN, Lockstep, Roles, Filled
    PROVE  IInv
  <1>1. TypeOK
    BY DEF TypeOK, Filled, Shaped, Counted, Segments
  <1> QED
    BY <1>1 DEF IInv, Filled

LEMMA InvariantNext ==
    ASSUME sched' \in Schedules, pc' \in [Warps -> Segments],
           tile' \in [Warps -> 1..sched'.tiles],
           tmem' \in BOOLEAN, Lockstep', Roles', Filled'
    PROVE  IInv'
  <1>1. TypeOK'
    BY DEF TypeOK, Filled, Shaped, Counted, Segments
  <1> QED
    BY <1>1 DEF IInv, Filled

-------------------------------------------------------------------------------
(* The initial state *)

LEMMA KernelInit ==
    ASSUME ReadoutBehind, Init
    PROVE  IInv /\ Straight
  <1>1. /\ sched \in Schedules /\ sched.stages \in Nat \ {0} /\ sched.trips \in Nat \ {0}
        /\ sched.tiles \in Nat \ {0} /\ sched.mmas \in Nat \ {0}
        /\ Len(sched.movements) \in Nat \ {0}
        /\ sched.leader \in Warps /\ sched.owner \in Warps
    BY Sizes DEF Init
  <1>2. Straight
    <2>1. Admitted(sched) /\ ~sched.readoutFirst
      BY <1>1, ConstantsAssumption DEF ReadoutBehind
    <2> QED
      BY <2>1 DEF Admitted, Straight
  <1>3. Allocating /\ pc[Copy] # "ring" /\ pc[Issue] # "ring" /\ Tile = 1
    BY <1>1, Cast DEF Init, Allocating, Among, Tile
  <1>4. ~Opening /\ ~Ringing /\ ~Reading /\ ~Closing /\ ~Leaving /\ ~Ending
    BY <1>3, Apart
  <1>5. Lockstep /\ Roles
    BY <1>1, <1>3, <1>4 DEF Init, Lockstep, Roles, Tile
  <1>6. Counted
    BY DEF Counted, Init, WithinCount, Dead
  <1>7. Shaped
    <2>1. 0 \in 0..(DrainedStages - 1) /\ 0 \in 0..(sched.trips - 1)
      BY <1>1, DrainWaits
    <2>2. Dead \in Barrier
      BY DEF Dead, Barrier
    <2>3. 1 \in Mmas /\ << >> \in Seq(SUBSET Operands) /\ << >> \in Seq(Commands)
      BY <1>1 DEF Mmas
    <2>4. /\ ready \in [Stages -> Barrier] /\ free \in [Stages -> Barrier]
          /\ done \in [Mmas -> Barrier]
      BY <2>2 DEF Init
    <2>5. /\ smem \in [Stages -> [Loads -> Operands \union {<< >>}]]
          /\ acc \in [Mmas -> Seq(SUBSET Operands)]
          /\ queue \in Seq(Commands)
          /\ reading \in [Readers -> [mma : Mmas, waited : BOOLEAN]]
          /\ out \in [Readers -> [Mmas -> Seq(SUBSET Operands)]]
      BY <2>3 DEF Init
    <2>6. /\ copying \in [step : 0..(sched.trips - 1), load : 0..Len(sched.movements)]
          /\ issuing \in [step : 0..sched.trips, drained : 0..(DrainedStages - 1)]
      BY <1>1, <2>1 DEF Init
    <2> QED
      BY <2>4, <2>5, <2>6 DEF Shaped
  <1>8. Allocated
    BY <1>1, <1>4 DEF Allocated, Init
  <1>9. Idle
    BY DEF Idle, Init
  <1>10. Opened
    BY <1>4 DEF Opened, Init
  <1>11. Flow
    BY <1>4 DEF Flow
  <1>12. Outputs
    <2> SUFFICES ASSUME NEW w \in Readers, NEW m \in Mmas
                 PROVE  out[w][m] = IF m \in Taken(w) THEN Product(Tile) ELSE Before(Tile)
      BY DEF Outputs
    <2>1. w \in Warps /\ out[w][m] = << >>
      BY Cast DEF Init
    <2>2. Taken(w) = {}
      BY <1>3, <2>1 DEF Taken, Allocating, Among
    <2> QED
      BY <1>3, <2>1, <2>2 DEF Before
  <1>13. /\ pc \in [Warps -> Segments] /\ tile \in [Warps -> 1..sched.tiles] /\ tmem \in BOOLEAN
    <2>1. "alloc" \in Segments /\ "syncAlloc" \in Segments /\ 1 \in 1..sched.tiles
      BY <1>1 DEF Segments, Rendezvous
    <2> QED
      BY <2>1 DEF Init
  <1>14. IInv
    BY <1>1, <1>5, <1>6, <1>7, <1>8, <1>9, <1>10, <1>11, <1>12, <1>13, InvariantOf DEF Filled
  <1> QED
    BY <1>2, <1>14

-------------------------------------------------------------------------------
(* The steps outside the contraction *)

LEMMA OutputsKept ==
    ASSUME Outputs, sched' = sched, Tile' = Tile, out' = out,
           \A w \in Readers : Taken(w)' = Taken(w)
    PROVE  Outputs'
  <1> SUFFICES ASSUME NEW w \in Readers, NEW m \in Mmas
               PROVE  out'[w][m] = (IF m \in Taken(w) THEN Product(Tile) ELSE Before(Tile))'
    BY DEF Outputs, Mmas
  <1>1. Product(Tile)' = Product(Tile) /\ Before(Tile)' = Before(Tile)
    BY DEF Product, Before
  <1> QED
    BY <1>1 DEF Outputs

(* Everything but the control, the barriers and the tensor memory.         *)
DataKept ==
    UNCHANGED <<smem, acc, copying, issuing, inflight, queue, reading, out>>

LEMMA QuietStep ==
    ASSUME TypeOK, Shaped, Idle, Flow, Outputs, Straight, Lockstep, Roles,
           NEW w \in Warps, Step(w), DataKept,
           ~Ringing, ~Reading,
           ready' \in [Stages -> Barrier], free' \in [Stages -> Barrier],
           done' \in [Mmas -> Barrier]
    PROVE  /\ sched' = sched /\ tile' = tile /\ pc' \in [Warps -> Segments]
           /\ Lockstep' /\ Roles' /\ Straight'
           /\ Shaped' /\ Idle' /\ Flow' /\ Outputs'
  <1>1. /\ sched' = sched /\ tile' = tile /\ pc' \in [Warps -> Segments] /\ Straight'
        /\ Lockstep' /\ Roles' /\ Tile' = Tile
        /\ Ringing' <=> Ringing
        /\ Reading' <=> Reading
    BY StepStaysBetween
  <1>2. Shaped'
    BY <1>1 DEF Shaped, DataKept, Stages, Mmas, Loads, Operands, Commands, DrainedStages
  <1>3. \A v \in Warps : pc[v] \notin {"ring", "readout"} /\ pc'[v] \notin {"ring", "readout"}
    BY <1>1 DEF Roles, Lockstep, Ringing, Reading, Allocating, Opening, Closing, Leaving, Ending,
               Among
  <1>4. Idle'
    BY <1>1, <1>3, Cast DEF Idle, DataKept
  <1>5. Flow'
    BY <1>1 DEF Flow
  <1>6. ASSUME NEW v \in Readers
        PROVE  Taken(v)' = Taken(v)
    <2>1. \/ pc' = pc
          \/ \E segment : pc' = [pc EXCEPT ![w] = segment] /\ Follows(pc[w], segment)
      BY StepMoves
    <2>2. pc \in [Warps -> Segments] /\ v \in Warps
      BY Cast DEF TypeOK, Segments
    <2>3. CASE pc'[v] = pc[v]
      BY <1>1, <1>3, <2>2, <2>3 DEF Taken, Mmas
    <2>4. CASE pc'[v] # pc[v]
      <3>1. v = w /\ Follows(pc[v], pc'[v])
        BY <2>1, <2>2, <2>4
      <3>2. pc[v] \in {"alloc", "setup", "close", "dealloc"}
        BY <1>3, <2>2, <3>1, WhereAll DEF Follows
      <3> QED
        BY <1>1, <3>1, <3>2 DEF Follows, Taken, Mmas
    <2> QED
      BY <2>3, <2>4
  <1>7. Outputs'
    BY <1>1, <1>6, OutputsKept DEF DataKept
  <1> QED
    BY <1>1, <1>2, <1>4, <1>5, <1>7

LEMMA DeadBarriers ==
    /\ Dead \in Barrier /\ WithinCount(Dead) /\ ~Dead.live
    /\ \A n \in Nat \ {0} : Initialised(n) \in Barrier /\ WithinCount(Initialised(n))
                            /\ Initialised(n).live /\ Initialised(n).phase = 0
  BY DEF Dead, Barrier, WithinCount, Initialised

LEMMA AllocStep ==
    ASSUME IInv, Straight, NEW w \in Warps, Alloc(w)
    PROVE  IInv' /\ Straight'
  <1>1. Allocating /\ ~Ringing /\ ~Reading
    BY WhereAll, Apart DEF IInv, Alloc
  <1>2. DataKept /\ ready' = ready /\ free' = free /\ done' = done /\ tmem' = TRUE
    BY DEF Alloc, DataKept
  <1>3. /\ ready' \in [Stages -> Barrier] /\ free' \in [Stages -> Barrier]
        /\ done' \in [Mmas -> Barrier]
    BY <1>2 DEF IInv, Shaped
  <1>4. /\ sched' = sched /\ tile' = tile /\ pc' \in [Warps -> Segments]
        /\ Lockstep' /\ Roles' /\ Straight' /\ Shaped' /\ Idle' /\ Flow' /\ Outputs'
    BY <1>1, <1>2, <1>3, QuietStep DEF IInv, Step
  <1>5. Counted'
    BY <1>2, <1>4 DEF Counted, IInv, TypeOK, Stages, Mmas
  <1>6. Allocated'
    BY <1>2 DEF Allocated
  <1>7. Allocating'
    BY <1>1, <1>4, StepStaysBetween DEF IInv, Step
  <1>8. Opened'
    BY <1>1, <1>2, <1>4, <1>7, ApartNext DEF Opened, IInv, Mmas
  <1> QED
    BY <1>2, <1>4, <1>5, <1>6, <1>8, InvariantNext DEF IInv, TypeOK, Filled

LEMMA SetupStep ==
    ASSUME IInv, Straight, NEW w \in Warps, Setup(w)
    PROVE  IInv' /\ Straight'
  <1>1. Opening /\ ~Ringing /\ ~Reading /\ w = sched.leader
    BY WhereAll, Apart DEF IInv, Setup, Roles
  <1>2. /\ DataKept /\ tmem' = tmem /\ pc' = [pc EXCEPT ![w] = "syncSetup"]
        /\ ready' = [stage \in Stages |-> Initialised(Fills)]
        /\ free' = [stage \in Stages |-> Initialised(1)]
        /\ done' = [m \in Mmas |-> Initialised(1)]
    BY DEF Setup, DataKept, Goto
  <1>3. Fills \in Nat \ {0} /\ 1 \in Nat \ {0}
    BY Sizes DEF IInv, TypeOK, Fills
  <1>4. /\ ready' \in [Stages -> Barrier] /\ free' \in [Stages -> Barrier]
        /\ done' \in [Mmas -> Barrier]
    BY <1>2, <1>3, DeadBarriers
  <1>5. /\ sched' = sched /\ tile' = tile /\ pc' \in [Warps -> Segments]
        /\ Lockstep' /\ Roles' /\ Straight' /\ Shaped' /\ Idle' /\ Flow' /\ Outputs'
    BY <1>1, <1>2, <1>4, QuietStep DEF IInv, Step
  <1>6. Counted'
    BY <1>2, <1>3, <1>5, DeadBarriers DEF Counted, Stages, Mmas
  <1>7. Opening'
    BY <1>1, <1>5, StepStaysBetween DEF IInv, Step
  <1>8. Allocated'
    BY <1>1, <1>2, <1>7, ApartNext DEF Allocated, IInv
  <1>9. Opened'
    <2>1. pc'[sched'.leader] = "syncSetup"
      BY <1>1, <1>2, <1>5, Sizes DEF IInv, TypeOK
    <2>2. /\ \A stage \in Stages' : Fresh(ready'[stage], Fills') /\ Fresh(free'[stage], 1)
          /\ \A m \in Mmas' : Fresh(done'[m], 1)
      BY <1>2, <1>5 DEF Fresh, Stages, Mmas, Fills
    <2> QED
      BY <1>7, <2>1, <2>2, ApartNext DEF Opened, Fresh
  <1> QED
    BY <1>2, <1>5, <1>6, <1>8, <1>9, InvariantNext DEF IInv, TypeOK, Filled

LEMMA InvalidateCompletionsStep ==
    ASSUME IInv, Straight, NEW w \in Warps, InvalidateCompletions(w)
    PROVE  IInv' /\ Straight'
  <1>1. Closing /\ ~Ringing /\ ~Reading /\ w = sched.leader
    BY WhereAll, Apart DEF IInv, InvalidateCompletions, Roles
  <1>2. /\ DataKept /\ tmem' = tmem /\ pc' = [pc EXCEPT ![w] = "syncClose"]
        /\ ready' = ready /\ free' = free /\ done' = [m \in Mmas |-> Dead]
    BY DEF InvalidateCompletions, DataKept, Goto
  <1>3. /\ ready' \in [Stages -> Barrier] /\ free' \in [Stages -> Barrier]
        /\ done' \in [Mmas -> Barrier]
    BY <1>2, DeadBarriers DEF IInv, Shaped
  <1>4. /\ sched' = sched /\ tile' = tile /\ pc' \in [Warps -> Segments]
        /\ Lockstep' /\ Roles' /\ Straight' /\ Shaped' /\ Idle' /\ Flow' /\ Outputs'
    BY <1>1, <1>2, <1>3, QuietStep DEF IInv, Step
  <1>5. Counted'
    BY <1>2, <1>4, DeadBarriers DEF Counted, Stages, Mmas, IInv, TypeOK
  <1>6. Closing'
    BY <1>1, <1>4, StepStaysBetween DEF IInv, Step
  <1>7. Allocated'
    BY <1>1, <1>2, <1>6, ApartNext DEF Allocated, IInv
  <1>8. Opened'
    <2>1. pc'[sched'.leader] = "syncClose"
      BY <1>1, <1>2, <1>4, Sizes DEF IInv, TypeOK
    <2>2. \A m \in Mmas' : done'[m] = Dead
      BY <1>2, <1>4 DEF Mmas
    <2> QED
      BY <1>6, <2>1, <2>2, ApartNext DEF Opened
  <1> QED
    BY <1>2, <1>4, <1>5, <1>7, <1>8, InvariantNext DEF IInv, TypeOK, Filled

LEMMA DeallocStep ==
    ASSUME IInv, Straight, NEW w \in Warps, Dealloc(w)
    PROVE  IInv' /\ Straight'
  <1>1. Ending /\ ~Ringing /\ ~Reading
    BY WhereAll, Apart DEF IInv, Dealloc
  <1>2. DataKept /\ ready' = ready /\ free' = free /\ done' = done /\ tmem' = FALSE
    BY DEF Dealloc, DataKept
  <1>3. /\ ready' \in [Stages -> Barrier] /\ free' \in [Stages -> Barrier]
        /\ done' \in [Mmas -> Barrier]
    BY <1>2 DEF IInv, Shaped
  <1>4. /\ sched' = sched /\ tile' = tile /\ pc' \in [Warps -> Segments]
        /\ Lockstep' /\ Roles' /\ Straight' /\ Shaped' /\ Idle' /\ Flow' /\ Outputs'
    BY <1>1, <1>2, <1>3, QuietStep DEF IInv, Step
  <1>5. Counted'
    BY <1>2, <1>4 DEF Counted, IInv, TypeOK, Stages, Mmas
  <1>6. Ending'
    BY <1>1, <1>4, StepStaysBetween DEF IInv, Step
  <1>7. Allocated'
    BY <1>6, ApartNext DEF Allocated
  <1>8. Opened'
    BY <1>1, <1>2, <1>4, <1>6, ApartNext DEF Opened, IInv, Mmas
  <1> QED
    BY <1>2, <1>4, <1>5, <1>7, <1>8, InvariantNext DEF IInv, TypeOK, Filled

-------------------------------------------------------------------------------
(* A rendezvous *)

LEMMA FirstLap ==
    ASSUME sched \in Schedules, NEW k \in Window(0)
    PROVE  Parity(k) = 0
  <1>1. sched.stages \in Nat \ {0} /\ k \in 0..(sched.stages - 1)
    BY Sizes DEF Window
  <1>2. k = 0 * sched.stages + k
    BY <1>1
  <1>3. k \div sched.stages = 0
    BY <1>1, <1>2, Quotient
  <1> QED
    BY <1>3 DEF Parity

(* The ring opens with nothing executed...                                 *)
LEMMA RingOpens ==
    ASSUME IInv, Opening, pc[sched.leader] = "syncSetup", Ringing', DataKept,
           pc'[Copy] = "ring", pc'[Issue] = "ring", sched' = sched, Tile' = Tile,
           ready' = ready, free' = free, done' = done
    PROVE  FlowAt(0, 0)'
  <1>1. /\ sched.stages \in Nat \ {0} /\ sched.trips \in Nat \ {0} /\ sched.mmas \in Nat \ {0}
        /\ sched \in Schedules
    BY Sizes DEF IInv, TypeOK
  <1>2. ~Ringing /\ ~Reading /\ ~Reading' /\ pc[Copy] # "ring" /\ pc[Issue] # "ring"
    BY Apart, ApartNext, Cast DEF Opening, Among
  <1>3. /\ copying' = [step |-> 0, load |-> 0] /\ issuing' = [step |-> 0, drained |-> 0]
        /\ queue' = << >> /\ inflight' = {}
    BY <1>2 DEF IInv, Idle, DataKept
  <1>4. Copied' = 0 /\ Issued' = 0
    BY <1>3 DEF Copied, Issued
  <1>5. Ordered(0)'
    BY <1>1, <1>3, <1>4 DEF Ordered
  <1>6. Queued(0, 0)'
    <2>1. Len(queue') = 0 /\ PerStep' \in Nat /\ (0 - 0) * PerStep' = 0
      BY <1>1, <1>3 DEF PerStep
    <2> QED
      BY <1>1, <1>4, <2>1 DEF Queued
  <1>7. Drained(0)'
    BY <1>3 DEF Drained
  <1>8. Copies'
    BY <1>3, FS_EmptySet DEF Copies
  <1>9. Held(0)'
    BY <1>3, <1>4 DEF Held, Started, Loads
  <1>10. Ring(0)'
    <2> SUFFICES ASSUME NEW k \in Window(0)
                 PROVE  /\ free[StageOf(k)] = FreeFor(k)'
                        /\ ready[StageOf(k)] = ReadyFor(k)'
      BY DEF Ring, Window, StageOf
    <2>1. k \in Nat /\ Parity(k) = 0 /\ StageOf(k) \in Stages /\ 0 <= k
      BY <1>1, FirstLap, WindowSteps, StageOfStep
    <2>2. free[StageOf(k)] = Initialised(1) /\ ready[StageOf(k)] = Initialised(Fills)
      BY <2>1 DEF IInv, Opened, Fresh
    <2>3. Announced(k)' = {} /\ Cardinality({}) = 0
      BY <1>3, FS_EmptySet DEF Announced
    <2>4. ~Filling(k)' /\ ~Full(k)'
      BY <1>3, <1>4, <2>1 DEF Filling, Full
    <2>5. ReadyFor(k)' = [live |-> TRUE, count |-> Fills, pending |-> Fills, tx |-> 0,
                          phase |-> Parity(k)]
      BY <2>3, <2>4 DEF ReadyFor, Fills, Parity
    <2>6. FreeFor(k)' = [live |-> TRUE, count |-> 1, pending |-> 1, tx |-> 0,
                         phase |-> Parity(k)]
      BY DEF FreeFor, Parity
    <2> QED
      BY <2>1, <2>2, <2>5, <2>6 DEF Initialised
  <1>11. Accumulators(0, 0)'
    <2> SUFFICES ASSUME NEW m \in Mmas
                 PROVE  /\ ~(Executed(0, 0, m)' > 0)
                        /\ done[m] = [live |-> TRUE, count |-> 1, pending |-> 1, tx |-> 0,
                                      phase |-> IF 0 = sched.trips /\ m <= 0 THEN 1 ELSE 0]
      BY DEF Accumulators, Mmas
    <2>1. m \in Nat /\ ~(m <= 0) /\ 0 # sched.trips
      BY <1>1 DEF Mmas
    <2>2. done[m] = Initialised(1)
      BY DEF IInv, Opened, Fresh
    <2> QED
      BY <2>1, <2>2 DEF Executed, Initialised
  <1>12. Readouts(0)'
    BY Cast DEF Readouts, Ringing, Among
  <1> QED
    BY <1>5, <1>6, <1>7, <1>8, <1>9, <1>10, <1>11, <1>12 DEF FlowAt

(* ... and is left with every step executed and nothing under way.         *)
LEMMA RingCloses ==
    ASSUME IInv, Among({"syncRing"}), Reading', DataKept, sched' = sched, Tile' = Tile,
           ready' = ready, free' = free, done' = done,
           \A w \in Readers : pc'[w] \in {"inval", "readout"}
    PROVE  inflight = {} /\ \E f \in 0..sched.trips, o \in 0..sched.mmas : FlowAt(f, o)'
  <1>1. /\ sched.stages \in Nat \ {0} /\ sched.trips \in Nat \ {0} /\ sched.mmas \in Nat \ {0}
        /\ sched \in Schedules
    BY Sizes DEF IInv, TypeOK
  <1>2. Ringing /\ pc[Copy] = "syncRing" /\ pc[Issue] = "syncRing"
    BY Cast DEF Ringing, Among
  <1>3. PICK f \in 0..sched.trips, o \in 0..sched.mmas : FlowAt(f, o)
    BY <1>2 DEF IInv, Flow
  <1>4. f = sched.trips
    BY <1>2, <1>3 DEF FlowAt, Drained
  <1>5. Copied = sched.trips /\ Issued = sched.trips
    BY <1>2 DEF Copied, Issued
  <1>6. inflight = {}
    BY <1>1, <1>3, <1>5 DEF FlowAt, Copies
  <1>7. ~Ringing' /\ pc'[Copy] # "ring" /\ pc'[Issue] # "ring"
    BY ApartNext, Cast DEF Reading, Among
  <1>8. Copied' = Copied /\ Issued' = Issued
    BY <1>5, <1>7 DEF Copied, Issued
  <1>9. Ordered(f)'
    BY <1>3, <1>8 DEF FlowAt, Ordered, DataKept
  <1>10. Queued(f, o)'
    BY <1>3, <1>8 DEF FlowAt, Queued, DataKept, PerStep, Command, Standing, StageOf
  <1>11. Drained(f)'
    BY <1>4, <1>7 DEF Drained
  <1>12. Copies'
    BY <1>6, FS_EmptySet DEF Copies, DataKept
  <1>13. Held(f)'
    BY <1>3, <1>8 DEF FlowAt, Held, DataKept, Loads, Started, Transfer, StageOf
  <1>14. Accumulators(f, o)'
    BY <1>3 DEF FlowAt, Accumulators, DataKept, Executed, Contributions, Mmas
  <1>15. Readouts(o)'
    <2>1. ASSUME NEW w \in Readers
          PROVE  reading'[w] = [mma |-> 1, waited |-> FALSE]
      BY Cast DEF IInv, Idle, Among, DataKept
    <2> QED
      BY <1>1, <2>1 DEF Readouts
  <1>16. FlowAt(f, o)'
    BY <1>7, <1>9, <1>10, <1>11, <1>12, <1>13, <1>14, <1>15 DEF FlowAt
  <1> QED
    BY <1>6, <1>16

(* When all readouts of a tile are done nothing of it is queued.           *)
LEMMA TileCloses ==
    ASSUME IInv, Among({"syncTile"})
    PROVE  queue = << >> /\ inflight = {} /\ \A m \in Mmas : Completed(m)
  <1>1. sched.trips \in Nat \ {0} /\ sched.mmas \in Nat \ {0}
    BY Sizes DEF IInv, TypeOK
  <1>2. Reading /\ ~Ringing /\ pc[Issue] = "syncTile" /\ inflight = {}
    <2>1. Reading /\ pc[Issue] = "syncTile"
      BY Cast DEF Reading, Among
    <2> QED
      BY <2>1, Apart DEF IInv, Idle
  <1>3. PICK f \in 0..sched.trips, o \in 0..sched.mmas : FlowAt(f, o)
    BY <1>2 DEF IInv, Flow
  <1>4. f = sched.trips /\ Issued = sched.trips
    BY <1>2, <1>3 DEF FlowAt, Drained, Issued
  <1>5. o = sched.mmas
    BY <1>3, Cast DEF FlowAt, Readouts, Among
  <1>6. (Issued - f) * PerStep = 0
    BY <1>1, <1>4 DEF PerStep
  <1>7. Len(queue) = 0
    BY <1>1, <1>3, <1>4, <1>5, <1>6 DEF FlowAt, Queued
  <1>8. queue = << >>
    BY <1>7, EmptySeq DEF IInv, Shaped
  <1>9. \A m \in Mmas : Completed(m)
    <2> SUFFICES ASSUME NEW m \in Mmas
                 PROVE  Completed(m)
      OBVIOUS
    <2>1. m <= o
      BY <1>5 DEF Mmas
    <2>2. done[m] = [live |-> TRUE, count |-> 1, pending |-> 1, tx |-> 0,
                     phase |-> IF f = sched.trips /\ m <= o THEN 1 ELSE 0]
      BY <1>3 DEF FlowAt, Accumulators
    <2> QED
      BY <1>4, <2>1, <2>2 DEF Completed
  <1> QED
    BY <1>2, <1>8, <1>9

LEMMA RendezvousStep ==
    ASSUME IInv, Straight, Syncthreads
    PROVE  IInv' /\ Straight'
  <1>1. /\ sched' = sched /\ Straight' /\ pc' \in [Warps -> Segments]
        /\ tile' \in [Warps -> 1..sched.tiles] /\ Lockstep' /\ Roles' /\ Passes
    BY RendezvousPasses DEF IInv
  <1>2. DataKept /\ ready' = ready /\ free' = free /\ done' = done /\ tmem' = tmem
    BY DEF Syncthreads, DataKept
  <1>3. /\ sched \in Schedules /\ sched.leader \in Warps /\ sched.owner \in Warps
        /\ Tile \in 1..sched.tiles /\ sched.tiles \in Nat \ {0}
    BY Sizes DEF IInv, TypeOK, Tile
  <1>4. Counted'
    BY <1>1, <1>2 DEF Counted, IInv, TypeOK, Stages, Mmas
  <1>5. Shaped'
    BY <1>1, <1>2 DEF IInv, Shaped, DataKept, Stages, Mmas, Loads, Operands, Commands,
                      DrainedStages
  <1>6. /\ Copy \in Warps /\ Issue \in Warps /\ Readers \subseteq Warps
    BY Cast
  <1>7. ASSUME NEW S, Among(S), S \in {{"syncAlloc"}, {"syncSetup"}, {"syncTile"}, {"syncClose"},
                                       {"syncLast"}, {"syncRing"}}
        PROVE  /\ pc[Copy] # "ring" /\ pc[Issue] # "ring"
               /\ \A w \in Readers : reading[w] = [mma |-> 1, waited |-> FALSE]
               /\ copying = [step |-> 0, load |-> 0] /\ issuing = [step |-> 0, drained |-> 0]
    <2>1. \A w \in Warps : pc[w] \notin {"ring", "readout"}
      BY <1>7 DEF Among
    <2> QED
      BY <1>6, <2>1 DEF IInv, Idle
  <1>8. CASE /\ Among({"syncAlloc"}) /\ Opening' /\ Tile' = Tile
             /\ pc'[sched.leader] = "setup"
    <2>1. Allocating /\ pc[Copy] = "syncAlloc" /\ pc[sched.owner] = "syncAlloc"
      BY <1>3, <1>6, <1>8 DEF Allocating, Among
    <2>2. /\ ~Opening /\ ~Ringing /\ ~Reading /\ ~Closing /\ ~Leaving
          /\ ~Ringing' /\ ~Reading' /\ ~Closing' /\ ~Leaving' /\ ~Ending' /\ ~Allocating'
      BY <1>8, <2>1, Apart, ApartNext
    <2>3. Allocated'
      BY <1>2, <2>1, <2>2 DEF Allocated, IInv
    <2>4. Idle'
      <3>1. \A w \in Warps : pc'[w] \notin {"ring", "readout"}
        BY <1>8 DEF Opening, Among
      <3> QED
        BY <1>2, <1>6, <1>7, <1>8, <2>2, <3>1 DEF Idle, IInv, DataKept
    <2>5. Opened'
      BY <1>1, <1>2, <1>8, <2>1, <2>2 DEF Opened, IInv, Mmas
    <2>6. Flow'
      BY <2>2 DEF Flow
    <2>7. ASSUME NEW w \in Readers
          PROVE  Taken(w)' = Taken(w)
      BY <1>6, <1>8 DEF Taken, Opening, Among
    <2>8. Outputs'
      BY <1>1, <1>2, <1>8, <2>7, OutputsKept DEF DataKept, IInv
    <2> QED
      BY <1>1, <1>2, <1>4, <1>5, <2>3, <2>4, <2>5, <2>6, <2>8, InvariantNext
         DEF IInv, TypeOK, Filled
  <1>9. CASE /\ Among({"syncSetup"}) /\ Ringing' /\ Tile' = Tile
             /\ pc'[Copy] = "ring" /\ pc'[Issue] = "ring"
    <2>1. Opening /\ pc[sched.leader] = "syncSetup" /\ pc[Copy] = "syncSetup"
      BY <1>3, <1>6, <1>9 DEF Opening, Among
    <2>2. /\ ~Allocating /\ ~Ringing /\ ~Reading /\ ~Closing /\ ~Leaving
          /\ ~Opening' /\ ~Reading' /\ ~Closing' /\ ~Leaving' /\ ~Ending' /\ ~Allocating'
      BY <1>9, <2>1, Apart, ApartNext
    <2>3. Allocated'
      BY <1>2, <2>1, <2>2 DEF Allocated, IInv
    <2>4. Idle'
      <3>1. \A w \in Warps : pc'[w] # "readout"
        BY <1>9 DEF Ringing, Among
      <3> QED
        BY <1>2, <1>6, <1>7, <1>9, <2>2, <3>1 DEF Idle, IInv, DataKept
    <2>5. Opened'
      BY <1>9, <2>2 DEF Opened
    <2>6. Flow'
      <3>1. FlowAt(0, 0)'
        BY <1>1, <1>2, <1>9, <2>1, RingOpens
      <3>2. 0 \in 0..sched'.trips /\ 0 \in 0..sched'.mmas
        BY <1>1, <1>3, Sizes
      <3> QED
        BY <3>1, <3>2 DEF Flow
    <2>7. ASSUME NEW w \in Readers
          PROVE  Taken(w)' = Taken(w)
      BY <1>6, <1>9 DEF Taken, Ringing, Among
    <2>8. Outputs'
      BY <1>1, <1>2, <1>9, <2>7, OutputsKept DEF DataKept, IInv
    <2> QED
      BY <1>1, <1>2, <1>4, <1>5, <2>3, <2>4, <2>5, <2>6, <2>8, InvariantNext
         DEF IInv, TypeOK, Filled
  <1>10. CASE /\ Among({"syncRing"}) /\ Reading' /\ Tile' = Tile
              /\ \A w \in Readers : pc'[w] \in {"inval", "readout"}
    <2>1. Ringing /\ pc[Copy] = "syncRing"
      BY <1>6, <1>10 DEF Ringing, Among
    <2>2. /\ ~Allocating /\ ~Opening /\ ~Reading /\ ~Closing /\ ~Leaving
          /\ ~Opening' /\ ~Ringing' /\ ~Closing' /\ ~Leaving' /\ ~Ending' /\ ~Allocating'
      BY <1>10, <2>1, Apart, ApartNext
    <2>3. Allocated'
      BY <1>2, <2>1, <2>2 DEF Allocated, IInv
    <2>4. inflight = {} /\ \E f \in 0..sched.trips, o \in 0..sched.mmas : FlowAt(f, o)'
      BY <1>1, <1>2, <1>10, RingCloses
    <2>5. Idle'
      <3>1. \A w \in Warps : pc'[w] # "ring"
        BY <1>10 DEF Reading, Among
      <3> QED
        BY <1>2, <1>6, <1>7, <1>10, <2>2, <2>4, <3>1 DEF Idle, IInv, DataKept
    <2>6. Opened'
      BY <1>10, <2>2 DEF Opened
    <2>7. Flow'
      BY <1>1, <2>4 DEF Flow
    <2>8. ASSUME NEW w \in Readers
          PROVE  Taken(w)' = Taken(w)
      <3>1. pc[w] = "syncRing" /\ pc'[w] \in {"inval", "readout"}
            /\ reading'[w] = [mma |-> 1, waited |-> FALSE]
        BY <1>2, <1>6, <1>7, <1>10 DEF Among, DataKept
      <3> QED
        BY <3>1 DEF Taken
    <2>9. Outputs'
      BY <1>1, <1>2, <1>10, <2>8, OutputsKept DEF DataKept, IInv
    <2> QED
      BY <1>1, <1>2, <1>4, <1>5, <2>3, <2>5, <2>6, <2>7, <2>9, InvariantNext
         DEF IInv, TypeOK, Filled
  <1>11. CASE /\ Among({"syncTile"}) /\ Closing' /\ Tile' = Tile
              /\ pc'[sched.leader] = "close"
    <2>1. Reading /\ pc[Copy] = "syncTile"
      BY <1>6, <1>11 DEF Reading, Among
    <2>2. /\ ~Allocating /\ ~Opening /\ ~Ringing /\ ~Closing /\ ~Leaving
          /\ ~Opening' /\ ~Ringing' /\ ~Reading' /\ ~Leaving' /\ ~Ending' /\ ~Allocating'
      BY <1>11, <2>1, Apart, ApartNext
    <2>3. Allocated'
      BY <1>2, <2>1, <2>2 DEF Allocated, IInv
    <2>4. queue = << >> /\ inflight = {} /\ \A m \in Mmas : Completed(m)
      BY <1>11, TileCloses
    <2>5. Idle'
      <3>1. \A w \in Warps : pc'[w] \notin {"ring", "readout"}
        BY <1>11 DEF Closing, Among
      <3> QED
        BY <1>2, <1>6, <1>7, <1>11, <2>2, <2>4, <3>1 DEF Idle, IInv, DataKept
    <2>6. Opened'
      BY <1>1, <1>2, <1>11, <2>2, <2>4 DEF Opened, Mmas, Completed
    <2>7. Flow'
      BY <2>2 DEF Flow
    <2>8. ASSUME NEW w \in Readers
          PROVE  Taken(w)' = Taken(w)
      BY <1>1, <1>6, <1>11 DEF Taken, Closing, Among, Mmas
    <2>9. Outputs'
      BY <1>1, <1>2, <1>11, <2>8, OutputsKept DEF DataKept, IInv
    <2> QED
      BY <1>1, <1>2, <1>4, <1>5, <2>3, <2>5, <2>6, <2>7, <2>9, InvariantNext
         DEF IInv, TypeOK, Filled
  <1>12. CASE /\ Among({"syncClose"}) /\ Opening' /\ Tile' = Tile + 1
              /\ pc'[sched.leader] = "setup"
    <2>1. Closing /\ pc[Copy] = "syncClose" /\ pc[sched.leader] = "syncClose"
      BY <1>3, <1>6, <1>12 DEF Closing, Among
    <2>2. /\ ~Opening /\ ~Ringing /\ ~Reading /\ ~Allocating /\ ~Leaving
          /\ ~Ringing' /\ ~Reading' /\ ~Closing' /\ ~Leaving' /\ ~Ending' /\ ~Allocating'
      BY <1>12, <2>1, Apart, ApartNext
    <2>3. Allocated'
      BY <1>2, <2>1, <2>2 DEF Allocated, IInv
    <2>4. Idle'
      <3>1. \A w \in Warps : pc'[w] \notin {"ring", "readout"}
        BY <1>12 DEF Opening, Among
      <3> QED
        BY <1>2, <1>6, <1>7, <1>12, <2>2, <3>1 DEF Idle, IInv, DataKept
    <2>5. Opened'
      BY <1>1, <1>2, <1>12, <2>1, <2>2 DEF Opened, IInv, Mmas
    <2>6. Flow'
      BY <2>2 DEF Flow
    <2>7. Outputs'
      <3> SUFFICES ASSUME NEW w \in Readers, NEW m \in Mmas
                   PROVE  out[w][m] = (IF m \in Taken(w) THEN Product(Tile) ELSE Before(Tile))'
        BY <1>1, <1>2 DEF Outputs, DataKept, Mmas
      <3>1. m \in Taken(w)
        BY <1>6, <1>12 DEF Taken, Among
      <3>2. Taken(w)' = {}
        BY <1>6, <1>12 DEF Taken, Opening, Among
      <3>3. Before(Tile)' = Product(Tile)
        BY <1>1, <1>3, <1>12 DEF Before, Product
      <3> QED
        BY <3>1, <3>2, <3>3 DEF IInv, Outputs
    <2> QED
      BY <1>1, <1>2, <1>4, <1>5, <2>3, <2>4, <2>5, <2>6, <2>7, InvariantNext
         DEF IInv, TypeOK, Filled
  <1>13. CASE /\ Among({"syncClose"}) \/ Among({"syncLast"})
              /\ Leaving' \/ Ending'
              /\ Tile' = Tile
    <2>1. \/ Closing /\ pc[sched.leader] = "syncClose"
          \/ Leaving
      BY <1>3, <1>13 DEF Closing, Leaving, Among
    <2>2. /\ ~Opening /\ ~Ringing /\ ~Reading /\ ~Allocating
          /\ ~Ringing' /\ ~Reading' /\ ~Closing' /\ ~Opening' /\ ~Allocating'
      BY <1>13, <2>1, Apart, ApartNext
    <2>3. Allocated'
      BY <1>2, <2>1, <2>2 DEF Allocated, IInv
    <2>4. Idle'
      <3>1. \A w \in Warps : pc'[w] \notin {"ring", "readout"}
        BY <1>13 DEF Leaving, Ending, Among
      <3> QED
        BY <1>2, <1>6, <1>7, <1>13, <2>2, <3>1 DEF Idle, IInv, DataKept
    <2>5. Opened'
      BY <1>1, <1>2, <1>13, <2>1, <2>2 DEF Opened, IInv, Mmas
    <2>6. Flow'
      BY <2>2 DEF Flow
    <2>7. ASSUME NEW w \in Readers
          PROVE  Taken(w)' = Taken(w)
      BY <1>1, <1>6, <1>13 DEF Taken, Leaving, Ending, Among, Mmas
    <2>8. Outputs'
      BY <1>1, <1>2, <1>13, <2>7, OutputsKept DEF DataKept, IInv
    <2> QED
      BY <1>1, <1>2, <1>4, <1>5, <2>3, <2>4, <2>5, <2>6, <2>8, InvariantNext
         DEF IInv, TypeOK, Filled
  <1> QED
    BY <1>1, <1>8, <1>9, <1>10, <1>11, <1>12, <1>13 DEF Passes

-------------------------------------------------------------------------------
(* Steps of the contraction *)

LEMMA CopiesAhead ==
    ASSUME sched \in Schedules, Shaped, NEW f \in Nat, Ordered(f), Copies
    PROVE  \A c \in inflight : \E k \in Window(f), l \in Loads :
              /\ k \in Issued..Copied /\ k < sched.trips /\ Started(k, l) /\ c = Transfer(k, l)
  <1>1. sched.stages \in Nat \ {0} /\ sched.trips \in Nat \ {0}
    BY Sizes
  <1>2. Issued \in Nat /\ Copied \in Nat /\ copying.load \in Nat
    BY <1>1 DEF Shaped, Issued, Copied
  <1>3. ASSUME NEW c \in inflight
        PROVE  \E k \in Window(f), l \in Loads :
                  /\ k \in Issued..Copied /\ k < sched.trips /\ Started(k, l)
                  /\ c = Transfer(k, l)
    <2>1. PICK k \in Issued..Copied, l \in Loads :
             k < sched.trips /\ Started(k, l) /\ c = Transfer(k, l)
      BY DEF Copies
    <2>2. l \in Nat \ {0}
      BY DEF Loads
    <2>3. k \in Window(f)
      BY <1>1, <1>2, <2>1, <2>2 DEF Window, Ordered, Started
    <2> QED
      BY <2>1, <2>3
  <1> QED
    BY <1>3

LEMMA NoneAnnounced ==
    ASSUME sched \in Schedules, Shaped, NEW f \in Nat, Ordered(f), Copies, NEW k \in Window(f),
           k < Issued \/ k > Copied \/ (k = Copied /\ copying.load <= 1)
    PROVE  Announced(k) = {}
  <1> SUFFICES ASSUME NEW c \in inflight, c.stage = StageOf(k)
               PROVE  FALSE
    BY DEF Announced
  <1>1. PICK j \in Window(f), l \in Loads :
           /\ j \in Issued..Copied /\ j < sched.trips /\ Started(j, l) /\ c = Transfer(j, l)
    BY CopiesAhead
  <1>2. j = k
    BY <1>1, WindowSteps DEF Transfer
  <1>3. /\ Issued \in Nat /\ Copied \in Nat /\ copying.load \in Nat /\ k \in Nat
        /\ l \in Nat \ {0}
    BY Sizes, WindowSteps DEF Shaped, Issued, Copied, Loads
  <1> QED
    BY <1>1, <1>2, <1>3 DEF Started

LEMMA Frames ==
    ASSUME sched' = sched, Tile' = Tile, NEW f, NEW o
    PROVE  /\ Ordered(f) /\ Issued' = Issued /\ Copied' = Copied /\ copying' = copying
              => Ordered(f)'
           /\ Queued(f, o) /\ Issued' = Issued /\ queue' = queue => Queued(f, o)'
           /\ Copies /\ Issued' = Issued /\ Copied' = Copied /\ copying' = copying
              /\ inflight' = inflight => Copies'
           /\ Held(f) /\ Copied' = Copied /\ copying' = copying /\ inflight' = inflight
              /\ smem' = smem => Held(f)'
           /\ Ring(f) /\ Copied' = Copied /\ copying' = copying /\ inflight' = inflight
              /\ free' = free /\ ready' = ready => Ring(f)'
           /\ Accumulators(f, o) /\ acc' = acc /\ done' = done => Accumulators(f, o)'
  <1>1. Ordered(f) /\ Issued' = Issued /\ Copied' = Copied /\ copying' = copying => Ordered(f)'
    BY DEF Ordered
  <1>2. Queued(f, o) /\ Issued' = Issued /\ queue' = queue => Queued(f, o)'
    <2>1. PerStep' = PerStep /\ \A k, i : Command(k, i)' = Command(k, i)
      BY DEF PerStep, Command, StageOf
    <2>2. Issued' = Issued => \A k, i : Standing(k, i)' <=> Standing(k, i)
      BY DEF Standing
    <2> QED
      BY <2>1, <2>2 DEF Queued
  <1>3. Copies /\ Issued' = Issued /\ Copied' = Copied /\ copying' = copying
        /\ inflight' = inflight => Copies'
    BY DEF Copies, Started, Transfer, StageOf, Loads
  <1>4. Held(f) /\ Copied' = Copied /\ copying' = copying /\ inflight' = inflight
        /\ smem' = smem => Held(f)'
    BY DEF Held, Started, Transfer, StageOf, Loads
  <1>5. Ring(f) /\ Copied' = Copied /\ copying' = copying /\ inflight' = inflight
        /\ free' = free /\ ready' = ready => Ring(f)'
    BY DEF Ring, Window, StageOf, FreeFor, ReadyFor, Filling, Full, Announced, Parity, Fills
  <1>6. Accumulators(f, o) /\ acc' = acc /\ done' = done => Accumulators(f, o)'
    BY DEF Accumulators, Executed, Contributions, Mmas
  <1> QED
    BY <1>1, <1>2, <1>3, <1>4, <1>5, <1>6

(* Every barrier of the contraction is within its count.                   *)
RingCounts ==
    \A f, o \in Nat :
        sched \in Schedules /\ Shaped /\ Ring(f) /\ Copies /\ Accumulators(f, o) => Counted

LEMMA CountedInRing == RingCounts
  <1> SUFFICES ASSUME NEW f \in Nat, NEW o \in Nat, sched \in Schedules, Shaped,
                      Ring(f), Copies, Accumulators(f, o)
               PROVE  Counted
    BY DEF RingCounts
  <1>1. /\ sched.stages \in Nat \ {0} /\ Fills \in Nat \ {0}
    BY Sizes DEF Fills
  <1>2. ASSUME NEW stage \in Stages
        PROVE  WithinCount(ready[stage]) /\ WithinCount(free[stage])
    <2>1. PICK k \in Window(f) : StageOf(k) = stage
      BY WindowSteps
    <2>2. free[stage] = FreeFor(k) /\ ready[stage] = ReadyFor(k)
      BY <2>1 DEF Ring
    <2>3. WithinCount(FreeFor(k))
      BY DEF WithinCount, FreeFor
    <2>4. /\ IsFiniteSet(Announced(k)) /\ Cardinality(Announced(k)) \in Nat
          /\ Announced(k) # {} => Cardinality(Announced(k)) > 0
      <3>1. IsFiniteSet(Announced(k))
        BY FS_Subset DEF Copies, Announced
      <3> QED
        BY <3>1, FS_EmptySet, FS_CardinalityType
    <2>5. Filling(k) => Fills - copying.load + 1 \in 1..Fills
      BY <1>1 DEF Filling, Shaped, Fills
    <2>6. WithinCount(ReadyFor(k))
      BY <1>1, <2>4, <2>5 DEF WithinCount, ReadyFor
    <2> QED
      BY <2>2, <2>3, <2>6
  <1>3. ASSUME NEW m \in Mmas
        PROVE  WithinCount(done[m])
    <2>1. \E phase : done[m] = [live |-> TRUE, count |-> 1, pending |-> 1, tx |-> 0,
                                phase |-> phase]
      BY DEF Accumulators
    <2> QED
      BY <2>1 DEF WithinCount
  <1> QED
    BY <1>2, <1>3 DEF Counted

LEMMA CountedInRingNext == RingCounts'
  BY CountedInRing, PTL

(* What a step of the ring has to keep.                                    *)
LEMMA RingingStep ==
    ASSUME IInv, Straight, Deliver \/ Execute \/ \E w \in Warps : Step(w), Ringing,
           Shaped', out' = out, reading' = reading, tmem' = tmem,
           pc'[Copy] # "ring" => copying' = [step |-> 0, load |-> 0],
           pc'[Issue] # "ring" => issuing' = [step |-> 0, drained |-> 0],
           \E f \in 0..sched.trips, o \in 0..sched.mmas : FlowAt(f, o)'
    PROVE  IInv' /\ Straight'
  <1>1. /\ sched' = sched /\ tile' = tile /\ pc' \in [Warps -> Segments] /\ Straight'
        /\ Lockstep' /\ Roles' /\ Tile' = Tile /\ Ringing'
    BY StepStaysBetween DEF IInv
  <1>2. /\ ~Allocating /\ ~Opening /\ ~Reading /\ ~Closing /\ ~Leaving /\ ~Ending
        /\ ~Allocating' /\ ~Opening' /\ ~Reading' /\ ~Closing' /\ ~Leaving' /\ ~Ending'
    BY <1>1, Apart, ApartNext
  <1>3. \A w \in Warps : pc[w] \in {"ring", "syncRing"} /\ pc'[w] \in {"ring", "syncRing"}
    BY <1>1 DEF Ringing, Among
  <1>4. Flow'
    BY <1>1 DEF Flow
  <1>5. Counted'
    <2>1. PICK f \in 0..sched.trips, o \in 0..sched.mmas : FlowAt(f, o)'
      OBVIOUS
    <2>2. f \in Nat /\ o \in Nat
      BY Sizes DEF IInv, TypeOK
    <2>3. Ring(f)' /\ Copies' /\ Accumulators(f, o)'
      BY <1>1, <2>1 DEF FlowAt
    <2>4. sched' \in Schedules
      BY <1>1 DEF IInv, TypeOK
    <2> QED
      BY <2>2, <2>3, <2>4, CountedInRingNext DEF RingCounts
  <1>6. Allocated'
    BY <1>2 DEF Allocated, IInv
  <1>7. Idle'
    BY <1>1, <1>2, <1>3, Cast DEF Idle, IInv
  <1>8. Opened'
    BY <1>2 DEF Opened
  <1>9. Outputs'
    <2>1. ASSUME NEW w \in Readers
          PROVE  Taken(w)' = Taken(w)
      <3>1. /\ pc[w] \in {"ring", "syncRing"}
            /\ pc'[w] \in {"ring", "syncRing"}
        BY <1>3, Cast
      <3> QED
        BY <3>1 DEF Taken
    <2> QED
      BY <1>1, <2>1, OutputsKept DEF IInv
  <1> QED
    BY <1>1, <1>4, <1>5, <1>6, <1>7, <1>8, <1>9, InvariantNext DEF IInv, TypeOK, Filled

(* The copy warp in the ring.                                              *)
LEMMA CopyWarp ==
    ASSUME IInv, pc[Copy] = "ring"
    PROVE  /\ Ringing /\ Copied = copying.step /\ Copied \in 0..(sched.trips - 1)
           /\ Tile = tile[Copy] /\ sched \in Schedules
           /\ \E f \in 0..sched.trips, o \in 0..sched.mmas : FlowAt(f, o)
  <1>1. Ringing
    BY Cast, WhereAll DEF IInv
  <1>2. Copied = copying.step /\ Copied \in 0..(sched.trips - 1)
    BY DEF Copied, IInv, Shaped
  <1>3. Tile = tile[Copy]
    BY Cast DEF IInv, Lockstep
  <1> QED
    BY <1>1, <1>2, <1>3 DEF IInv, Flow, TypeOK

(* A wait that returns finds the stage a lap behind.                       *)
LEMMA AwaitFreeStep ==
    ASSUME IInv, Straight, NEW w \in Warps, AwaitFree(w)
    PROVE  IInv' /\ Straight'
  <1>1. /\ w = Copy /\ pc[Copy] = "ring" /\ copying.load = 0 /\ Returned(copying.step)
        /\ copying' = [copying EXCEPT !.load = 1]
        /\ UNCHANGED <<sched, pc, tile, ready, free, done, tmem, smem, acc, issuing,
                       inflight, queue, reading, out>>
    BY DEF AwaitFree
  <1>2. /\ Ringing /\ Copied = copying.step /\ Copied \in 0..(sched.trips - 1)
        /\ sched \in Schedules
    BY <1>1, CopyWarp
  <1>3. PICK f \in 0..sched.trips, o \in 0..sched.mmas : FlowAt(f, o)
    BY <1>1, CopyWarp
  <1>4. /\ sched.stages \in Nat \ {0} /\ sched.trips \in Nat \ {0} /\ f \in Nat
        /\ Len(sched.movements) \in Nat \ {0}
    BY <1>2, Sizes
  <1>5. /\ copying'.load = 1 /\ copying'.step = copying.step /\ Copied' = Copied
        /\ Issued' = Issued /\ Tile' = Tile
        /\ copying' \in [step : 0..(sched.trips - 1), load : 0..Len(sched.movements)]
    <2>1. copying \in [step : 0..(sched.trips - 1), load : 0..Len(sched.movements)]
      BY DEF IInv, Shaped
    <2>2. 1 \in 0..Len(sched.movements)
      BY <1>4
    <2>3. /\ copying'.load = 1 /\ copying'.step = copying.step
          /\ copying' \in [step : 0..(sched.trips - 1), load : 0..Len(sched.movements)]
      BY <1>1, <2>1, <2>2
    <2> QED
      BY <1>1, <2>3 DEF Copied, Issued, Tile
  <1>6. Copied < f + sched.stages
    <2> SUFFICES ASSUME Copied = f + sched.stages
                 PROVE  FALSE
      BY <1>2, <1>3, <1>4 DEF FlowAt, Ordered
    <2>1. Copied >= sched.stages /\ Copied - sched.stages = f
      BY <1>2, <1>4
    <2>2. Passed(free[StageOf(Copied)], Parity(f))
      BY <1>1, <1>2, <2>1 DEF Returned
    <2>3. StageOf(Copied) = StageOf(f)
      BY <1>2, <1>4, StageOfStep
    <2>4. free[StageOf(f)] = FreeFor(f)
      BY <1>2, <1>3, <1>4, WindowSteps DEF FlowAt, Ring
    <2> QED
      BY <2>2, <2>3, <2>4 DEF Passed, FreeFor
  <1>7. Shaped'
    BY <1>1, <1>5 DEF IInv, Shaped, Stages, Mmas, Loads, Operands, Commands, DrainedStages
  <1>8. Ordered(f)'
    BY <1>1, <1>3, <1>5, <1>6 DEF FlowAt, Ordered
  <1>9. Queued(f, o)' /\ Accumulators(f, o)'
    BY <1>1, <1>3, <1>5, Frames DEF FlowAt
  <1>10. Drained(f)'
    BY <1>1, <1>3 DEF FlowAt, Drained, FinalStep
  <1>11. \A k, l : Started(k, l) /\ l \in Loads => Started(k, l)'
    BY <1>1, <1>5 DEF Started, Loads
  <1>12. \A k, l : Started(k, l)' /\ l \in Loads => Started(k, l)
    BY <1>1, <1>5 DEF Started, Loads
  <1>13. \A k, l : Transfer(k, l)' = Transfer(k, l)
    BY <1>1, <1>5 DEF Transfer, StageOf
  <1>14. Copies'
    BY <1>1, <1>3, <1>5, <1>11, <1>13 DEF FlowAt, Copies, Loads
  <1>15. Held(f)'
    BY <1>1, <1>3, <1>5, <1>12, <1>13 DEF FlowAt, Held, StageOf, Loads
  <1>16. Ring(f)'
    <2> SUFFICES ASSUME NEW k \in Window(f)
                 PROVE  FreeFor(k)' = FreeFor(k) /\ ReadyFor(k)' = ReadyFor(k)
      BY <1>1, <1>2, <1>3 DEF FlowAt, Ring, Window, StageOf
    <2>1. FreeFor(k)' = FreeFor(k)
      BY <1>1 DEF FreeFor, Parity
    <2>2. Announced(k)' = Announced(k) /\ (Full(k)' <=> Full(k)) /\ Fills' = Fills
      BY <1>1, <1>5 DEF Announced, Full, StageOf, Fills
    <2>3. ~Filling(k)
      BY <1>1 DEF Filling
    <2>4. Filling(k)' => Announced(k) = {}
      BY <1>1, <1>2, <1>3, <1>4, <1>5, NoneAnnounced DEF Filling, FlowAt, IInv
    <2>5. Filling(k)' => Fills - 1 + 1 = Fills
      BY <1>4 DEF Fills
    <2> QED
      BY <1>1, <1>5, <2>1, <2>2, <2>3, <2>4, <2>5 DEF ReadyFor, Parity
  <1>17. Readouts(o)'
    BY <1>1, <1>3 DEF FlowAt, Readouts
  <1>18. FlowAt(f, o)'
    BY <1>8, <1>9, <1>10, <1>14, <1>15, <1>16, <1>17 DEF FlowAt
  <1>19. pc'[Issue] # "ring" => issuing' = [step |-> 0, drained |-> 0]
    BY <1>1 DEF IInv, Idle
  <1> QED
    BY <1>1, <1>2, <1>7, <1>18, <1>19, RingingStep DEF Step

(* A load takes the copy warp one load, or one step, further.              *)
LEMMA LoadAdvances ==
    ASSUME IInv, pc[Copy] = "ring", copying.load # 0, NextLoad(Copy),
           sched' = sched, tile' = tile, issuing' = issuing
    PROVE  /\ copying.load \in Loads /\ Tile' = Tile /\ Issued' = Issued
           /\ copying' \in [step : 0..(sched.trips - 1), load : 0..Len(sched.movements)]
           /\ copying.load < Len(sched.movements) =>
                 Copied' = Copied /\ copying'.load = copying.load + 1
           /\ copying.load = Len(sched.movements) =>
                 Copied' = Copied + 1 /\ copying'.load = 0
           /\ pc'[Copy] # "ring" => copying' = [step |-> 0, load |-> 0]
           /\ pc'[Issue] = pc[Issue]
           /\ \A j \in Nat, i \in Loads :
                 Started(j, i)' <=> Started(j, i) \/ (j = Copied /\ i = copying.load)
  <1>1. /\ Copied = copying.step /\ copying.step \in 0..(sched.trips - 1)
        /\ copying.load \in 1..Len(sched.movements)
        /\ copying = [step |-> copying.step, load |-> copying.load]
        /\ sched.trips \in Nat \ {0} /\ Len(sched.movements) \in Nat \ {0}
    <2>1. copying \in [step : 0..(sched.trips - 1), load : 0..Len(sched.movements)]
      BY DEF IInv, Shaped
    <2> QED
      BY <2>1, CopyWarp, Sizes
  <1>2. pc \in [Warps -> Segments] /\ Copy \in Warps /\ Issue \in Warps /\ Copy # Issue
    BY Cast DEF IInv, TypeOK, Segments
  <1>3. Tile' = Tile
    BY DEF Tile
  <1>4. CASE copying.load < Len(sched.movements)
    <2>1. copying' = [copying EXCEPT !.load = @ + 1] /\ pc' = pc
      BY <1>4 DEF NextLoad
    <2>2. copying' = [step |-> copying.step, load |-> copying.load + 1]
      BY <1>1, <2>1
    <2>3. copying.load + 1 \in 0..Len(sched.movements)
      BY <1>1, <1>4
    <2>4. Copied' = Copied /\ Issued' = Issued
      BY <1>1, <2>1, <2>2 DEF Copied, Issued
    <2>5. \A j \in Nat, i \in Loads :
             Started(j, i)' <=> Started(j, i) \/ (j = Copied /\ i = copying.load)
      BY <1>1, <2>2, <2>4 DEF Started, Loads
    <2> QED
      BY <1>1, <1>3, <1>4, <2>1, <2>2, <2>3, <2>4, <2>5 DEF Loads
  <1>5. CASE copying.load = Len(sched.movements) /\ copying.step + 1 < sched.trips
    <2>1. copying' = [step |-> copying.step + 1, load |-> 0] /\ pc' = pc
      BY <1>1, <1>5 DEF NextLoad
    <2>2. copying.step + 1 \in 0..(sched.trips - 1) /\ 0 \in 0..Len(sched.movements)
      BY <1>1, <1>5
    <2>3. Copied' = Copied + 1 /\ Issued' = Issued
      BY <1>1, <2>1 DEF Copied, Issued
    <2>4. \A j \in Nat, i \in Loads :
             Started(j, i)' <=> Started(j, i) \/ (j = Copied /\ i = copying.load)
      BY <1>1, <1>5, <2>1, <2>3 DEF Started, Loads
    <2> QED
      BY <1>1, <1>3, <1>5, <2>1, <2>2, <2>3, <2>4 DEF Loads
  <1>6. CASE copying.load = Len(sched.movements) /\ ~(copying.step + 1 < sched.trips)
    <2>1. copying' = [step |-> 0, load |-> 0] /\ pc' = [pc EXCEPT ![Copy] = "syncRing"]
      BY <1>1, <1>6 DEF NextLoad, Goto
    <2>2. 0 \in 0..(sched.trips - 1) /\ 0 \in 0..Len(sched.movements)
      BY <1>1
    <2>3. pc'[Copy] = "syncRing" /\ pc'[Issue] = pc[Issue]
      BY <1>2, <2>1
    <2>4. Copied' = Copied + 1 /\ Issued' = Issued
      BY <1>1, <1>6, <2>1, <2>3 DEF Copied, Issued
    <2>5. \A j \in Nat, i \in Loads :
             Started(j, i)' <=> Started(j, i) \/ (j = Copied /\ i = copying.load)
      BY <1>1, <1>6, <2>1, <2>4 DEF Started, Loads
    <2> QED
      BY <1>1, <1>3, <1>6, <2>1, <2>2, <2>3, <2>4, <2>5 DEF Loads
  <1> QED
    BY <1>1, <1>4, <1>5, <1>6

(* Either load leaves alone what concerns the tensor engine, and the other *)
(* stages.                                                                 *)
LEMMA LoadKeeps ==
    ASSUME IInv, pc[Copy] = "ring", copying.load # 0, NextLoad(Copy),
           UNCHANGED <<sched, tile, free, done, acc, issuing, queue, reading, out, tmem>>,
           NEW f \in 0..sched.trips, NEW o \in 0..sched.mmas, FlowAt(f, o)
    PROVE  /\ Ordered(f)' /\ Queued(f, o)' /\ Drained(f)' /\ Accumulators(f, o)' /\ Readouts(o)'
           /\ Copied \in Window(f)
           /\ \A k \in Window(f) \ {Copied} : Announced(k)' = Announced(k) =>
                 FreeFor(k)' = FreeFor(k) /\ ReadyFor(k)' = ReadyFor(k)
  <1>1. /\ copying.load \in Loads /\ Tile' = Tile /\ Issued' = Issued
        /\ copying.load < Len(sched.movements) =>
              Copied' = Copied /\ copying'.load = copying.load + 1
        /\ copying.load = Len(sched.movements) => Copied' = Copied + 1 /\ copying'.load = 0
        /\ pc'[Issue] = pc[Issue]
    BY LoadAdvances
  <1>2. /\ Ringing /\ Copied \in 0..(sched.trips - 1) /\ sched \in Schedules
        /\ sched.stages \in Nat \ {0} /\ Len(sched.movements) \in Nat \ {0}
        /\ sched.trips \in Nat \ {0} /\ Issued \in Nat /\ copying.load \in Nat
    BY CopyWarp, Sizes DEF IInv, Shaped, Issued
  <1>3. Ordered(f)
    BY DEF FlowAt
  <1>4. Copied < f + sched.stages /\ f <= Issued /\ Issued <= Copied
    BY <1>2, <1>3 DEF Ordered
  <1>5. copying.load < Len(sched.movements) \/ copying.load = Len(sched.movements)
    BY <1>1, <1>2 DEF Loads
  <1>6. Ordered(f)'
    BY <1>1, <1>2, <1>4, <1>5 DEF Ordered
  <1>7. Queued(f, o)' /\ Accumulators(f, o)'
    BY <1>1, Frames DEF FlowAt
  <1>8. Drained(f)'
    BY <1>1 DEF FlowAt, Drained, FinalStep
  <1>9. Readouts(o)'
    <2>1. \A v \in Readers : pc'[v] = pc[v]
      <3>1. pc \in [Warps -> Segments] /\ Readers \subseteq Warps /\ Copy \notin Readers
        BY Cast DEF IInv, TypeOK, Segments
      <3> QED
        BY <3>1 DEF NextLoad, Goto
    <2> QED
      BY <2>1 DEF FlowAt, Readouts
  <1>10. Copied \in Window(f)
    BY <1>2, <1>4 DEF Window
  <1>11. ASSUME NEW k \in Window(f) \ {Copied}, Announced(k)' = Announced(k)
         PROVE  FreeFor(k)' = FreeFor(k) /\ ReadyFor(k)' = ReadyFor(k)
    <2>1. k \in Nat
      BY <1>2, WindowSteps
    <2>2. FreeFor(k)' = FreeFor(k)
      BY DEF FreeFor, Parity
    <2>3. Full(k)' <=> Full(k)
      BY <1>1, <1>2, <1>5, <1>11, <2>1 DEF Full
    <2>4. ~Filling(k) /\ ~Filling(k)'
      BY <1>1, <1>5, <1>11 DEF Filling
    <2> QED
      BY <1>11, <2>2, <2>3, <2>4 DEF ReadyFor, Parity, Fills
  <1> QED
    BY <1>6, <1>7, <1>8, <1>9, <1>10, <1>11

(* What an arrival, an announcement and a delivery make of a live barrier. *)
Object(on, count, pending, tx, phase) ==
    [live |-> on, count |-> count, pending |-> pending, tx |-> tx, phase |-> phase]

LEMMA BarrierSteps ==
    ASSUME NEW on, NEW n \in Nat, NEW p \in Nat, NEW x \in Nat, NEW h
    PROVE  /\ p # 0 => Expecting(Object(on, n, p, x, h)) = Object(on, n, p - 1, x + 1, h)
           /\ p # 0 => Arrived(Object(on, n, p, x, h)) =
                 IF p = 1 /\ x = 0 THEN Object(on, n, n, 0, 1 - h) ELSE Object(on, n, p - 1, x, h)
           /\ x # 0 => Delivered(Object(on, n, p, x, h)) =
                 IF p = 0 /\ x = 1 THEN Object(on, n, n, 0, 1 - h) ELSE Object(on, n, p, x - 1, h)
  <1>1. ASSUME NEW q, NEW y, NEW g
        PROVE  Settle(Object(on, n, q, y, g)) =
                  IF q = 0 /\ y = 0 THEN Object(on, n, n, 0, 1 - g) ELSE Object(on, n, q, y, g)
    <2> DEFINE b == Object(on, n, q, y, g)
    <2>1. [b EXCEPT !.pending = n, !.phase = 1 - g] =
             [i \in DOMAIN b |-> IF i = "phase" THEN 1 - g ELSE IF i = "pending" THEN n ELSE b[i]]
      OBVIOUS
    <2>2. [b EXCEPT !.pending = n, !.phase = 1 - g] = Object(on, n, n, y, 1 - g)
      BY <2>1 DEF Object
    <2>3. b.pending = q /\ b.tx = y /\ b.count = n /\ b.phase = g
      BY DEF Object
    <2> HIDE DEF b
    <2>4. Settle(b) = IF q = 0 /\ y = 0 THEN Object(on, n, n, 0, 1 - g) ELSE b
      BY <2>2, <2>3 DEF Settle
    <2> QED
      BY <2>4 DEF b
  <1>2. Expecting(Object(on, n, p, x, h)) = Settle(Object(on, n, p - 1, x + 1, h))
    <2> DEFINE b == Object(on, n, p, x, h)
    <2>1. [b EXCEPT !.pending = p - 1, !.tx = x + 1] =
             [i \in DOMAIN b |-> IF i = "tx" THEN x + 1 ELSE IF i = "pending" THEN p - 1 ELSE b[i]]
      OBVIOUS
    <2>2. [b EXCEPT !.pending = p - 1, !.tx = x + 1] = Object(on, n, p - 1, x + 1, h)
      BY <2>1 DEF Object
    <2>3. b.pending = p /\ b.tx = x
      BY DEF Object
    <2> HIDE DEF b
    <2>4. Expecting(b) = Settle(Object(on, n, p - 1, x + 1, h))
      BY <2>2, <2>3 DEF Expecting
    <2> QED
      BY <2>4 DEF b
  <1>3. Arrived(Object(on, n, p, x, h)) = Settle(Object(on, n, p - 1, x, h))
    <2>1. [Object(on, n, p, x, h) EXCEPT !.pending = @ - 1] = Object(on, n, p - 1, x, h)
      BY DEF Object
    <2> QED
      BY <2>1 DEF Arrived
  <1>4. Delivered(Object(on, n, p, x, h)) = Settle(Object(on, n, p, x - 1, h))
    <2>1. [Object(on, n, p, x, h) EXCEPT !.tx = @ - 1] = Object(on, n, p, x - 1, h)
      BY DEF Object
    <2> QED
      BY <2>1 DEF Delivered
  <1>5. /\ x + 1 # 0
        /\ p # 0 => (p - 1 = 0 <=> p = 1)
        /\ x # 0 => (x - 1 = 0 <=> x = 1)
    OBVIOUS
  <1> QED
    BY <1>1, <1>2, <1>3, <1>4, <1>5

Live(count, pending, tx, phase) == Object(TRUE, count, pending, tx, phase)

LEMMA LiveSteps ==
    ASSUME NEW n \in Nat, NEW p \in Nat, NEW x \in Nat, NEW h
    PROVE  /\ p # 0 => Expecting(Live(n, p, x, h)) = Live(n, p - 1, x + 1, h)
           /\ p # 0 => Arrived(Live(n, p, x, h)) =
                 IF p = 1 /\ x = 0 THEN Live(n, n, 0, 1 - h) ELSE Live(n, p - 1, x, h)
           /\ x # 0 => Delivered(Live(n, p, x, h)) =
                 IF p = 0 /\ x = 1 THEN Live(n, n, 0, 1 - h) ELSE Live(n, p, x - 1, h)
  <1> DEFINE on == TRUE
  <1>1. /\ p # 0 => Expecting(Object(on, n, p, x, h)) = Object(on, n, p - 1, x + 1, h)
        /\ p # 0 => Arrived(Object(on, n, p, x, h)) =
              IF p = 1 /\ x = 0 THEN Object(on, n, n, 0, 1 - h) ELSE Object(on, n, p - 1, x, h)
        /\ x # 0 => Delivered(Object(on, n, p, x, h)) =
              IF p = 0 /\ x = 1 THEN Object(on, n, n, 0, 1 - h) ELSE Object(on, n, p, x - 1, h)
    <2> HIDE DEF on
    <2> QED
      BY BarrierSteps
  <1> QED
    BY <1>1 DEF Live

(* An action of the loads changes the barrier of one stage in the window.  *)
LEMMA StageSignalled ==
    ASSUME IInv, Ringing, NEW f \in 0..sched.trips, Ring(f), NEW k \in Window(f), NEW b \in Barrier,
           sched' = sched, free' = free, ready' = [ready EXCEPT ![StageOf(k)] = b],
           b = ReadyFor(k)', \A j \in Window(f) \ {k} : ReadyFor(j)' = ReadyFor(j)
    PROVE  Ring(f)' /\ ready' \in [Stages -> Barrier]
  <1>1. sched \in Schedules /\ f \in Nat
    BY Sizes DEF IInv, TypeOK
  <1>2. ready \in [Stages -> Barrier]
    BY DEF IInv, Shaped
  <1>3. ASSUME NEW j \in Window(f)
        PROVE  free'[StageOf(j)] = FreeFor(j)' /\ ready'[StageOf(j)] = ReadyFor(j)'
    <2>1. /\ free[StageOf(j)] = FreeFor(j) /\ ready[StageOf(j)] = ReadyFor(j)
          /\ j \in Nat /\ StageOf(j) \in Stages
      BY <1>1, WindowSteps, StageOfStep DEF Ring
    <2>2. FreeFor(j)' = FreeFor(j)
      BY DEF FreeFor, Parity
    <2>3. CASE j = k
      <3>1. ready'[StageOf(k)] = b
        BY <1>2, <2>1, <2>3
      <3> QED
        BY <2>1, <2>2, <2>3, <3>1
    <2>4. CASE j # k
      <3>1. StageOf(j) # StageOf(k)
        BY <1>1, <2>4, WindowSteps
      <3>2. ready'[StageOf(j)] = ready[StageOf(j)]
        BY <1>2, <2>1, <3>1
      <3>3. ReadyFor(j)' = ReadyFor(j)
        BY <2>4
      <3> QED
        BY <2>1, <2>2, <3>2, <3>3
    <2> QED
      BY <2>3, <2>4
  <1>4. Window(f)' = Window(f) /\ \A j : StageOf(j)' = StageOf(j)
    BY DEF Window, StageOf
  <1> QED
    BY <1>2, <1>3, <1>4 DEF Ring

LEMMA LoadTmaStep ==
    ASSUME IInv, Straight, NEW w \in Warps, LoadTma(w)
    PROVE  IInv' /\ Straight'
  <1> SUFFICES ASSUME NEW k, k = Copied, NEW l, l = copying.load, NEW c, c = Transfer(k, l)
               PROVE  IInv' /\ Straight'
    OBVIOUS
  <1>1. /\ w = Copy /\ pc[Copy] = "ring" /\ copying.load # 0 /\ NextLoad(Copy)
        /\ UNCHANGED <<sched, tile, free, done, tmem, smem, acc, issuing, queue, reading, out>>
    BY DEF LoadTma
  <1>2. /\ Ringing /\ Copied = copying.step /\ Copied \in 0..(sched.trips - 1)
        /\ Tile = tile[Copy] /\ sched \in Schedules
    BY <1>1, CopyWarp
  <1>3. /\ ready' = [ready EXCEPT ![StageOf(k)] = Expecting(ready[StageOf(k)])]
        /\ inflight' = inflight \union {c}
    BY <1>1, <1>2 DEF LoadTma, Transfer
  <1>4. PICK f \in 0..sched.trips, o \in 0..sched.mmas : FlowAt(f, o)
    BY <1>1, CopyWarp
  <1>5. /\ l \in Loads /\ Tile' = Tile /\ Issued' = Issued
        /\ copying' \in [step : 0..(sched.trips - 1), load : 0..Len(sched.movements)]
        /\ l < Len(sched.movements) => Copied' = k /\ copying'.load = l + 1
        /\ l = Len(sched.movements) => Copied' = k + 1 /\ copying'.load = 0
        /\ pc'[Copy] # "ring" => copying' = [step |-> 0, load |-> 0]
        /\ pc'[Issue] = pc[Issue]
        /\ \A j \in Nat, i \in Loads : Started(j, i)' <=> Started(j, i) \/ (j = k /\ i = l)
    BY <1>1, LoadAdvances
  <1>6. /\ Ordered(f)' /\ Queued(f, o)' /\ Drained(f)' /\ Accumulators(f, o)' /\ Readouts(o)'
        /\ k \in Window(f)
        /\ \A j \in Window(f) \ {k} : Announced(j)' = Announced(j) =>
              FreeFor(j)' = FreeFor(j) /\ ReadyFor(j)' = ReadyFor(j)
    BY <1>1, <1>4, LoadKeeps
  <1>7. /\ sched.stages \in Nat \ {0} /\ Fills \in Nat \ {0} /\ k \in Nat /\ f \in Nat
        /\ StageOf(k) \in Stages /\ Fills = Len(sched.movements) /\ Issued \in Nat
        /\ l \in 1..Fills
    <2>1. sched.trips \in Nat /\ k \in Nat
      BY <1>2, Sizes
    <2>2. Issued \in Nat
      BY <2>1 DEF IInv, Shaped, Issued
    <2>3. StageOf(k) \in Stages
      BY <1>2, <2>1, StageOfStep
    <2>4. sched.stages \in Nat \ {0} /\ Len(sched.movements) \in Nat \ {0}
      BY <1>2, Sizes
    <2> QED
      BY <1>5, <2>1, <2>2, <2>3, <2>4 DEF Fills, Loads
  <1>8. /\ l < Len(sched.movements) \/ l = Len(sched.movements)
        /\ l \in Nat /\ l > 0 /\ Fills - l \in Nat /\ (l = Fills => Fills - l = 0)
        /\ Fills - l + 1 \in Nat /\ Fills - l + 1 # 0 /\ (Fills - l + 1) - 1 = Fills - l
        /\ Fills - (l + 1) + 1 = Fills - l
    <2>1. ASSUME NEW n \in Nat \ {0}, NEW i \in 1..n
          PROVE  /\ i < n \/ i = n
                 /\ i \in Nat /\ i > 0 /\ n - i \in Nat /\ (i = n => n - i = 0)
                 /\ n - i + 1 \in Nat /\ n - i + 1 # 0 /\ (n - i + 1) - 1 = n - i
                 /\ n - (i + 1) + 1 = n - i
      OBVIOUS
    <2> QED
      BY <1>7, <2>1
  <1>9. \A j \in Window(f) : j # k => StageOf(j) # StageOf(k)
    BY <1>2, <1>6, <1>7, WindowSteps
  <1>10. \A j, i : Transfer(j, i)' = Transfer(j, i)
    BY <1>1, <1>5 DEF Transfer, StageOf
  <1>11. ~Started(k, l)
    BY <1>7 DEF Started
  <1>12. c \notin inflight
    <2> SUFFICES ASSUME c \in inflight
                 PROVE  FALSE
      OBVIOUS
    <2>1. PICK j \in Window(f), i \in Loads : Started(j, i) /\ c = Transfer(j, i)
      BY <1>2, <1>4, <1>7, CopiesAhead DEF FlowAt, IInv
    <2>2. StageOf(j) = StageOf(k) /\ i = l
      BY <2>1 DEF Transfer
    <2> QED
      BY <1>9, <1>11, <2>1, <2>2
  <1>13. Copies'
    <2>1. IsFiniteSet(inflight')
      BY <1>3, <1>4, FS_AddElement DEF FlowAt, Copies
    <2>2. ASSUME NEW d \in inflight'
          PROVE  \E j \in (Issued..Copied)', i \in Loads' :
                    j < sched'.trips /\ Started(j, i)' /\ d = Transfer(j, i)'
      <3>1. Issued' = Issued /\ (Copied' = k \/ Copied' = k + 1) /\ Issued <= k
        BY <1>4, <1>5, <1>8 DEF FlowAt, Ordered
      <3>2. CASE d = c
        <4>1. k \in Issued'..Copied' /\ k < sched'.trips
          <5>1. sched'.trips = sched.trips /\ sched.trips \in Nat /\ k < sched.trips
            BY <1>1, <1>2, Sizes
          <5> QED
            BY <1>7, <3>1, <5>1
        <4>2. Started(k, l)' /\ d = Transfer(k, l)' /\ l \in Loads'
          BY <1>1, <1>5, <1>7, <1>10, <3>2 DEF Loads
        <4> QED
          BY <4>1, <4>2
      <3>3. CASE d \in inflight
        <4>1. PICK j \in Issued..Copied, i \in Loads :
                 j < sched.trips /\ Started(j, i) /\ d = Transfer(j, i)
          BY <1>4, <3>3 DEF FlowAt, Copies
        <4>2. j \in Nat /\ j \in (Issued..Copied)'
          BY <1>7, <3>1, <4>1
        <4>3. Started(j, i)' /\ d = Transfer(j, i)' /\ i \in Loads' /\ j < sched'.trips
          BY <1>1, <1>5, <1>10, <4>1, <4>2 DEF Loads
        <4> QED
          BY <4>2, <4>3
      <3> QED
        BY <1>3, <3>2, <3>3
    <2> QED
      BY <2>1, <2>2 DEF Copies
  <1>14. Held(f)'
    <2> SUFFICES ASSUME NEW j \in (f..Copied)', NEW i \in Loads, Started(j, i)'
                 PROVE  Transfer(j, i) \in inflight' \/ smem[StageOf(j)][i] = <<Tile, j>>
      BY <1>1, <1>5, <1>10 DEF Held, StageOf, Loads
    <2>1. j \in Nat /\ (Started(j, i) \/ (j = k /\ i = l))
      BY <1>5, <1>7, <1>8
    <2>2. CASE Started(j, i)
      <3>1. j \in f..Copied
        BY <1>2, <1>7, <2>1, <2>2 DEF Started
      <3>2. Transfer(j, i) \in inflight \/ smem[StageOf(j)][i] = <<Tile, j>>
        BY <1>4, <2>2, <3>1 DEF FlowAt, Held
      <3> QED
        BY <1>3, <3>2
    <2> QED
      BY <1>3, <2>1, <2>2
  <1>15. \A j : Announced(j)' = IF StageOf(j) = StageOf(k) THEN Announced(j) \union {c} ELSE Announced(j)
    BY <1>1, <1>3 DEF Announced, StageOf, Transfer
  <1>16. /\ Cardinality(Announced(k)') = Cardinality(Announced(k)) + 1
         /\ Cardinality(Announced(k)) \in Nat
    <2>1. IsFiniteSet(Announced(k))
      BY <1>4, FS_Subset DEF FlowAt, Copies, Announced
    <2>2. c \notin Announced(k) /\ Announced(k)' = Announced(k) \union {c}
      BY <1>12, <1>15 DEF Announced
    <2> QED
      BY <2>1, <2>2, FS_AddElement, FS_CardinalityType
  <1> DEFINE b == Live(Fills, Fills - l, Cardinality(Announced(k)) + 1, Parity(k))
  <1>17. Expecting(ready[StageOf(k)]) = b
    <2>1. Filling(k) /\ ~Full(k) /\ ready[StageOf(k)] = ReadyFor(k)
      <3>1. Filling(k) /\ ~Full(k)
        BY <1>7, <1>8 DEF Filling, Full
      <3> QED
        BY <1>2, <1>4, <1>6, <3>1 DEF FlowAt, Ring
    <2>2. ready[StageOf(k)] =
               Live(Fills, Fills - l + 1, Cardinality(Announced(k)), Parity(k))
      BY <2>1 DEF ReadyFor, Live, Object
    <2>3. Expecting(Live(Fills, Fills - l + 1, Cardinality(Announced(k)), Parity(k))) =
               Live(Fills, (Fills - l + 1) - 1, Cardinality(Announced(k)) + 1, Parity(k))
      BY <1>7, <1>8, <1>16, LiveSteps
    <2> QED
      BY <1>8, <2>2, <2>3
  <1>18. ReadyFor(k)' = b
    <2>1. Parity(k)' = Parity(k) /\ Fills' = Fills
      BY <1>1 DEF Parity, Fills
    <2>2. ~Full(k)' /\ Announced(k)' # {}
      BY <1>15 DEF Full
    <2>3. CASE l < Len(sched.movements)
      <3>1. Filling(k)' /\ Fills - copying'.load + 1 = Fills - l
        BY <1>5, <1>7, <1>8, <2>3 DEF Filling
      <3> QED
        BY <1>16, <2>1, <2>2, <3>1 DEF ReadyFor, Live, Object
    <2>4. CASE l = Len(sched.movements)
      <3>1. ~Filling(k)' /\ Fills - l = 0
        BY <1>5, <1>7, <1>8, <2>4 DEF Filling
      <3> QED
        BY <1>16, <2>1, <2>2, <3>1 DEF ReadyFor, Live, Object
    <2> QED
      BY <1>8, <2>3, <2>4
  <1>19. b \in Barrier
    <2>1. Fills - l \in Nat /\ Parity(k) \in {0, 1} /\ Cardinality(Announced(k)) + 1 \in Nat
      <3>1. Parity(k) \in {0, 1}
        BY <1>2, <1>7, StageOfStep
      <3>2. \A n \in Nat : n + 1 \in Nat
        OBVIOUS
      <3> QED
        BY <1>8, <1>16, <3>1, <3>2
    <2> QED
      BY <1>7, <2>1 DEF Live, Object, Barrier
  <1>20. Ring(f)' /\ ready' \in [Stages -> Barrier]
    <2>1. \A j \in Window(f) \ {k} : ReadyFor(j)' = ReadyFor(j)
      BY <1>6, <1>9, <1>15
    <2>2. ready' = [ready EXCEPT ![StageOf(k)] = b]
      BY <1>3, <1>17
    <2> HIDE DEF b
    <2>3. Ring(f)
      BY <1>2, <1>4 DEF FlowAt
    <2> QED
      BY <1>1, <1>2, <1>6, <1>18, <1>19, <2>1, <2>2, <2>3, StageSignalled
  <1>21. FlowAt(f, o)'
    BY <1>6, <1>13, <1>14, <1>20 DEF FlowAt
  <1>22. Shaped'
    BY <1>1, <1>5, <1>20 DEF IInv, Shaped, Stages, Mmas, Loads, Operands, Commands, DrainedStages
  <1>23. pc'[Issue] # "ring" => issuing' = [step |-> 0, drained |-> 0]
    BY <1>1, <1>5 DEF IInv, Idle
  <1> QED
    BY <1>1, <1>2, <1>5, <1>21, <1>22, <1>23, RingingStep DEF Step

LEMMA LoadGlobalStep ==
    ASSUME IInv, Straight, NEW w \in Warps, LoadGlobal(w)
    PROVE  IInv' /\ Straight'
  <1> SUFFICES ASSUME NEW k, k = Copied, NEW l, l = copying.load
               PROVE  IInv' /\ Straight'
    OBVIOUS
  <1>1. /\ w = Copy /\ pc[Copy] = "ring" /\ copying.load # 0 /\ NextLoad(Copy)
        /\ UNCHANGED <<sched, tile, free, done, tmem, acc, issuing, inflight, queue, reading, out>>
    BY DEF LoadGlobal
  <1>2. /\ Ringing /\ Copied = copying.step /\ Copied \in 0..(sched.trips - 1)
        /\ Tile = tile[Copy] /\ sched \in Schedules
    BY <1>1, CopyWarp
  <1>3. /\ ready' = [ready EXCEPT ![StageOf(k)] = Arrived(ready[StageOf(k)])]
        /\ smem' = [smem EXCEPT ![StageOf(k)][l] = <<Tile, k>>]
    BY <1>1, <1>2 DEF LoadGlobal
  <1>4. PICK f \in 0..sched.trips, o \in 0..sched.mmas : FlowAt(f, o)
    BY <1>1, CopyWarp
  <1>5. /\ l \in Loads /\ Tile' = Tile /\ Issued' = Issued
        /\ copying' \in [step : 0..(sched.trips - 1), load : 0..Len(sched.movements)]
        /\ l < Len(sched.movements) => Copied' = k /\ copying'.load = l + 1
        /\ l = Len(sched.movements) => Copied' = k + 1 /\ copying'.load = 0
        /\ pc'[Copy] # "ring" => copying' = [step |-> 0, load |-> 0]
        /\ pc'[Issue] = pc[Issue]
        /\ \A j \in Nat, i \in Loads : Started(j, i)' <=> Started(j, i) \/ (j = k /\ i = l)
    BY <1>1, LoadAdvances
  <1>6. /\ Ordered(f)' /\ Queued(f, o)' /\ Drained(f)' /\ Accumulators(f, o)' /\ Readouts(o)'
        /\ k \in Window(f)
        /\ \A j \in Window(f) \ {k} : Announced(j)' = Announced(j) =>
              FreeFor(j)' = FreeFor(j) /\ ReadyFor(j)' = ReadyFor(j)
    BY <1>1, <1>4, LoadKeeps
  <1>7. /\ sched.stages \in Nat \ {0} /\ Fills \in Nat \ {0} /\ k \in Nat /\ f \in Nat
        /\ StageOf(k) \in Stages /\ Fills = Len(sched.movements) /\ Issued \in Nat
        /\ l \in 1..Fills
    <2>1. sched.trips \in Nat /\ k \in Nat
      BY <1>2, Sizes
    <2>2. Issued \in Nat
      BY <2>1 DEF IInv, Shaped, Issued
    <2>3. StageOf(k) \in Stages
      BY <1>2, <2>1, StageOfStep
    <2>4. sched.stages \in Nat \ {0} /\ Len(sched.movements) \in Nat \ {0}
      BY <1>2, Sizes
    <2> QED
      BY <1>5, <2>1, <2>2, <2>3, <2>4 DEF Fills, Loads
  <1>8. /\ l < Len(sched.movements) \/ l = Len(sched.movements)
        /\ l \in Nat /\ l > 0 /\ Fills - l \in Nat /\ (l = Fills => Fills - l = 0)
        /\ Fills - l + 1 \in Nat /\ Fills - l + 1 # 0 /\ (Fills - l + 1) - 1 = Fills - l
        /\ Fills - (l + 1) + 1 = Fills - l
    <2>1. ASSUME NEW n \in Nat \ {0}, NEW i \in 1..n
          PROVE  /\ i < n \/ i = n
                 /\ i \in Nat /\ i > 0 /\ n - i \in Nat /\ (i = n => n - i = 0)
                 /\ n - i + 1 \in Nat /\ n - i + 1 # 0 /\ (n - i + 1) - 1 = n - i
                 /\ n - (i + 1) + 1 = n - i
      OBVIOUS
    <2> QED
      BY <1>7, <2>1
  <1>9. \A j \in Window(f) : j # k => StageOf(j) # StageOf(k)
    BY <1>2, <1>6, <1>7, WindowSteps
  <1>10. \A j, i : Transfer(j, i)' = Transfer(j, i)
    BY <1>1, <1>5 DEF Transfer, StageOf
  <1>11. ~Started(k, l)
    BY <1>7 DEF Started
  <1>12. Copies'
    <2>1. ASSUME NEW d \in inflight
          PROVE  \E j \in (Issued..Copied)', i \in Loads' :
                    j < sched'.trips /\ Started(j, i)' /\ d = Transfer(j, i)'
      <3>1. Issued' = Issued /\ (Copied' = k \/ Copied' = k + 1) /\ Issued <= k
        BY <1>4, <1>5, <1>8 DEF FlowAt, Ordered
      <3>2. PICK j \in Issued..Copied, i \in Loads :
               j < sched.trips /\ Started(j, i) /\ d = Transfer(j, i)
        BY <1>4 DEF FlowAt, Copies
      <3>3. j \in Nat /\ j \in (Issued..Copied)'
        BY <1>7, <3>1, <3>2
      <3>4. Started(j, i)' /\ d = Transfer(j, i)' /\ i \in Loads' /\ j < sched'.trips
        BY <1>1, <1>5, <1>10, <3>2, <3>3 DEF Loads
      <3> QED
        BY <3>3, <3>4
    <2> QED
      BY <1>1, <1>4, <2>1 DEF FlowAt, Copies
  <1>13. smem' \in [Stages -> [Loads -> Operands \union {<< >>}]]
         /\ \A j \in Window(f), i \in Loads :
               smem'[StageOf(j)][i] = IF j = k /\ i = l THEN <<Tile, k>> ELSE smem[StageOf(j)][i]
    <2>1. smem \in [Stages -> [Loads -> Operands \union {<< >>}]]
      BY DEF IInv, Shaped
    <2>2. <<Tile, k>> \in Operands
      <3>1. Tile \in 1..sched.tiles
        BY <1>2, Cast DEF IInv, TypeOK
      <3> QED
        BY <1>2, <3>1 DEF Operands
    <2>3. \A j \in Window(f) : StageOf(j) \in Stages
      BY <1>2, <1>7, WindowSteps, StageOfStep
    <2> QED
      BY <1>3, <1>5, <1>7, <1>9, <2>1, <2>2, <2>3
  <1>14. Held(f)'
    <2> SUFFICES ASSUME NEW j \in (f..Copied)', NEW i \in Loads, Started(j, i)'
                 PROVE  Transfer(j, i) \in inflight \/ smem'[StageOf(j)][i] = <<Tile, j>>
      BY <1>1, <1>5, <1>10 DEF Held, StageOf, Loads
    <2>1. j \in Nat /\ (Started(j, i) \/ (j = k /\ i = l))
      <3>1. j \in Nat
        BY <1>7
      <3> QED
        BY <1>5, <3>1
    <2>2. CASE Started(j, i)
      <3>1. j \in f..Copied /\ j \in Window(f)
        <4>1. k < f + sched.stages
          BY <1>6, <1>7 DEF Window
        <4> QED
          BY <1>2, <1>7, <2>1, <2>2, <4>1 DEF Started, Window
      <3>2. Transfer(j, i) \in inflight \/ smem[StageOf(j)][i] = <<Tile, j>>
        BY <1>4, <2>2, <3>1 DEF FlowAt, Held
      <3> QED
        BY <1>11, <1>13, <2>2, <3>1, <3>2
    <2>3. CASE j = k /\ i = l
      BY <1>6, <1>13, <2>3
    <2> QED
      BY <2>1, <2>2, <2>3
  <1>15. /\ \A j : Announced(j)' = Announced(j)
         /\ Cardinality(Announced(k)) \in Nat
         /\ Cardinality(Announced(k)) = 0 <=> Announced(k) = {}
    <2>1. IsFiniteSet(Announced(k))
      BY <1>4, FS_Subset DEF FlowAt, Copies, Announced
    <2>2. \A j : Announced(j)' = Announced(j)
      BY <1>1 DEF Announced, StageOf
    <2> QED
      BY <2>1, <2>2, FS_EmptySet, FS_CardinalityType
  <1> DEFINE settles == l = Fills /\ Announced(k) = {}
             b == IF settles THEN Live(Fills, Fills, 0, 1 - Parity(k))
                  ELSE Live(Fills, Fills - l, Cardinality(Announced(k)), Parity(k))
  <1>16. Arrived(ready[StageOf(k)]) = b
    <2>1. Filling(k) /\ ~Full(k) /\ ready[StageOf(k)] = ReadyFor(k)
      <3>1. Filling(k) /\ ~Full(k)
        BY <1>7, <1>8 DEF Filling, Full
      <3> QED
        BY <1>2, <1>4, <1>6, <3>1 DEF FlowAt, Ring
    <2>2. ready[StageOf(k)] =
               Live(Fills, Fills - l + 1, Cardinality(Announced(k)), Parity(k))
      BY <2>1 DEF ReadyFor, Live, Object
    <2>3. Arrived(Live(Fills, Fills - l + 1, Cardinality(Announced(k)), Parity(k))) =
               IF Fills - l + 1 = 1 /\ Cardinality(Announced(k)) = 0
                  THEN Live(Fills, Fills, 0, 1 - Parity(k))
                  ELSE Live(Fills, (Fills - l + 1) - 1, Cardinality(Announced(k)), Parity(k))
      <3>1. ASSUME NEW p \in Nat, NEW x \in Nat, NEW g, p # 0
            PROVE  Arrived(Live(Fills, p, x, g)) =
                      IF p = 1 /\ x = 0 THEN Live(Fills, Fills, 0, 1 - g)
                                       ELSE Live(Fills, p - 1, x, g)
        BY <1>7, <3>1, LiveSteps
      <3> QED
        BY <1>8, <1>15, <3>1
    <2>4. Fills - l + 1 = 1 <=> l = Fills
      BY <1>7, <1>8
    <2> QED
      BY <1>8, <1>15, <2>2, <2>3, <2>4
  <1>17. ReadyFor(k)' = b
    <2>1. Parity(k)' = Parity(k) /\ Fills' = Fills
      BY <1>1 DEF Parity, Fills
    <2>2. CASE l < Len(sched.movements)
      <3>1. Filling(k)' /\ ~Full(k)' /\ Fills - copying'.load + 1 = Fills - l /\ ~settles
        BY <1>5, <1>7, <1>8, <2>2 DEF Filling, Full
      <3> QED
        BY <1>15, <2>1, <3>1 DEF ReadyFor, Live, Object
    <2>3. CASE l = Len(sched.movements)
      <3>1. ~Filling(k)' /\ Fills - l = 0 /\ (Full(k)' <=> settles)
        BY <1>5, <1>7, <1>8, <1>15, <2>3 DEF Filling, Full
      <3>2. CASE Announced(k) = {}
        BY <1>7, <1>15, <2>1, <2>3, <3>1, <3>2 DEF ReadyFor, Live, Object
      <3>3. CASE Announced(k) # {}
        BY <1>7, <1>15, <2>1, <2>3, <3>1, <3>3 DEF ReadyFor, Live, Object
      <3> QED
        BY <3>2, <3>3
    <2> QED
      BY <1>8, <2>2, <2>3
  <1>18. b \in Barrier
    <2>1. Parity(k) \in {0, 1} /\ 1 - Parity(k) \in {0, 1}
      <3>1. Parity(k) \in {0, 1}
        BY <1>2, <1>7, StageOfStep
      <3>2. \A g \in {0, 1} : 1 - g \in {0, 1}
        OBVIOUS
      <3> QED
        BY <3>1, <3>2
    <2> QED
      BY <1>7, <1>8, <1>15, <2>1 DEF Live, Object, Barrier
  <1>19. Ring(f)' /\ ready' \in [Stages -> Barrier]
    <2>1. \A j \in Window(f) \ {k} : ReadyFor(j)' = ReadyFor(j)
      BY <1>6, <1>15
    <2>2. ready' = [ready EXCEPT ![StageOf(k)] = b]
      BY <1>3, <1>16
    <2> HIDE DEF b
    <2>3. Ring(f)
      BY <1>2, <1>4 DEF FlowAt
    <2> QED
      BY <1>1, <1>2, <1>6, <1>17, <1>18, <2>1, <2>2, <2>3, StageSignalled
  <1>20. FlowAt(f, o)'
    BY <1>6, <1>12, <1>14, <1>19 DEF FlowAt
  <1>21. Shaped'
    BY <1>1, <1>5, <1>13, <1>19
       DEF IInv, Shaped, Stages, Mmas, Loads, Operands, Commands, DrainedStages
  <1>22. pc'[Issue] # "ring" => issuing' = [step |-> 0, drained |-> 0]
    BY <1>1, <1>5 DEF IInv, Idle
  <1> QED
    BY <1>1, <1>2, <1>5, <1>20, <1>21, <1>22, RingingStep DEF Step

(* The copy engine delivers: the last delivery of a filled stage settles   *)
(* its barrier.                                                            *)
LEMMA DeliverStep ==
    ASSUME IInv, Straight, Deliver
    PROVE  IInv' /\ Straight'
  <1>1. PICK c \in inflight :
           /\ smem' = [smem EXCEPT ![c.stage][c.load] = c.operand]
           /\ ready' = [ready EXCEPT ![c.stage] = Delivered(ready[c.stage])]
           /\ inflight' = inflight \ {c}
           /\ UNCHANGED <<sched, pc, tile, free, done, tmem, acc, copying, issuing, queue,
                          reading, out>>
    BY DEF Deliver
  <1>2. Ringing /\ sched \in Schedules /\ Shaped
    BY DEF IInv, Idle, TypeOK
  <1>3. PICK f \in 0..sched.trips, o \in 0..sched.mmas : FlowAt(f, o)
    BY <1>2 DEF IInv, Flow
  <1>4. /\ sched.stages \in Nat \ {0} /\ Fills \in Nat \ {0} /\ f \in Nat
        /\ Fills = Len(sched.movements) /\ sched.trips \in Nat
    BY <1>2, Sizes DEF Fills
  <1>5. PICK k \in Window(f), l \in Loads :
           k \in Issued..Copied /\ k < sched.trips /\ Started(k, l) /\ c = Transfer(k, l)
    BY <1>2, <1>3, <1>4, CopiesAhead DEF FlowAt
  <1>6. /\ c.stage = StageOf(k) /\ c.load = l /\ c.operand = <<Tile, k>>
        /\ k \in Nat /\ StageOf(k) \in Stages
    BY <1>2, <1>4, <1>5, WindowSteps, StageOfStep DEF Transfer
  <1>7. \A j \in Window(f) : j # k => StageOf(j) # StageOf(k)
    BY <1>2, <1>4, <1>5, WindowSteps
  <1>8. /\ Tile' = Tile /\ Issued' = Issued /\ Copied' = Copied /\ copying' = copying
        /\ \A j, i : Transfer(j, i)' = Transfer(j, i) /\ (Started(j, i)' <=> Started(j, i))
    BY <1>1 DEF Tile, Issued, Copied, Transfer, StageOf, Started
  <1>9. Ordered(f)' /\ Queued(f, o)' /\ Accumulators(f, o)' /\ Drained(f)' /\ Readouts(o)'
    <2>1. Ordered(f)' /\ Queued(f, o)' /\ Accumulators(f, o)'
      BY <1>1, <1>3, <1>8, Frames DEF FlowAt
    <2>2. Drained(f)' /\ Readouts(o)'
      BY <1>1, <1>3 DEF FlowAt, Drained, FinalStep, Readouts
    <2> QED
      BY <2>1, <2>2
  <1>10. Copies'
    <2>1. IsFiniteSet(inflight')
      BY <1>1, <1>3, FS_RemoveElement DEF FlowAt, Copies
    <2> QED
      BY <1>1, <1>3, <1>8, <2>1 DEF FlowAt, Copies, Loads
  <1>11. /\ smem' \in [Stages -> [Loads -> Operands \union {<< >>}]]
         /\ \A j \in Window(f), i \in Loads :
               smem'[StageOf(j)][i] = IF j = k /\ i = l THEN <<Tile, k>> ELSE smem[StageOf(j)][i]
    <2>1. smem \in [Stages -> [Loads -> Operands \union {<< >>}]]
      BY <1>2 DEF Shaped
    <2>2. <<Tile, k>> \in Operands
      <3>1. Tile \in 1..sched.tiles
        BY <1>2, Sizes DEF IInv, TypeOK, Tile
      <3> QED
        BY <1>4, <1>5, <1>6, <3>1 DEF Operands
    <2>3. \A j \in Window(f) : StageOf(j) \in Stages
      BY <1>2, <1>4, WindowSteps, StageOfStep
    <2> QED
      BY <1>1, <1>5, <1>6, <1>7, <2>1, <2>2, <2>3
  <1>12. Held(f)'
    <2> SUFFICES ASSUME NEW j \in f..Copied, NEW i \in Loads, Started(j, i)
                 PROVE  Transfer(j, i) \in inflight' \/ smem'[StageOf(j)][i] = <<Tile, j>>
      BY <1>1, <1>8 DEF Held, StageOf, Loads
    <2>1. Transfer(j, i) \in inflight \/ smem[StageOf(j)][i] = <<Tile, j>>
      BY <1>3 DEF FlowAt, Held
    <2>2. j \in Window(f)
      <3>1. Copied \in Nat /\ copying.load \in Nat /\ i \in Nat \ {0} /\ j \in Nat
        BY <1>2, <1>4 DEF Shaped, Copied, Loads
      <3> QED
        BY <1>3, <1>4, <3>1 DEF FlowAt, Ordered, Started, Window
    <2>3. CASE j = k /\ i = l
      BY <1>5, <1>11, <2>3
    <2>4. CASE ~(j = k /\ i = l)
      <3>1. Transfer(j, i) # c
        BY <1>6, <1>7, <2>2, <2>4 DEF Transfer
      <3>2. smem'[StageOf(j)][i] = smem[StageOf(j)][i]
        BY <1>11, <2>2, <2>4
      <3> QED
        BY <1>1, <2>1, <3>1, <3>2
    <2> QED
      BY <2>3, <2>4
  <1>13. /\ \A j \in Window(f) \ {k} : Announced(j)' = Announced(j)
         /\ Announced(k)' = Announced(k) \ {c} /\ c \in Announced(k)
    BY <1>1, <1>6, <1>7 DEF Announced, StageOf
  <1>14. /\ Cardinality(Announced(k)) \in Nat \ {0}
         /\ Cardinality(Announced(k)') = Cardinality(Announced(k)) - 1
         /\ Cardinality(Announced(k)) = 1 <=> Announced(k)' = {}
    <2>1. IsFiniteSet(Announced(k)) /\ IsFiniteSet(Announced(k)')
      BY <1>3, <1>13, FS_Subset, FS_RemoveElement DEF FlowAt, Copies, Announced
    <2>2. /\ Cardinality(Announced(k)) \in Nat
          /\ Cardinality(Announced(k)) = 0 <=> Announced(k) = {}
          /\ Cardinality(Announced(k)') = 0 <=> Announced(k)' = {}
          /\ Cardinality(Announced(k)') = Cardinality(Announced(k)) - 1
      BY <1>13, <2>1, FS_RemoveElement, FS_EmptySet, FS_CardinalityType
    <2> QED
      BY <1>13, <2>2
  <1> DEFINE n == Cardinality(Announced(k))
             p == IF Filling(k) THEN Fills - copying.load + 1 ELSE 0
             b == IF p = 0 /\ n = 1 THEN Live(Fills, Fills, 0, 1 - Parity(k))
                  ELSE Live(Fills, p, n - 1, Parity(k))
  <1>15. p \in Nat /\ (p = 0 <=> ~Filling(k)) /\ (~Filling(k) => k < Copied)
    <2>1. copying.load \in 0..Fills /\ Copied \in Nat /\ l \in Nat \ {0}
      BY <1>2, <1>4, <1>5 DEF Shaped, Copied, Loads
    <2>2. ASSUME NEW i \in 0..Fills
          PROVE  Fills - i + 1 \in Nat /\ Fills - i + 1 # 0
      BY <1>4
    <2>3. ~Filling(k) => k < Copied
      BY <1>5, <1>6, <2>1 DEF Filling, Started
    <2> QED
      BY <2>1, <2>2, <2>3
  <1>16. Delivered(ready[StageOf(k)]) = b
    <2>1. ready[StageOf(k)] = ReadyFor(k)
      BY <1>2, <1>3, <1>5 DEF FlowAt, Ring
    <2>2. ready[StageOf(k)] = Live(Fills, p, n, Parity(k))
      BY <1>13, <2>1 DEF ReadyFor, Live, Object, Full
    <2> HIDE DEF p, n
    <2>3. n \in Nat \ {0}
      BY <1>14 DEF n
    <2>4. Delivered(Live(Fills, p, n, Parity(k))) =
               IF p = 0 /\ n = 1 THEN Live(Fills, Fills, 0, 1 - Parity(k))
                                 ELSE Live(Fills, p, n - 1, Parity(k))
      BY <1>4, <1>15, <2>3, LiveSteps
    <2> QED
      BY <2>2, <2>4
  <1>17. ReadyFor(k)' = b
    <2>1. Parity(k)' = Parity(k) /\ Fills' = Fills /\ (Filling(k)' <=> Filling(k))
      BY <1>1, <1>8 DEF Parity, Fills, Filling
    <2>2. Full(k)' <=> k < Copied /\ Announced(k)' = {}
      BY <1>8 DEF Full
    <2>3. CASE Filling(k)
      <3>1. ~Full(k)' /\ p # 0
        BY <1>8, <1>15, <2>2, <2>3, <1>6 DEF Filling
      <3> QED
        BY <1>8, <1>14, <2>1, <2>3, <3>1 DEF ReadyFor, Live, Object
    <2>4. CASE ~Filling(k) /\ n = 1
      <3>1. Announced(k)' = {} /\ Cardinality(Announced(k)') = 0 /\ Full(k)' /\ ~Filling(k)' /\ p = 0
        BY <1>14, <1>15, <2>1, <2>2, <2>4
      <3>2. b = Live(Fills, Fills, 0, 1 - Parity(k))
        BY <2>4, <3>1
      <3> QED
        BY <2>1, <3>1, <3>2 DEF ReadyFor, Live, Object
    <2>5. CASE ~Filling(k) /\ n # 1
      BY <1>8, <1>14, <1>15, <2>1, <2>2, <2>5 DEF ReadyFor, Live, Object
    <2> QED
      BY <2>3, <2>4, <2>5
  <1>18. b \in Barrier
    <2>1. Parity(k) \in {0, 1} /\ 1 - Parity(k) \in {0, 1}
      <3>1. Parity(k) \in {0, 1}
        BY <1>2, <1>6, StageOfStep
      <3>2. \A g \in {0, 1} : 1 - g \in {0, 1}
        OBVIOUS
      <3> QED
        BY <3>1, <3>2
    <2>2. n - 1 \in Nat
      BY <1>14
    <2> HIDE DEF p, n
    <2> QED
      BY <1>4, <1>15, <2>1, <2>2 DEF Live, Object, Barrier
  <1>19. Ring(f)' /\ ready' \in [Stages -> Barrier]
    <2>1. \A j \in Window(f) \ {k} : ReadyFor(j)' = ReadyFor(j)
      BY <1>1, <1>8, <1>13 DEF ReadyFor, Filling, Full, Parity, Fills
    <2>2. ready' = [ready EXCEPT ![StageOf(k)] = b]
      BY <1>1, <1>6, <1>16
    <2> HIDE DEF b
    <2>3. Ring(f)
      BY <1>2, <1>3 DEF FlowAt
    <2> QED
      BY <1>1, <1>2, <1>5, <1>17, <1>18, <2>1, <2>2, <2>3, StageSignalled
  <1>20. FlowAt(f, o)'
    BY <1>9, <1>10, <1>12, <1>19 DEF FlowAt
  <1>21. Shaped'
    BY <1>1, <1>2, <1>11, <1>19
       DEF Shaped, Stages, Mmas, Loads, Operands, Commands, DrainedStages
  <1>22. /\ pc'[Issue] # "ring" => issuing' = [step |-> 0, drained |-> 0]
         /\ pc'[Copy] # "ring" => copying' = [step |-> 0, load |-> 0]
    BY <1>1 DEF IInv, Idle
  <1> QED
    BY <1>1, <1>2, <1>20, <1>21, <1>22, RingingStep

(* The MMA warp in the ring.                                               *)
LEMMA IssueWarp ==
    ASSUME IInv, pc[Issue] = "ring"
    PROVE  /\ Ringing /\ Issued = issuing.step /\ Issued \in 0..sched.trips
           /\ Tile = tile[Issue] /\ Tile \in 1..sched.tiles /\ sched \in Schedules
           /\ issuing.drained \in 0..(DrainedStages - 1)
           /\ \E f \in 0..sched.trips, o \in 0..sched.mmas : FlowAt(f, o)
  <1>1. Ringing
    BY Cast, WhereAll DEF IInv
  <1>2. Issued = issuing.step /\ Issued \in 0..sched.trips /\ issuing.drained \in 0..(DrainedStages - 1)
    BY DEF Issued, IInv, Shaped
  <1>3. Tile = tile[Issue] /\ Tile \in 1..sched.tiles
    BY Cast DEF IInv, Lockstep, TypeOK
  <1> QED
    BY <1>1, <1>2, <1>3 DEF IInv, Flow, TypeOK

(* One sequence behind another, behind a third and a fourth.               *)
Joined(S, r, q, a, b, c) ==
    LET x == Len(q)
        y == Len(a)
        z == Len(b)
        u == Len(c)
    IN  /\ r \in Seq(S) /\ Len(r) = x + y + z + u
        /\ \A p \in 1..x : r[p] = q[p]
        /\ \A i \in 1..y : r[x + i] = a[i]
        /\ \A i \in 1..z : r[x + y + i] = b[i]
        /\ \A i \in 1..u : r[x + y + z + i] = c[i]

LEMMA ThreeAppended ==
    ASSUME NEW S, NEW q \in Seq(S), NEW a \in Seq(S), NEW b \in Seq(S), NEW c \in Seq(S)
    PROVE  Joined(S, q \o a \o b \o c, q, a, b, c)
  BY DEF Joined

(* A place in the grown queue: an old command, or one of the new ones.     *)
Place(p, L, M, N) ==
    \/ p \in 1..L
    \/ \E i \in 1..M : p = L + i
    \/ p = L + M + 1
    \/ \E i \in 1..N : p = L + M + 1 + i

Placing(M, N, D, o, L) ==
    /\ \A i \in 1..M : i \in 1..(M + 1) /\ L + i = D + i - o
    /\ M + 1 \in 1..(M + 1) /\ L + M + 1 = D + (M + 1) - o
    /\ \A i \in 1..M : L + M + 1 + i = (D + (M + 1)) + i - o
    /\ \A p \in 1..(L + M + 1 + N) : Place(p, L, M, N)
    /\ L + M + 1 + 0 = (D + (M + 1)) - o + 0
    /\ L + M + 1 + M = (D + (M + 1)) - o + M

LEMMA Places ==
    ASSUME NEW M \in Nat, NEW N \in Nat, NEW D \in Nat, NEW o \in 0..M, NEW L \in Nat, L = D - o
    PROVE  Placing(M, N, D, o, L)
  <1>1. ASSUME NEW p \in 1..(L + M + 1 + N)
        PROVE  Place(p, L, M, N)
    <2>1. p \in 1..L \/ p - L \in 1..M \/ p = L + M + 1 \/ p - (L + M + 1) \in 1..N
      OBVIOUS
    <2>2. p = L + (p - L) /\ p = L + M + 1 + (p - (L + M + 1))
      OBVIOUS
    <2> QED
      BY <2>1, <2>2 DEF Place
  <1>2. /\ \A i \in 1..M : i \in 1..(M + 1) /\ L + i = D + i - o
        /\ M + 1 \in 1..(M + 1) /\ L + M + 1 = D + (M + 1) - o
        /\ \A i \in 1..M : L + M + 1 + i = (D + (M + 1)) + i - o
        /\ L + M + 1 + 0 = (D + (M + 1)) - o + 0
        /\ L + M + 1 + M = (D + (M + 1)) - o + M
    OBVIOUS
  <1> QED
    BY <1>1, <1>2 DEF Placing

(* What the MMA warp issues on a step are the commands of that step.       *)
LEMMA CommandLists ==
    ASSUME sched \in Schedules, NEW w, tile[w] = Tile, Tile \in 1..sched.tiles,
           NEW k \in 0..(sched.trips - 1)
    PROVE  /\ MmasOn(w, k) \in Seq(Commands) /\ Len(MmasOn(w, k)) = sched.mmas
           /\ \A i \in 1..sched.mmas : MmasOn(w, k)[i] = Command(k, i)
           /\ ReturnStage(k) \in Seq(Commands) /\ Len(ReturnStage(k)) = 1
           /\ ReturnStage(k)[1] = Command(k, sched.mmas + 1)
           /\ Published(k) \in Seq(Commands)
           /\ k + 1 = sched.trips =>
                 /\ Len(Published(k)) = sched.mmas
                 /\ \A i \in 1..sched.mmas : Published(k)[i] = Command(sched.trips, i)
           /\ k + 1 # sched.trips => Len(Published(k)) = 0
  <1>1. /\ sched.mmas \in Nat \ {0} /\ sched.trips \in Nat \ {0} /\ k \in Nat /\ k # sched.trips
        /\ StageOf(k) \in Nat
    <2>1. sched.mmas \in Nat \ {0} /\ sched.trips \in Nat \ {0} /\ sched.stages \in Nat \ {0}
      BY Sizes
    <2>2. k \in Nat /\ k # sched.trips
      BY <2>1
    <2>3. StageOf(k) \in Stages
      BY <2>2, StageOfStep
    <2> QED
      BY <2>1, <2>2, <2>3 DEF Stages
  <1>2. <<Tile, k>> \in Operands
    BY DEF Operands
  <1>3. ASSUME NEW n \in Nat, NEW q \in [1..n -> Commands]
        PROVE  q \in Seq(Commands) /\ Len(q) = n
    <2>1. q \in Seq(Commands)
      BY SeqDef
    <2>2. DOMAIN q = 1..n /\ DOMAIN q = 1..Len(q) /\ Len(q) \in Nat
      BY <2>1, LenProperties
    <2> QED
      BY <2>1, <2>2
  <1>4. /\ MmasOn(w, k) \in [1..sched.mmas -> Commands]
        /\ \A i \in 1..sched.mmas : MmasOn(w, k)[i] = Command(k, i)
    BY <1>1, <1>2 DEF MmasOn, Mmas, Commands, Command
  <1>5. /\ ReturnStage(k) \in Seq(Commands) /\ Len(ReturnStage(k)) = 1
        /\ ReturnStage(k)[1] = Command(k, sched.mmas + 1)
    <2>1. Command(k, sched.mmas + 1) =
             [kind |-> "free", mma |-> 0, stage |-> StageOf(k), operand |-> << >>]
      BY <1>1 DEF Command
    <2>2. Command(k, sched.mmas + 1) \in Commands
      BY <1>1, <2>1 DEF Commands
    <2>3. ReturnStage(k) = <<Command(k, sched.mmas + 1)>>
      BY <2>1 DEF ReturnStage
    <2> QED
      BY <2>2, <2>3
  <1>6. /\ PublishAll \in [1..sched.mmas -> Commands]
        /\ \A i \in 1..sched.mmas : PublishAll[i] = Command(sched.trips, i)
    BY <1>1 DEF PublishAll, Mmas, Commands, Command
  <1>7. MmasOn(w, k) \in Seq(Commands) /\ Len(MmasOn(w, k)) = sched.mmas
    BY <1>1, <1>3, <1>4
  <1>8. PublishAll \in Seq(Commands) /\ Len(PublishAll) = sched.mmas
    BY <1>1, <1>3, <1>6
  <1>9. CASE k + 1 = sched.trips
    BY <1>4, <1>5, <1>6, <1>7, <1>8, <1>9 DEF Published
  <1>10. CASE k + 1 # sched.trips
    BY <1>4, <1>5, <1>7, <1>10, EmptySeq, LenProperties DEF Published
  <1> QED
    BY <1>9, <1>10

(* The queue behind an issued step holds the commands of that step too.    *)
Grown(r, k) ==
    LET L == Len(queue)
        M == sched.mmas
        T == sched.trips
        N == IF k + 1 = T THEN M ELSE 0
    IN  /\ Len(r) = L + M + 1 + N
        /\ \A p \in 1..L : r[p] = queue[p]
        /\ \A i \in 1..M : r[L + i] = Command(k, i)
        /\ r[L + M + 1] = Command(k, M + 1)
        /\ \A i \in 1..N : r[L + M + 1 + i] = Command(T, i)

LEMMA QueueGrows ==
    ASSUME NEW M \in Nat \ {0}, M = sched.mmas, NEW T \in Nat \ {0}, T = sched.trips,
           NEW L \in Nat, L = Len(queue), NEW P \in Nat, P = PerStep,
           NEW f \in Nat, NEW o \in 0..M, Queued(f, o), NEW k \in Nat, k = Issued, f <= k, k < T,
           sched' = sched, Tile' = Tile, Issued' = k + 1, NEW r, r = queue', Grown(r, k)
    PROVE  Queued(f, o)'
  <1>0. /\ P = M + 1 /\ (k + 1) - f = (k - f) + 1 /\ k - f \in Nat
        /\ k < T /\ k \in f..T /\ k # T /\ k < k + 1 /\ k + 1 <= T
        /\ \A j \in f..T : j < k => j < k + 1
    <2>1. ASSUME NEW t \in Nat, k < t
          PROVE  /\ (k + 1) - f = (k - f) + 1 /\ k - f \in Nat
                 /\ k \in f..t /\ k # t /\ k < k + 1 /\ k + 1 <= t
                 /\ \A j \in f..t : j < k => j < k + 1
      BY <2>1
    <2>2. P = M + 1
      BY DEF PerStep
    <2> QED
      BY <2>1, <2>2
  <1>1. \A d, q \in Nat : d * q \in Nat /\ (d + 1) * q = d * q + q
    OBVIOUS
  <1>2. PICK D \in Nat : D = (k - f) * PerStep
    BY <1>0, <1>1
  <1>3. ((k + 1) - f) * PerStep = D + P
    <2>1. ((k - f) + 1) * P = (k - f) * P + P
      BY <1>0, <1>1
    <2> QED
      BY <1>0, <1>2, <2>1
  <1>4. /\ L = D - o
        /\ \A p \in 1..L : \E j \in f..T, i \in 1..P :
              p = (j - f) * PerStep + i - o /\ Standing(j, i) /\ queue[p] = Command(j, i)
    <2>1. Len(queue) = (Issued - f) * PerStep - o + (IF Issued = sched.trips THEN sched.mmas ELSE 0)
      BY DEF Queued
    <2>2. L = D - o + 0
      BY <1>0, <1>2, <2>1
    <2>3. \A d \in Nat : d - o + 0 = d - o
      OBVIOUS
    <2>4. L = D - o
      BY <2>2, <2>3
    <2> QED
      BY <2>4 DEF Queued
  <1>5. PICK N \in Nat : N = IF k + 1 = T THEN M ELSE 0
    OBVIOUS
  <1>6. /\ Len(r) = L + M + 1 + N
        /\ \A p \in 1..L : r[p] = queue[p]
        /\ \A i \in 1..M : r[L + i] = Command(k, i)
        /\ r[L + M + 1] = Command(k, M + 1)
        /\ \A i \in 1..N : r[L + M + 1 + i] = Command(T, i)
    BY <1>5 DEF Grown
  <1>65. Placing(M, N, D, o, L)
    <2>1. L = D - o /\ M \in Nat
      BY <1>4
    <2> QED
      BY <2>1, Places
  <1>7. /\ PerStep' = PerStep /\ \A j, i : Command(j, i)' = Command(j, i)
        /\ \A j, i : Standing(j, i)' <=> j < k + 1 \/ (j = T /\ k + 1 = T /\ i <= M)
    BY DEF PerStep, Command, StageOf, Standing
  <1>8. Len(r) = ((k + 1) - f) * PerStep - o + (IF k + 1 = T THEN M ELSE 0)
    <2>1. L + M + 1 + 0 = (D + P) - o + 0 /\ L + M + 1 + M = (D + P) - o + M
      BY <1>0, <1>65 DEF Placing
    <2>2. CASE k + 1 = T
      BY <1>3, <1>5, <1>6, <2>1, <2>2
    <2>3. CASE k + 1 # T
      BY <1>3, <1>5, <1>6, <2>1, <2>3
    <2> QED
      BY <2>2, <2>3
  <1>9. /\ \A i \in 1..M : i \in 1..(M + 1) /\ L + i = D + i - o
        /\ M + 1 \in 1..(M + 1) /\ L + M + 1 = D + (M + 1) - o
        /\ \A i \in 1..M : L + M + 1 + i = (D + (M + 1)) + i - o
        /\ \A p \in 1..(L + M + 1 + N) : Place(p, L, M, N)
    BY <1>65 DEF Placing
  <1>10. ASSUME NEW p \in 1..(L + M + 1 + N)
        PROVE  \E j \in f..T, i \in 1..P :
                  /\ p = (j - f) * PerStep + i - o
                  /\ Standing(j, i)' /\ r[p] = Command(j, i)
    <2>1. Place(p, L, M, N)
      BY <1>9
    <2>2. CASE p \in 1..L
      <3>1. PICK j \in f..T, i \in 1..P :
               p = (j - f) * PerStep + i - o /\ Standing(j, i) /\ queue[p] = Command(j, i)
        BY <1>4, <2>2
      <3>2. Standing(j, i)'
        <4>1. j < k
          BY <1>0, <3>1 DEF Standing
        <4> QED
          BY <1>0, <1>7, <4>1
      <3> QED
        BY <1>6, <2>2, <3>1, <3>2
    <2>3. ASSUME NEW i \in 1..M, p = L + i
          PROVE  \E j \in f..T, e \in 1..P :
                    /\ p = (j - f) * PerStep + e - o
                    /\ Standing(j, e)' /\ r[p] = Command(j, e)
      <3>1. i \in 1..P /\ p = (k - f) * PerStep + i - o
        <4>1. i \in 1..(M + 1) /\ L + i = D + i - o
          BY <1>9
        <4> QED
          BY <1>0, <1>2, <2>3, <4>1
      <3>2. Standing(k, i)' /\ r[p] = Command(k, i)
        BY <1>0, <1>6, <1>7, <2>3
      <3> QED
        BY <1>0, <3>1, <3>2
    <2>4. CASE p = L + M + 1
      <3>1. M + 1 \in 1..P /\ p = (k - f) * PerStep + (M + 1) - o
        <4>1. M + 1 \in 1..(M + 1) /\ L + M + 1 = D + (M + 1) - o
          BY <1>9
        <4> QED
          BY <1>0, <1>2, <2>4, <4>1
      <3>2. Standing(k, M + 1)' /\ r[p] = Command(k, M + 1)
        BY <1>0, <1>6, <1>7, <2>4
      <3> QED
        BY <1>0, <3>1, <3>2
    <2>5. ASSUME NEW i \in 1..N, p = L + M + 1 + i
          PROVE  \E j \in f..T, e \in 1..P :
                    /\ p = (j - f) * PerStep + e - o
                    /\ Standing(j, e)' /\ r[p] = Command(j, e)
      <3>1. k + 1 = T /\ i \in 1..M /\ i <= M
        <4>1. N # 0
          OBVIOUS
        <4>2. k + 1 = T /\ N = M
          BY <1>5, <4>1
        <4> QED
          BY <4>2
      <3>2. i \in 1..P /\ p = (T - f) * PerStep + i - o
        <4>1. i \in 1..(M + 1) /\ L + M + 1 + i = (D + (M + 1)) + i - o
          BY <1>9, <3>1
        <4> QED
          BY <1>0, <1>3, <2>5, <3>1, <4>1
      <3>3. Standing(T, i)' /\ T \in f..T /\ r[p] = Command(T, i)
        <4>1. T \in f..T
          BY <1>0, <3>1
        <4>2. Standing(T, i)'
          BY <1>7, <3>1
        <4>3. r[p] = Command(T, i)
          BY <1>6, <2>5
        <4> QED
          BY <4>1, <4>2, <4>3
      <3> QED
        BY <3>2, <3>3
    <2> QED
      BY <2>1, <2>2, <2>3, <2>4, <2>5 DEF Place
  <1>11. Len(queue)' = ((k + 1) - f) * PerStep' - o
                         + (IF Issued' = sched'.trips THEN sched'.mmas ELSE 0)
    BY <1>7, <1>8
  <1>12. \A p \in 1..Len(queue)' : \E j \in f..sched'.trips, i \in 1..PerStep' :
               /\ p = (j - f) * PerStep' + i - o
               /\ Standing(j, i)' /\ queue'[p] = Command(j, i)'
    <2> SUFFICES ASSUME NEW p \in 1..(L + M + 1 + N)
                 PROVE  \E j \in f..T, i \in 1..P :
                           /\ p = (j - f) * PerStep' + i - o
                           /\ Standing(j, i)' /\ r[p] = Command(j, i)'
      <3>1. Len(queue)' = L + M + 1 + N /\ PerStep' = P /\ sched'.trips = T
        BY <1>6, <1>7
      <3> QED
        BY <3>1
    <2>1. PICK j \in f..T, i \in 1..P :
             /\ p = (j - f) * PerStep + i - o
             /\ Standing(j, i)' /\ r[p] = Command(j, i)
      BY <1>10
    <2>2. Command(j, i)' = Command(j, i) /\ p = (j - f) * PerStep' + i - o
      BY <1>7, <2>1
    <2> QED
      BY <2>1, <2>2
  <1> QED
    BY <1>11, <1>12 DEF Queued

(* A wait that returns finds the stage full: the copy warp is ahead, and   *)
(* nothing announced on the stage is outstanding.                          *)
LEMMA IssueStepStep ==
    ASSUME IInv, Straight, NEW w \in Warps, IssueStep(w)
    PROVE  IInv' /\ Straight'
  <1> SUFFICES ASSUME NEW k, k = issuing.step
               PROVE  IInv' /\ Straight'
    OBVIOUS
  <1>1. /\ w = Issue /\ pc[Issue] = "ring" /\ k < sched.trips
        /\ Passed(ready[StageOf(k)], Parity(k))
        /\ issuing' = [issuing EXCEPT !.step = k + 1]
        /\ UNCHANGED <<sched, pc, tile, ready, free, done, tmem, smem, acc, copying, inflight,
                       reading, out>>
    BY DEF IssueStep
  <1>2. /\ Ringing /\ k = Issued /\ k \in 0..sched.trips /\ Tile = tile[w] /\ Tile \in 1..sched.tiles
        /\ sched \in Schedules
    BY <1>1, IssueWarp
  <1>3. PICK f \in 0..sched.trips, o \in 0..sched.mmas : FlowAt(f, o)
    BY <1>1, IssueWarp
  <1>4. /\ sched.stages \in Nat \ {0} /\ sched.trips \in Nat \ {0} /\ sched.mmas \in Nat \ {0}
        /\ f \in Nat /\ k \in Nat /\ Copied \in Nat
    <2>1. sched.stages \in Nat \ {0} /\ sched.trips \in Nat \ {0} /\ sched.mmas \in Nat \ {0}
      BY <1>2, Sizes
    <2> QED
      BY <1>2, <2>1 DEF IInv, Shaped, Copied
  <1>5. f <= k /\ k <= Copied /\ Copied <= f + sched.stages
    BY <1>2, <1>3 DEF FlowAt, Ordered
  <1>6. Copies /\ Ordered(f) /\ Ring(f) /\ Shaped
    BY <1>2, <1>3 DEF FlowAt, IInv
  <1>7. k \in Window(f)
    <2> SUFFICES ASSUME k = f + sched.stages
                 PROVE  FALSE
      BY <1>4, <1>5 DEF Window
    <2>1. f \in Window(f) /\ f < k /\ f < Copied
      BY <1>2, <1>4, <1>5, WindowSteps
    <2>2. Announced(f) = {}
      BY <1>2, <1>4, <1>6, <2>1, NoneAnnounced
    <2>3. ready[StageOf(f)].live /\ ready[StageOf(f)].phase = 1 - Parity(f)
      <3>1. ready[StageOf(f)] = ReadyFor(f) /\ Full(f)
        BY <1>6, <2>1, <2>2 DEF Ring, Full
      <3> QED
        BY <3>1 DEF ReadyFor
    <2>4. StageOf(k) = StageOf(f) /\ Parity(k) = 1 - Parity(f)
      BY <1>2, <1>4, StageOfStep
    <2> QED
      BY <1>1, <2>3, <2>4 DEF Passed
  <1>8. k < Copied /\ Announced(k) = {}
    <2>1. ready[StageOf(k)] = ReadyFor(k)
      BY <1>6, <1>7 DEF Ring
    <2>2. ReadyFor(k).live /\ ReadyFor(k).phase = IF Full(k) THEN 1 - Parity(k) ELSE Parity(k)
      BY DEF ReadyFor
    <2> QED
      BY <1>1, <2>1, <2>2 DEF Passed, Full
  <1>9. /\ issuing' \in [step : 0..sched.trips, drained : 0..(DrainedStages - 1)]
        /\ Issued' = k + 1 /\ issuing'.drained = issuing.drained
        /\ Copied' = Copied /\ Tile' = Tile
    <2>1. k + 1 \in 0..sched.trips
      BY <1>1, <1>4
    <2>2. issuing \in [step : 0..sched.trips, drained : 0..(DrainedStages - 1)]
      BY <1>6 DEF Shaped
    <2> QED
      BY <1>1, <2>1, <2>2 DEF Issued, Copied, Tile
  <1>10. Grown(queue', k) /\ queue' \in Seq(Commands)
    <2>1. queue \in Seq(Commands)
      BY <1>6 DEF Shaped
    <2>2. queue' = queue \o MmasOn(w, k) \o ReturnStage(k) \o Published(k)
      BY DEF IssueStep
    <2>3. k \in 0..(sched.trips - 1)
      BY <1>1, <1>4
    <2>4. /\ MmasOn(w, k) \in Seq(Commands) /\ Len(MmasOn(w, k)) = sched.mmas
          /\ \A i \in 1..sched.mmas : MmasOn(w, k)[i] = Command(k, i)
          /\ ReturnStage(k) \in Seq(Commands) /\ Len(ReturnStage(k)) = 1
          /\ ReturnStage(k)[1] = Command(k, sched.mmas + 1)
          /\ Published(k) \in Seq(Commands)
          /\ k + 1 = sched.trips =>
                /\ Len(Published(k)) = sched.mmas
                /\ \A i \in 1..sched.mmas : Published(k)[i] = Command(sched.trips, i)
          /\ k + 1 # sched.trips => Len(Published(k)) = 0
      BY <1>2, <2>3, CommandLists
    <2>5. Len(queue) \in Nat /\ Len(Published(k)) \in Nat
      BY <2>1, <2>4, LenProperties
    <2> SUFFICES ASSUME NEW M \in Nat, M = sched.mmas, NEW L \in Nat, L = Len(queue),
                        NEW N \in Nat, N = Len(Published(k))
                 PROVE  Grown(queue', k) /\ queue' \in Seq(Commands)
      BY <1>4, <2>5
    <2>6. /\ queue' \in Seq(Commands) /\ Len(queue') = L + M + 1 + N
          /\ \A p \in 1..L : queue'[p] = queue[p]
          /\ \A i \in 1..M : queue'[L + i] = MmasOn(w, k)[i]
          /\ queue'[L + M + 1] = ReturnStage(k)[1]
          /\ \A i \in 1..N : queue'[L + M + 1 + i] = Published(k)[i]
      <3>1. Joined(Commands, queue \o MmasOn(w, k) \o ReturnStage(k) \o Published(k),
                   queue, MmasOn(w, k), ReturnStage(k), Published(k))
        <4>1. /\ queue \in Seq(Commands) /\ MmasOn(w, k) \in Seq(Commands)
              /\ ReturnStage(k) \in Seq(Commands) /\ Published(k) \in Seq(Commands)
          BY <2>1, <2>4
        <4> QED
          BY ONLY <4>1, ThreeAppended
      <3>2. Joined(Commands, queue', queue, MmasOn(w, k), ReturnStage(k), Published(k))
        BY <2>2, <3>1
      <3>3. queue'[L + M + 1] = ReturnStage(k)[1]
        BY <2>4, <3>2 DEF Joined
      <3> QED
        BY <2>4, <3>2, <3>3 DEF Joined
    <2>7. N = IF k + 1 = sched.trips THEN M ELSE 0
      BY <2>4
    <2>8. /\ queue' \in Seq(Commands) /\ Len(queue') = L + M + 1 + N
          /\ \A p \in 1..L : queue'[p] = queue[p]
      BY <2>6
    <2>81. ASSUME NEW i \in 1..M
           PROVE  queue'[L + i] = Command(k, i)
      <3>1. queue'[L + i] = MmasOn(w, k)[i]
        BY <2>6
      <3>2. i \in 1..sched.mmas
        OBVIOUS
      <3> QED
        BY <2>4, <3>1, <3>2
    <2>82. ASSUME NEW i \in 1..N
           PROVE  queue'[L + M + 1 + i] = Command(sched.trips, i)
      <3>1. queue'[L + M + 1 + i] = Published(k)[i]
        BY <2>6
      <3>2. k + 1 = sched.trips /\ i \in 1..sched.mmas
        <4>1. i >= 1 /\ i <= N
          OBVIOUS
        <4> QED
          BY <2>7, <4>1
      <3> QED
        BY <2>4, <3>1, <3>2
    <2>9. queue'[L + M + 1] = Command(k, M + 1)
      <3>1. queue'[L + M + 1] = ReturnStage(k)[1]
        BY <2>6
      <3> QED
        BY <2>4, <3>1
    <2> QED
      BY <2>7, <2>8, <2>81, <2>82, <2>9 DEF Grown
  <1>11. Queued(f, o)'
    <2>1. Len(queue) \in Nat /\ PerStep \in Nat
      BY <1>4, <1>6, LenProperties DEF Shaped, PerStep
    <2>2. Queued(f, o)
      BY <1>3 DEF FlowAt
    <2> QED
      BY <1>1, <1>2, <1>4, <1>5, <1>9, <1>10, <2>1, <2>2, QueueGrows
  <1>12. Ordered(f)'
    BY <1>1, <1>2, <1>4, <1>5, <1>6, <1>8, <1>9 DEF Ordered
  <1>13. Held(f)' /\ Ring(f)' /\ Accumulators(f, o)'
    BY <1>1, <1>3, <1>6, <1>9, Frames DEF FlowAt
  <1>14. Copies'
    <2>1. \A j, i : Transfer(j, i)' = Transfer(j, i) /\ (Started(j, i)' <=> Started(j, i))
      BY <1>1, <1>9 DEF Transfer, StageOf, Started
    <2>2. ASSUME NEW c \in inflight
          PROVE  \E j \in (k + 1)..Copied, l \in Loads :
                    j < sched.trips /\ Started(j, l) /\ c = Transfer(j, l)
      <3>1. PICK j \in Issued..Copied, l \in Loads :
               j < sched.trips /\ Started(j, l) /\ c = Transfer(j, l)
        BY <1>6 DEF Copies
      <3>2. j # k
        BY <1>8, <3>1 DEF Announced, Transfer
      <3>3. j \in (k + 1)..Copied
        BY <1>2, <1>4, <3>1, <3>2
      <3> QED
        BY <3>1, <3>3
    <2> QED
      BY <1>1, <1>6, <1>9, <2>1, <2>2 DEF Copies, Loads
  <1>15. Drained(f)' /\ Readouts(o)'
    BY <1>1, <1>3, <1>9 DEF FlowAt, Drained, FinalStep, Readouts
  <1>16. FlowAt(f, o)'
    BY <1>11, <1>12, <1>13, <1>14, <1>15 DEF FlowAt
  <1>17. Shaped'
    BY <1>1, <1>6, <1>9, <1>10
       DEF Shaped, Stages, Mmas, Loads, Operands, Commands, DrainedStages
  <1>18. /\ pc'[Issue] # "ring" => issuing' = [step |-> 0, drained |-> 0]
         /\ pc'[Copy] # "ring" => copying' = [step |-> 0, load |-> 0]
    BY <1>1 DEF IInv, Idle
  <1> QED
    BY <1>1, <1>2, <1>16, <1>17, <1>18, RingingStep DEF Step

(* A wait of the drain that returns finds the last step of its stage       *)
(* executed, and the last of them the last step of all.                    *)
LEMMA DrainStep ==
    ASSUME IInv, Straight, NEW w \in Warps, Drain(w)
    PROVE  IInv' /\ Straight'
  <1> SUFFICES ASSUME NEW d, d = issuing.drained
               PROVE  IInv' /\ Straight'
    OBVIOUS
  <1>1. /\ w = Issue /\ pc[Issue] = "ring" /\ issuing.step = sched.trips
        /\ Passed(free[d], Parity(FinalStep(d)))
        /\ \/ /\ d + 1 < DrainedStages
              /\ issuing' = [issuing EXCEPT !.drained = d + 1] /\ pc' = pc
           \/ /\ ~(d + 1 < DrainedStages)
              /\ issuing' = [step |-> 0, drained |-> 0] /\ pc' = [pc EXCEPT ![Issue] = "syncRing"]
        /\ UNCHANGED <<sched, tile, ready, free, done, tmem, smem, acc, copying, inflight, queue,
                       reading, out>>
    BY DEF Drain, Goto
  <1>2. /\ Ringing /\ Issued = sched.trips /\ d \in 0..(DrainedStages - 1)
        /\ sched \in Schedules /\ Shaped /\ pc \in [Warps -> Segments]
    BY <1>1, IssueWarp DEF IInv, TypeOK, Segments
  <1>3. PICK f \in 0..sched.trips, o \in 0..sched.mmas : FlowAt(f, o)
    BY <1>1, IssueWarp
  <1>4. /\ sched.stages \in Nat \ {0} /\ sched.trips \in Nat \ {0} /\ f \in Nat
        /\ Copied \in Nat /\ DrainedStages \in Nat \ {0}
    <2>1. sched.stages \in Nat \ {0} /\ sched.trips \in Nat \ {0} /\ DrainedStages \in Nat \ {0}
      BY <1>2, Sizes, DrainWaits
    <2> QED
      BY <1>2, <2>1 DEF Shaped, Copied
  <1>5. sched.trips <= Copied /\ Copied <= f + sched.stages /\ Ring(f)
    BY <1>2, <1>3 DEF FlowAt, Ordered
  <1>6. FinalStep(d) \in 0..(sched.trips - 1) /\ StageOf(FinalStep(d)) = d
    BY <1>2, DrainWaits
  <1>7. FinalStep(d) < f
    <2> SUFFICES ASSUME f <= FinalStep(d)
                 PROVE  FALSE
      BY <1>4, <1>6
    <2>1. FinalStep(d) \in Window(f)
      BY <1>4, <1>5, <1>6 DEF Window
    <2>2. free[d] = FreeFor(FinalStep(d))
      BY <1>5, <1>6, <2>1 DEF Ring
    <2> QED
      BY <1>1, <2>2 DEF Passed, FreeFor
  <1>8. \A stage \in 0..d : FinalStep(stage) < f
    <2>1. \A stage \in 0..(d - 1) : FinalStep(stage) < f
      BY <1>1, <1>2, <1>3 DEF FlowAt, Drained
    <2>2. \A stage \in 0..d : stage \in 0..(d - 1) \/ stage = d
      BY <1>2, <1>4
    <2> QED
      BY <1>7, <2>1, <2>2
  <1>9. /\ issuing' \in [step : 0..sched.trips, drained : 0..(DrainedStages - 1)]
        /\ Issued' = Issued /\ Copied' = Copied /\ Tile' = Tile
        /\ \A v \in Readers : pc'[v] = pc[v]
        /\ pc'[Issue] # "ring" => issuing' = [step |-> 0, drained |-> 0]
        /\ pc'[Copy] = pc[Copy]
    <2>1. issuing \in [step : 0..sched.trips, drained : 0..(DrainedStages - 1)]
      BY <1>2 DEF Shaped
    <2>2. CASE d + 1 < DrainedStages
      <3>1. issuing' = [issuing EXCEPT !.drained = d + 1] /\ pc' = pc
        BY <1>1, <2>2
      <3>2. d + 1 \in 0..(DrainedStages - 1)
        BY <1>2, <1>4, <2>2
      <3> QED
        BY <1>1, <2>1, <3>1, <3>2 DEF Issued, Copied, Tile
    <2>3. CASE ~(d + 1 < DrainedStages)
      <3>1. issuing' = [step |-> 0, drained |-> 0] /\ pc' = [pc EXCEPT ![Issue] = "syncRing"]
        BY <1>1, <2>3
      <3>2. 0 \in 0..sched.trips /\ 0 \in 0..(DrainedStages - 1)
        BY <1>4
      <3>3. pc'[Issue] = "syncRing" /\ pc'[Copy] = pc[Copy] /\ \A v \in Readers : pc'[v] = pc[v]
        BY <1>2, <3>1, Cast
      <3>4. Issued' = sched.trips
        BY <1>1, <3>3 DEF Issued
      <3> QED
        BY <1>1, <1>2, <3>1, <3>2, <3>3, <3>4 DEF Copied, Tile
    <2> QED
      BY <2>2, <2>3
  <1>10. Drained(f)'
    <2>1. \A stage : FinalStep(stage)' = FinalStep(stage)
      BY <1>1 DEF FinalStep
    <2>2. CASE d + 1 < DrainedStages
      <3>1. pc'[Issue] = "ring" /\ issuing'.drained = d + 1
        BY <1>1, <1>2, <2>2 DEF Shaped
      <3>2. \A stage \in 0..((d + 1) - 1) : stage \in 0..d
        BY <1>2, <1>4
      <3> QED
        BY <1>8, <2>1, <3>1, <3>2 DEF Drained
    <2>3. CASE ~(d + 1 < DrainedStages)
      <3>1. PICK e \in 0..(DrainedStages - 1) : FinalStep(e) = sched.trips - 1
        BY <1>2, DrainWaits
      <3>2. e \in 0..d
        BY <1>2, <1>4, <2>3, <3>1
      <3>3. f = sched.trips
        BY <1>4, <1>8, <3>1, <3>2
      <3>4. pc'[Issue] # "ring"
        BY <1>1, <1>2, <2>3, Cast
      <3> QED
        BY <1>1, <3>3, <3>4 DEF Drained
    <2> QED
      BY <2>2, <2>3
  <1>11. /\ Ordered(f)' /\ Queued(f, o)' /\ Copies' /\ Held(f)' /\ Ring(f)'
         /\ Accumulators(f, o)'
    BY <1>1, <1>2, <1>3, <1>9, Frames DEF FlowAt
  <1>12. Readouts(o)'
    BY <1>1, <1>3, <1>9 DEF FlowAt, Readouts
  <1>13. FlowAt(f, o)'
    BY <1>10, <1>11, <1>12 DEF FlowAt
  <1>14. Shaped'
    BY <1>1, <1>2, <1>9
       DEF Shaped, Stages, Mmas, Loads, Operands, Commands, DrainedStages
  <1>15. pc'[Copy] # "ring" => copying' = [step |-> 0, load |-> 0]
    BY <1>1, <1>9 DEF IInv, Idle
  <1> QED
    BY <1>1, <1>2, <1>9, <1>13, <1>14, <1>15, RingingStep DEF Step

-------------------------------------------------------------------------------
(* The tensor engine *)

LEMMA Multiples ==
    ASSUME NEW d \in Nat, NEW P \in Nat
    PROVE  /\ d * P \in Nat /\ (d # 0 => d * P >= P)
           /\ d # 0 => (d - 1) \in Nat /\ (d - 1) * P = d * P - P
  <1>1. d * P \in Nat
    OBVIOUS
  <1>2. ASSUME d # 0
        PROVE  (d - 1) \in Nat /\ (d - 1) * P = d * P - P /\ d * P >= P
    <2>1. d - 1 \in Nat
      BY <1>2
    <2>2. PICK e \in Nat : e = d - 1
      BY <2>1
    <2>3. d = e + 1
      BY <2>2
    <2>4. (e + 1) * P = e * P + P /\ e * P \in Nat
      OBVIOUS
    <2>5. d * P = e * P + P
      BY <2>3, <2>4
    <2> QED
      BY <2>1, <2>2, <2>4, <2>5
  <1> QED
    BY <1>1, <1>2

(* The command at the head of the queue is the next of the flow.           *)
LEMMA HeadCommand ==
    ASSUME NEW M \in Nat \ {0}, M = sched.mmas, NEW P \in Nat, P = PerStep,
           NEW T \in Nat \ {0}, T = sched.trips, NEW f \in 0..T, NEW o \in 0..M,
           Queued(f, o), queue \in Seq(Commands), queue # << >>
    PROVE  Standing(f, o + 1) /\ Head(queue) = Command(f, o + 1)
  <1>1. P = M + 1
    BY DEF PerStep
  <1>2. 1 \in 1..Len(queue) /\ Head(queue) = queue[1]
    OBVIOUS
  <1>3. PICK k \in f..T, i \in 1..P :
           1 = (k - f) * PerStep + i - o /\ Standing(k, i) /\ queue[1] = Command(k, i)
    BY <1>2 DEF Queued
  <1>4. k - f \in Nat /\ (k = f <=> k - f = 0)
    OBVIOUS
  <1>5. PICK D : D = (k - f) * P
    OBVIOUS
  <1>6. D \in Nat /\ (k - f # 0 => D >= P) /\ (k - f = 0 => D = 0)
    BY <1>4, <1>5, Multiples
  <1>7. 1 = D + i - o
    BY <1>3, <1>5
  <1>8. D < P /\ i = o + 1 - D
    BY <1>1, <1>6, <1>7
  <1>9. k = f /\ i = o + 1
    BY <1>4, <1>6, <1>8
  <1> QED
    BY <1>2, <1>3, <1>9

(* Without it the queue holds the commands that follow.                    *)
LEMMA QueueShrinks ==
    ASSUME NEW M \in Nat \ {0}, M = sched.mmas, NEW P \in Nat, P = PerStep,
           NEW T \in Nat \ {0}, T = sched.trips, NEW f \in 0..T, NEW o \in 0..M,
           NEW I \in Nat, I = Issued, f <= I, I <= T,
           Queued(f, o), queue \in Seq(Commands), queue # << >>,
           sched' = sched, Tile' = Tile, Issued' = I, NEW r, r = queue', r = Tail(queue)
    PROVE  /\ o < M => Queued(f, o + 1)'
           /\ o = M /\ f < I => Queued(f + 1, 0)'
  <1>1. /\ P = M + 1 /\ PerStep' = P /\ \A j, i : Command(j, i)' = Command(j, i)
        /\ \A j, i : Standing(j, i)' <=> Standing(j, i)
    BY DEF PerStep, Command, StageOf, Standing
  <1>0. P = M + 1
    BY <1>1
  <1>2. PICK L \in Nat \ {0} : L = Len(queue)
    OBVIOUS
  <1>3. Len(r) = L - 1 /\ \A p \in 1..(L - 1) : r[p] = queue[p + 1] /\ p + 1 \in 1..L
    BY <1>2
  <1>4. PICK X \in Nat : X = IF I = T THEN M ELSE 0
    OBVIOUS
  <1>5. PICK D \in Nat : D = (I - f) * P
    BY Multiples
  <1>6. L = D - o + X
    BY <1>2, <1>4, <1>5 DEF Queued
  <1>7. \A p \in 1..L : \E k \in f..T, i \in 1..P :
           p = (k - f) * P + i - o /\ Standing(k, i) /\ queue[p] = Command(k, i)
    BY <1>2 DEF Queued
  <1>8. ASSUME o < M
        PROVE  Queued(f, o + 1)'
    <2>1. Len(r) = D - (o + 1) + X
      BY <1>3, <1>6
    <2>2. ASSUME NEW p \in 1..(L - 1)
          PROVE  \E k \in f..T, i \in 1..P :
                    p = (k - f) * P + i - (o + 1) /\ Standing(k, i)' /\ r[p] = Command(k, i)'
      <3>1. r[p] = queue[p + 1] /\ p + 1 \in 1..L
        BY <1>3
      <3>2. PICK k \in f..T, i \in 1..P :
               p + 1 = (k - f) * P + i - o /\ Standing(k, i) /\ queue[p + 1] = Command(k, i)
        BY <1>7, <3>1
      <3>3. p = (k - f) * P + i - (o + 1)
        <4>1. PICK E \in Nat : E = (k - f) * P
          BY Multiples
        <4>2. p + 1 = E + i - o
          BY <3>2, <4>1
        <4>3. p = E + i - (o + 1)
          BY <4>2
        <4> QED
          BY <4>1, <4>3
      <3>4. Standing(k, i)' /\ r[p] = Command(k, i)'
        BY <1>1, <3>1, <3>2
      <3> QED
        BY <3>3, <3>4
    <2>3. Len(queue)' = (Issued' - f) * PerStep' - (o + 1)
                            + (IF Issued' = sched'.trips THEN sched'.mmas ELSE 0)
      BY <1>1, <1>4, <1>5, <2>1
    <2>4. \A p \in 1..Len(queue)' : \E k \in f..sched'.trips, i \in 1..PerStep' :
             /\ p = (k - f) * PerStep' + i - (o + 1)
             /\ Standing(k, i)' /\ queue'[p] = Command(k, i)'
      <3>1. Len(queue)' = L - 1 /\ PerStep' = P
        BY <1>1, <1>3
      <3> QED
        BY <2>2, <3>1
    <2> QED
      BY <2>3, <2>4 DEF Queued
  <1>9. ASSUME o = M, f < I
        PROVE  Queued(f + 1, 0)'
    <2>1. I - f \in Nat /\ I - f # 0 /\ (I - f) - 1 = I - (f + 1)
      BY <1>9
    <2>2. (I - (f + 1)) * P = D - P
      BY <1>5, <2>1, Multiples
    <2>3. Len(r) = (I - (f + 1)) * P - 0 + X
      <3>1. L - 1 = D - P - 0 + X
        <4>1. L = D - M + X /\ P = M + 1
          BY <1>0, <1>6, <1>9
        <4>2. L \in Nat /\ D \in Nat /\ M \in Nat /\ X \in Nat /\ P \in Nat
          OBVIOUS
        <4> QED
          BY ONLY <4>1, <4>2
      <3> QED
        BY <1>3, <2>2, <3>1
    <2>4. ASSUME NEW p \in 1..(L - 1)
          PROVE  \E k \in (f + 1)..T, i \in 1..P :
                    p = (k - (f + 1)) * P + i - 0 /\ Standing(k, i)' /\ r[p] = Command(k, i)'
      <3>1. r[p] = queue[p + 1] /\ p + 1 \in 1..L
        BY <1>3
      <3>2. PICK k \in f..T, i \in 1..P :
               p + 1 = (k - f) * P + i - o /\ Standing(k, i) /\ queue[p + 1] = Command(k, i)
        BY <1>7, <3>1
      <3>3. PICK E \in Nat : E = (k - f) * P
        BY Multiples
      <3>4. p + 1 = E + i - M
        BY <1>9, <3>2, <3>3
      <3>5. k - f # 0
        <4>1. SUFFICES ASSUME k - f = 0
                       PROVE  FALSE
          OBVIOUS
        <4>2. E = 0
          BY <3>3, <4>1
        <4> QED
          BY <1>1, <3>4, <4>2
      <3>6. (k - (f + 1)) * P = E - P
        <4>1. k - f \in Nat /\ (k - f) - 1 = k - (f + 1)
          OBVIOUS
        <4> QED
          BY <3>3, <3>5, <4>1, Multiples
      <3>7. k \in (f + 1)..T
        BY <3>5
      <3>8. p = (E - P) + i - 0
        <4>1. p \in Nat /\ i \in Nat /\ E \in Nat /\ M \in Nat /\ P \in Nat
          OBVIOUS
        <4> QED
          BY ONLY <1>0, <3>4, <4>1
      <3>9. Standing(k, i)' /\ r[p] = Command(k, i)'
        BY <1>1, <3>1, <3>2
      <3> QED
        BY <3>6, <3>7, <3>8, <3>9
    <2>5. Len(queue)' = (Issued' - (f + 1)) * PerStep' - 0
                            + (IF Issued' = sched'.trips THEN sched'.mmas ELSE 0)
      BY <1>1, <1>4, <2>3
    <2>6. \A p \in 1..Len(queue)' : \E k \in (f + 1)..sched'.trips, i \in 1..PerStep' :
             /\ p = (k - (f + 1)) * PerStep' + i - 0
             /\ Standing(k, i)' /\ queue'[p] = Command(k, i)'
      <3>1. Len(queue)' = L - 1 /\ PerStep' = P
        BY <1>1, <1>3
      <3> QED
        BY <2>4, <3>1
    <2> QED
      BY <2>5, <2>6 DEF Queued
  <1> QED
    BY <1>8, <1>9

(* What the tensor engine meets next: an MMA or the commit of a step that  *)
(* the MMA warp issued, or a notification behind the last of them.         *)
Mma(f, o) == [kind |-> "mma", mma |-> o + 1, stage |-> StageOf(f), operand |-> <<Tile, f>>]
Commit(f) == [kind |-> "free", mma |-> 0, stage |-> StageOf(f), operand |-> << >>]
Notice(o) == [kind |-> "done", mma |-> o + 1, stage |-> 0, operand |-> << >>]

Underway(f) == f < sched.trips /\ f < Issued /\ Ringing

LEMMA Upcoming ==
    ASSUME IInv, queue # << >>, NEW f \in 0..sched.trips, NEW o \in 0..sched.mmas, FlowAt(f, o)
    PROVE  \/ Underway(f) /\ o < sched.mmas /\ Head(queue) = Mma(f, o)
           \/ Underway(f) /\ o = sched.mmas /\ Head(queue) = Commit(f)
           \/ f = sched.trips /\ o < sched.mmas /\ Head(queue) = Notice(o)
  <1>1. /\ sched.trips \in Nat \ {0} /\ sched.mmas \in Nat \ {0} /\ PerStep \in Nat
        /\ queue \in Seq(Commands)
    <2>1. sched.trips \in Nat \ {0} /\ sched.mmas \in Nat \ {0}
      BY Sizes DEF IInv, TypeOK
    <2> QED
      BY <2>1 DEF PerStep, IInv, Shaped
  <1>2. Queued(f, o) /\ Ordered(f) /\ Drained(f)
    BY DEF FlowAt
  <1>3. Standing(f, o + 1) /\ Head(queue) = Command(f, o + 1)
    BY <1>1, <1>2, HeadCommand
  <1>4. CASE f = sched.trips
    <2>1. Issued \in Nat /\ Issued <= sched.trips
      BY <1>1 DEF Issued, IInv, Shaped
    <2>2. o < sched.mmas
      BY <1>1, <1>3, <1>4, <2>1 DEF Standing
    <2> QED
      BY <1>3, <1>4, <2>2 DEF Command, Notice
  <1>5. CASE f # sched.trips
    <2>1. f < sched.trips /\ f < Issued
      BY <1>1, <1>3, <1>5 DEF Standing
    <2>2. pc[Issue] = "ring"
      BY <1>2, <1>5 DEF Drained
    <2>3. Underway(f)
      BY <2>1, <2>2, IssueWarp DEF Underway
    <2>4. CASE o < sched.mmas
      <3>1. o + 1 <= sched.mmas
        BY <1>1, <2>4
      <3> QED
        BY <1>3, <1>5, <2>3, <2>4, <3>1 DEF Command, Mma
    <2>5. CASE o = sched.mmas
      <3>1. ~(o + 1 <= sched.mmas)
        BY <1>1, <2>5
      <3> QED
        BY <1>3, <1>5, <2>3, <2>5, <3>1 DEF Command, Commit
    <2> QED
      BY <1>1, <2>4, <2>5
  <1> QED
    BY <1>4, <1>5

(* What every execution leaves alone.                                      *)
LEMMA ExecutionKeeps ==
    ASSUME IInv, Straight, Execute, NEW f \in 0..sched.trips, NEW o \in 0..sched.mmas, FlowAt(f, o)
    PROVE  /\ UNCHANGED <<sched, pc, tile, ready, tmem, smem, copying, issuing, inflight,
                          reading, out>>
           /\ Issued' = Issued /\ Copied' = Copied /\ Tile' = Tile
           /\ queue # << >> /\ queue' \in Seq(Commands)
           /\ Ordered(f)' /\ Drained(f)' /\ Copies' /\ Held(f)'
           /\ o < sched.mmas => Queued(f, o + 1)'
           /\ o = sched.mmas /\ f < Issued => Queued(f + 1, 0)'
  <1>1. /\ UNCHANGED <<sched, pc, tile, ready, tmem, smem, copying, issuing, inflight,
                       reading, out>>
        /\ queue # << >> /\ queue' = Tail(queue)
    BY DEF Execute
  <1>2. Issued' = Issued /\ Copied' = Copied /\ Tile' = Tile
    BY <1>1 DEF Issued, Copied, Tile
  <1>3. queue \in Seq(Commands)
    BY DEF IInv, Shaped
  <1>4. queue' \in Seq(Commands)
    BY <1>1, <1>3
  <1>5. Ordered(f) /\ Drained(f) /\ Copies /\ Held(f) /\ Queued(f, o)
    BY DEF FlowAt
  <1>6. Ordered(f)' /\ Copies' /\ Held(f)'
    BY <1>1, <1>2, <1>5, Frames
  <1>7. Drained(f)'
    BY <1>1, <1>5 DEF Drained, FinalStep
  <1>8. /\ sched.trips \in Nat \ {0} /\ sched.mmas \in Nat \ {0} /\ PerStep \in Nat
        /\ Issued \in Nat /\ f <= Issued /\ Issued <= sched.trips
    <2>1. sched.trips \in Nat \ {0} /\ sched.mmas \in Nat \ {0}
      BY Sizes DEF IInv, TypeOK
    <2>2. Issued \in Nat /\ Issued <= sched.trips
      BY <2>1 DEF Issued, IInv, Shaped
    <2> QED
      BY <1>5, <2>1, <2>2 DEF PerStep, Ordered
  <1>9. /\ o < sched.mmas => Queued(f, o + 1)'
        /\ o = sched.mmas /\ f < Issued => Queued(f + 1, 0)'
    BY <1>1, <1>2, <1>3, <1>5, <1>8, QueueShrinks
  <1> QED
    BY <1>1, <1>2, <1>4, <1>6, <1>7, <1>9

(* An MMA finds the operands of its step in the stage: nothing announced   *)
(* on it is outstanding, and no later load has started.                    *)
LEMMA OperandsHeld ==
    ASSUME IInv, NEW f \in 0..sched.trips, NEW o \in 0..sched.mmas, FlowAt(f, o), f < Issued
    PROVE  /\ \A l \in Loads : smem[StageOf(f)][l] = <<Tile, f>>
           /\ f \in Window(f) /\ f < Copied /\ Announced(f) = {}
  <1>1. sched \in Schedules /\ Shaped /\ f \in Nat
    BY Sizes DEF IInv, TypeOK
  <1>2. Ordered(f) /\ Copies /\ Held(f)
    BY DEF FlowAt
  <1>3. f \in Window(f)
    BY <1>1, WindowSteps
  <1>4. Announced(f) = {}
    BY <1>1, <1>2, <1>3, NoneAnnounced
  <1>5. Copied \in Nat /\ Issued \in Nat
    BY <1>1, Sizes DEF Copied, Issued, Shaped
  <1>6. f < Copied /\ f \in f..Copied
    BY <1>1, <1>2, <1>5 DEF Ordered
  <1>7. ASSUME NEW l \in Loads
        PROVE  smem[StageOf(f)][l] = <<Tile, f>>
    <2>1. Started(f, l)
      BY <1>6 DEF Started
    <2>2. Transfer(f, l) \in inflight \/ smem[StageOf(f)][l] = <<Tile, f>>
      BY <1>2, <1>6, <2>1 DEF Held
    <2>3. Transfer(f, l) \notin inflight
      BY <1>4 DEF Announced, Transfer
    <2> QED
      BY <2>2, <2>3
  <1> QED
    BY <1>3, <1>4, <1>6, <1>7

LEMMA ContributionsAre ==
    ASSUME NEW S, NEW t, NEW n \in Nat, \A i \in 1..n : {<<t, i - 1>>} \in S
    PROVE  /\ Contributions(t, n) \in Seq(S) /\ Len(Contributions(t, n)) = n
           /\ \A i \in 1..n : Contributions(t, n)[i] = {<<t, i - 1>>}
  <1>1. PICK c : c = Contributions(t, n)
    OBVIOUS
  <1>2. c \in [1..n -> S] /\ \A i \in 1..n : c[i] = {<<t, i - 1>>}
    BY <1>1 DEF Contributions
  <1>3. c \in Seq(S) /\ Len(c) = n
    BY <1>2
  <1> QED
    BY <1>1, <1>2, <1>3

(* The next step's contribution comes behind those before it.              *)
LEMMA Appends ==
    ASSUME NEW S, NEW t, NEW n \in Nat, \A i \in 1..(n + 1) : {<<t, i - 1>>} \in S
    PROVE  /\ Contributions(t, n + 1) \in Seq(S)
           /\ n = 0 => <<{<<t, n>>}>> = Contributions(t, n + 1)
           /\ Append(Contributions(t, n), {<<t, n>>}) = Contributions(t, n + 1)
  <1>1. PICK a : a = Contributions(t, n)
    OBVIOUS
  <1>2. PICK b : b = Contributions(t, n + 1)
    OBVIOUS
  <1>3. PICK e : e = {<<t, n>>}
    OBVIOUS
  <1>4. a \in Seq(S) /\ Len(a) = n /\ \A i \in 1..n : a[i] = {<<t, i - 1>>}
    <2>1. \A i \in 1..n : {<<t, i - 1>>} \in S
      OBVIOUS
    <2> QED
      BY <1>1, <2>1, ContributionsAre
  <1>5. b \in Seq(S) /\ Len(b) = n + 1 /\ \A i \in 1..(n + 1) : b[i] = {<<t, i - 1>>}
    <2>1. PICK m \in Nat : m = n + 1
      OBVIOUS
    <2>2. \A i \in 1..m : {<<t, i - 1>>} \in S
      BY <2>1
    <2>3. b = Contributions(t, m)
      BY <1>2, <2>1
    <2>4. b \in Seq(S) /\ Len(b) = m /\ \A i \in 1..m : b[i] = {<<t, i - 1>>}
      BY ONLY <2>2, <2>3, ContributionsAre
    <2> QED
      BY ONLY <2>1, <2>4
  <1>6. e \in S /\ b[n + 1] = e
    <2>1. n + 1 \in 1..(n + 1) /\ (n + 1) - 1 = n
      OBVIOUS
    <2>2. b[n + 1] = {<<t, (n + 1) - 1>>} /\ {<<t, (n + 1) - 1>>} \in S
      BY <1>5, <2>1
    <2> QED
      BY <1>3, <2>1, <2>2
  <1>7. ASSUME NEW i \in 1..n
        PROVE  b[i] = a[i]
    <2>1. i \in 1..(n + 1)
      OBVIOUS
    <2> QED
      BY ONLY <1>4, <1>5, <2>1
  <1>8. Append(a, e) = b
    <2>1. /\ Append(a, e) \in Seq(S) /\ Len(Append(a, e)) = n + 1
          /\ \A i \in 1..n : Append(a, e)[i] = a[i]
          /\ Append(a, e)[n + 1] = e
      BY ONLY <1>4, <1>6, AppendProperties
    <2>2. \A i \in 1..(n + 1) : Append(a, e)[i] = b[i]
      <3>1. ASSUME NEW i \in 1..(n + 1)
            PROVE  Append(a, e)[i] = b[i]
        <4>1. i \in 1..n \/ i = n + 1
          OBVIOUS
        <4> QED
          BY ONLY <4>1, <1>6, <1>7, <2>1
      <3> QED
        BY <3>1
    <2> QED
      BY ONLY <1>5, <2>1, <2>2, SeqEqual
  <1>9. n = 0 => <<e>> = b
    <2> SUFFICES ASSUME n = 0
                 PROVE  <<e>> = b
      OBVIOUS
    <2>1. <<e>> \in Seq(S) /\ Len(<<e>>) = 1 /\ <<e>>[1] = e
      BY <1>6
    <2>2. Len(b) = 1 /\ b[1] = e /\ b \in Seq(S)
      BY <1>5, <1>6
    <2>3. \A i \in 1..Len(<<e>>) : <<e>>[i] = b[i]
      BY <2>1, <2>2
    <2> QED
      BY ONLY <2>1, <2>2, <2>3, SeqEqual
  <1> QED
    BY <1>1, <1>2, <1>3, <1>5, <1>8, <1>9

(* An MMA adds the contribution of its own step and tile.                  *)
LEMMA MmaExecutes ==
    ASSUME IInv, Straight, Execute, NEW f \in 0..sched.trips, NEW o \in 0..sched.mmas, FlowAt(f, o),
           Underway(f), o < sched.mmas, Head(queue) = Mma(f, o)
    PROVE  Shaped' /\ FlowAt(f, o + 1)' /\ o + 1 \in 0..sched.mmas
  <1>1. /\ sched \in Schedules /\ sched.trips \in Nat \ {0} /\ sched.mmas \in Nat \ {0}
        /\ f \in Nat /\ o \in Nat /\ f < sched.trips /\ f < Issued /\ Loads # {}
        /\ Tile \in 1..sched.tiles /\ f # sched.trips
    <2>1. sched \in Schedules
      BY DEF IInv, TypeOK
    <2>2. Loads # {} /\ sched.trips \in Nat \ {0} /\ sched.mmas \in Nat \ {0}
      <3>1. /\ sched.trips \in Nat \ {0} /\ sched.mmas \in Nat \ {0}
            /\ Len(sched.movements) \in Nat \ {0}
        BY <2>1, Sizes
      <3>2. 1 \in Loads
        BY <3>1 DEF Loads
      <3> QED
        BY <3>1, <3>2
    <2>3. Tile \in 1..sched.tiles
      BY <2>1, Sizes DEF IInv, TypeOK, Tile
    <2> QED
      BY <2>1, <2>2, <2>3 DEF Underway
  <1>2. o + 1 \in 0..sched.mmas /\ o + 1 \in Mmas /\ f + 1 > 0
    BY <1>1 DEF Mmas
  <1>3. /\ acc' = [acc EXCEPT ![o + 1] = Accumulated(Head(queue))]
        /\ free' = free /\ done' = done
    <2>1. Head(queue).kind = "mma" /\ Head(queue).mma = o + 1
      BY DEF Mma
    <2> QED
      BY <2>1 DEF Execute
  <1>4. Accumulators(f, o) /\ Shaped /\ (Ringing => Ring(f)) /\ Readouts(o)
    BY DEF FlowAt, IInv
  <1>5. {smem[StageOf(f)][l] : l \in Loads} = {<<Tile, f>>}
    <2>1. \A l \in Loads : smem[StageOf(f)][l] = <<Tile, f>>
      BY <1>1, OperandsHeld
    <2> QED
      BY <1>1, <2>1
  <1>6. \A i \in 1..(f + 1) : {<<Tile, i - 1>>} \in SUBSET Operands
    BY <1>1 DEF Operands
  <1>7. /\ Accumulated(Head(queue)) = Contributions(Tile, f + 1)
        /\ Contributions(Tile, f + 1) \in Seq(SUBSET Operands)
    <2>1. /\ Contributions(Tile, f + 1) \in Seq(SUBSET Operands)
          /\ f = 0 => <<{<<Tile, f>>}>> = Contributions(Tile, f + 1)
          /\ Append(Contributions(Tile, f), {<<Tile, f>>}) = Contributions(Tile, f + 1)
      BY <1>1, <1>6, Appends
    <2>2. Accumulated(Head(queue)) =
             IF f = 0 THEN <<{<<Tile, f>>}>> ELSE Append(acc[o + 1], {<<Tile, f>>})
      <3>1. /\ Head(queue).stage = StageOf(f) /\ Head(queue).mma = o + 1
            /\ Head(queue).operand[2] = f
        BY DEF Mma
      <3> QED
        BY <1>5, <3>1 DEF Accumulated
    <2>3. f # 0 => acc[o + 1] = Contributions(Tile, f)
      <3>1. Executed(f, o, o + 1) = f
        BY <1>1 DEF Executed
      <3> QED
        BY <1>1, <1>2, <1>4, <3>1 DEF Accumulators
    <2> QED
      BY <2>1, <2>2, <2>3
  <1>8. acc \in [Mmas -> Seq(SUBSET Operands)]
    BY <1>4 DEF Shaped
  <1>9. /\ acc' \in [Mmas -> Seq(SUBSET Operands)]
        /\ \A m \in Mmas : acc'[m] = IF m = o + 1 THEN Contributions(Tile, f + 1) ELSE acc[m]
    BY <1>2, <1>3, <1>7, <1>8
  <1>10. /\ UNCHANGED <<sched, pc, tile, ready, tmem, smem, copying, issuing, inflight,
                        reading, out>>
         /\ Issued' = Issued /\ Copied' = Copied /\ Tile' = Tile /\ queue' \in Seq(Commands)
         /\ Ordered(f)' /\ Drained(f)' /\ Copies' /\ Held(f)' /\ Queued(f, o + 1)'
    BY <1>1, ExecutionKeeps
  <1>11. Ringing' /\ Ring(f)'
    <2>1. Ringing' /\ Ringing
      BY <1>10 DEF Ringing, Among, Underway
    <2> QED
      BY <1>3, <1>4, <1>10, <2>1, Frames
  <1>12. Accumulators(f, o + 1)'
    <2> SUFFICES ASSUME NEW m \in Mmas
                 PROVE  /\ Executed(f, o + 1, m) > 0 =>
                              acc'[m] = Contributions(Tile, Executed(f, o + 1, m))
                        /\ done[m] = [live |-> TRUE, count |-> 1, pending |-> 1, tx |-> 0,
                                      phase |-> IF f = sched.trips /\ m <= o + 1 THEN 1 ELSE 0]
      BY <1>3, <1>10 DEF Accumulators, Mmas, Executed, Contributions
    <2>1. /\ Executed(f, o, m) > 0 => acc[m] = Contributions(Tile, Executed(f, o, m))
          /\ done[m] = [live |-> TRUE, count |-> 1, pending |-> 1, tx |-> 0,
                        phase |-> IF f = sched.trips /\ m <= o THEN 1 ELSE 0]
      BY <1>4 DEF Accumulators
    <2>2. CASE m = o + 1
      <3>1. Executed(f, o + 1, m) = f + 1
        BY <1>1, <2>2 DEF Executed
      <3> QED
        BY <1>1, <1>9, <2>1, <2>2, <3>1
    <2>3. CASE m # o + 1
      <3>1. Executed(f, o + 1, m) = Executed(f, o, m)
        <4>1. m <= o + 1 <=> m <= o
          BY <1>1, <2>3 DEF Mmas
        <4> QED
          BY <4>1 DEF Executed
      <3> QED
        BY <1>1, <1>9, <2>1, <2>3, <3>1
    <2> QED
      BY <2>2, <2>3
  <1>13. Readouts(o + 1)'
    <2>1. \A v \in Readers : pc'[v] \in {"ring", "syncRing"}
      BY <1>11, Cast DEF Ringing, Among
    <2> QED
      BY <2>1 DEF Readouts
  <1>14. FlowAt(f, o + 1)'
    BY <1>10, <1>11, <1>12, <1>13 DEF FlowAt
  <1>15. Shaped'
    BY <1>3, <1>4, <1>9, <1>10
       DEF Shaped, Stages, Mmas, Loads, Operands, Commands, DrainedStages
  <1> QED
    BY <1>2, <1>14, <1>15

(* The commit of a step returns its stage: its barriers are those of the   *)
(* step a lap later.                                                       *)
LEMMA CommitExecutes ==
    ASSUME IInv, Straight, Execute, NEW f \in 0..sched.trips, NEW o \in 0..sched.mmas, FlowAt(f, o),
           Underway(f), o = sched.mmas, Head(queue) = Commit(f)
    PROVE  Shaped' /\ FlowAt(f + 1, 0)' /\ f + 1 \in 0..sched.trips /\ 0 \in 0..sched.mmas
  <1>1. /\ sched \in Schedules /\ sched.trips \in Nat \ {0} /\ sched.mmas \in Nat \ {0}
        /\ sched.stages \in Nat \ {0}
        /\ f \in Nat /\ o \in Nat /\ f < sched.trips /\ f < Issued /\ f # sched.trips
        /\ Copied \in Nat /\ Issued \in Nat
    <2>1. sched \in Schedules /\ Shaped
      BY DEF IInv, TypeOK
    <2>2. sched.stages \in Nat \ {0} /\ sched.trips \in Nat \ {0} /\ sched.mmas \in Nat \ {0}
      BY <2>1, Sizes
    <2> QED
      BY <2>1, <2>2 DEF Underway, Shaped, Copied, Issued
  <1>2. f + 1 \in 0..sched.trips /\ 0 \in 0..sched.mmas /\ f + 1 \in Nat
    BY <1>1
  <1>3. /\ free' = [free EXCEPT ![StageOf(f)] = Arrived(free[StageOf(f)])]
        /\ acc' = acc /\ done' = done
    <2>1. Head(queue).kind = "free" /\ Head(queue).stage = StageOf(f)
      BY DEF Commit
    <2> QED
      BY <2>1 DEF Execute
  <1>4. Accumulators(f, o) /\ Shaped /\ Ring(f) /\ Readouts(o) /\ Ordered(f) /\ Held(f)
    BY DEF FlowAt, IInv, Underway
  <1>5. /\ UNCHANGED <<sched, pc, tile, ready, tmem, smem, copying, issuing, inflight,
                       reading, out>>
        /\ Issued' = Issued /\ Copied' = Copied /\ Tile' = Tile /\ queue' \in Seq(Commands)
        /\ Drained(f)' /\ Copies' /\ Queued(f + 1, 0)'
    BY <1>1, ExecutionKeeps
  <1>6. f \in Window(f) /\ f < Copied /\ Announced(f) = {}
    BY <1>1, OperandsHeld
  <1>7. StageOf(f) \in Stages /\ Parity(f) \in {0, 1}
        /\ StageOf(f + sched.stages) = StageOf(f)
        /\ Parity(f + sched.stages) = 1 - Parity(f)
    BY <1>1, StageOfStep
  <1>8. Arrived(free[StageOf(f)]) = FreeFor(f + sched.stages)
    <2>1. free[StageOf(f)] = FreeFor(f)
      BY <1>4, <1>6 DEF Ring
    <2>2. FreeFor(f) = Live(1, 1, 0, Parity(f))
      BY DEF FreeFor, Live, Object
    <2>3. Arrived(Live(1, 1, 0, Parity(f))) = Live(1, 1, 0, 1 - Parity(f))
      BY LiveSteps
    <2>4. FreeFor(f + sched.stages) = Live(1, 1, 0, 1 - Parity(f))
      BY <1>7 DEF FreeFor, Live, Object
    <2> QED
      BY <2>1, <2>2, <2>3, <2>4
  <1>9. ReadyFor(f) = ReadyFor(f + sched.stages)
    <2>1. Announced(f + sched.stages) = {}
      BY <1>6, <1>7 DEF Announced
    <2>2. ~Filling(f) /\ Full(f)
      BY <1>1, <1>6 DEF Filling, Full
    <2>3. ~Filling(f + sched.stages) /\ ~Full(f + sched.stages)
      BY <1>1, <1>4 DEF Filling, Full, Ordered
    <2> QED
      BY <1>6, <1>7, <2>1, <2>2, <2>3 DEF ReadyFor
  <1>10. /\ FreeFor(f + sched.stages) \in Barrier
         /\ free \in [Stages -> Barrier] /\ free' \in [Stages -> Barrier]
    <2>1. free \in [Stages -> Barrier]
      BY <1>4 DEF Shaped
    <2>2. FreeFor(f + sched.stages) \in Barrier
      <3>1. Parity(f + sched.stages) \in {0, 1}
        BY <1>7
      <3>2. ASSUME NEW h \in {0, 1}
            PROVE  [live |-> TRUE, count |-> 1, pending |-> 1, tx |-> 0, phase |-> h] \in Barrier
        BY DEF Barrier
      <3> QED
        BY ONLY <3>1, <3>2 DEF FreeFor
    <2> QED
      BY <1>3, <1>7, <1>8, <2>1, <2>2
  <1>11. Ring(f + 1)'
    <2>1. \A k : /\ StageOf(k)' = StageOf(k) /\ FreeFor(k)' = FreeFor(k)
                 /\ ReadyFor(k)' = ReadyFor(k)
      BY <1>5 DEF StageOf, FreeFor, ReadyFor, Filling, Full, Announced, Parity, Fills
    <2> SUFFICES ASSUME NEW k \in (f + 1)..(f + sched.stages)
                 PROVE  free'[StageOf(k)] = FreeFor(k) /\ ready[StageOf(k)] = ReadyFor(k)
      <3>1. Window(f + 1)' = (f + 1)..(f + sched.stages)
        BY <1>1, <1>5 DEF Window
      <3> QED
        BY <1>5, <2>1, <3>1 DEF Ring
    <2>2. CASE k = f + sched.stages
      <3>1. free'[StageOf(f)] = FreeFor(f + sched.stages)
        BY <1>3, <1>7, <1>8, <1>10
      <3>2. ready[StageOf(f)] = ReadyFor(f)
        BY <1>4, <1>6 DEF Ring
      <3> QED
        BY <1>7, <1>9, <2>2, <3>1, <3>2
    <2>3. CASE k # f + sched.stages
      <3>1. k \in Window(f) /\ k # f /\ k \in Nat
        BY <1>1, <2>3 DEF Window
      <3>2. StageOf(k) # StageOf(f) /\ StageOf(k) \in Stages
        BY <1>1, <1>6, <3>1, WindowSteps, StageOfStep
      <3>3. free[StageOf(k)] = FreeFor(k) /\ ready[StageOf(k)] = ReadyFor(k)
        BY <1>4, <3>1 DEF Ring
      <3> QED
        BY <1>3, <1>10, <3>2, <3>3
    <2> QED
      BY <2>2, <2>3
  <1>12. Ordered(f + 1)'
    BY <1>1, <1>4, <1>5 DEF Ordered
  <1>13. Drained(f + 1)'
    <2>1. pc'[Issue] = "ring"
      BY <1>1, <1>5 DEF Drained
    <2>2. \A stage \in 0..(issuing'.drained - 1) : FinalStep(stage)' < f
      BY <1>5, <2>1 DEF Drained
    <2>3. issuing'.drained \in 0..(DrainedStages - 1)
      BY <1>4, <1>5 DEF Shaped
    <2>4. \A stage \in 0..(issuing'.drained - 1) : FinalStep(stage)' \in Nat
      <3>1. DrainedStages \in Nat \ {0}
        BY <1>1, DrainWaits
      <3>2. \A d \in 0..(DrainedStages - 1) : FinalStep(d) \in Nat
        BY <1>1, DrainWaits
      <3>3. \A d : FinalStep(d)' = FinalStep(d)
        BY <1>5 DEF FinalStep
      <3> QED
        BY <2>3, <3>1, <3>2, <3>3
    <2>5. \A stage \in 0..(issuing'.drained - 1) : FinalStep(stage)' < f + 1
      BY <1>1, <2>2, <2>4
    <2> QED
      BY <2>1, <2>5 DEF Drained
  <1>14. Held(f + 1)'
    <2>1. Held(f)'
      BY ExecutionKeeps
    <2>2. \A k \in (f + 1)..Copied : k \in f..Copied
      BY <1>1
    <2> QED
      BY <1>5, <2>1, <2>2 DEF Held
  <1>15. Accumulators(f + 1, 0)'
    <2> SUFFICES ASSUME NEW m \in Mmas
                 PROVE  /\ Executed(f + 1, 0, m) > 0 =>
                              acc[m] = Contributions(Tile, Executed(f + 1, 0, m))
                        /\ done[m] = [live |-> TRUE, count |-> 1, pending |-> 1, tx |-> 0,
                                      phase |-> IF f + 1 = sched.trips /\ m <= 0 THEN 1 ELSE 0]
      BY <1>3, <1>5 DEF Accumulators, Mmas, Executed, Contributions
    <2>1. /\ Executed(f, o, m) > 0 => acc[m] = Contributions(Tile, Executed(f, o, m))
          /\ done[m] = [live |-> TRUE, count |-> 1, pending |-> 1, tx |-> 0,
                        phase |-> IF f = sched.trips /\ m <= o THEN 1 ELSE 0]
      BY <1>4 DEF Accumulators
    <2>2. m <= o /\ ~(m <= 0)
      BY <1>1 DEF Mmas
    <2>3. Executed(f, o, m) = f + 1 /\ Executed(f + 1, 0, m) = f + 1
      BY <1>1, <2>2 DEF Executed
    <2> QED
      BY <1>1, <2>1, <2>2, <2>3
  <1>16. Readouts(0)'
    <2>1. \A v \in Readers : pc'[v] \in {"ring", "syncRing"}
      BY <1>5, Cast DEF Ringing, Among, Underway
    <2> QED
      BY <2>1 DEF Readouts
  <1>17. FlowAt(f + 1, 0)'
    BY <1>5, <1>11, <1>12, <1>13, <1>14, <1>15, <1>16 DEF FlowAt
  <1>18. Shaped'
    BY <1>3, <1>4, <1>5, <1>10
       DEF Shaped, Stages, Mmas, Loads, Operands, Commands, DrainedStages
  <1> QED
    BY <1>2, <1>17, <1>18

(* A notification begins the second phase of its completion barrier.       *)
LEMMA NoticeExecutes ==
    ASSUME IInv, Straight, Execute, NEW f \in 0..sched.trips, NEW o \in 0..sched.mmas, FlowAt(f, o),
           f = sched.trips, o < sched.mmas, Head(queue) = Notice(o)
    PROVE  Shaped' /\ FlowAt(f, o + 1)' /\ o + 1 \in 0..sched.mmas
  <1>1. sched.trips \in Nat \ {0} /\ sched.mmas \in Nat \ {0} /\ o \in Nat
    BY Sizes DEF IInv, TypeOK
  <1>2. o + 1 \in 0..sched.mmas /\ o + 1 \in Mmas /\ ~(o + 1 <= o)
    BY <1>1 DEF Mmas
  <1>3. /\ done' = [done EXCEPT ![o + 1] = Arrived(done[o + 1])]
        /\ acc' = acc /\ free' = free
    <2>1. Head(queue).kind = "done" /\ Head(queue).mma = o + 1
      BY DEF Notice
    <2> QED
      BY <2>1 DEF Execute
  <1>4. Accumulators(f, o) /\ Shaped /\ (Ringing => Ring(f)) /\ Readouts(o)
    BY DEF FlowAt, IInv
  <1>5. /\ UNCHANGED <<sched, pc, tile, ready, tmem, smem, copying, issuing, inflight,
                       reading, out>>
        /\ Issued' = Issued /\ Copied' = Copied /\ Tile' = Tile /\ queue' \in Seq(Commands)
        /\ Ordered(f)' /\ Drained(f)' /\ Copies' /\ Held(f)' /\ Queued(f, o + 1)'
    BY ExecutionKeeps
  <1>6. Arrived(done[o + 1]) = Live(1, 1, 0, 1)
    <2>1. done[o + 1] = Live(1, 1, 0, 0)
      BY <1>2, <1>4 DEF Accumulators, Live, Object
    <2>2. Arrived(Live(1, 1, 0, 0)) = Live(1, 1, 0, 1 - 0)
      BY LiveSteps
    <2> QED
      BY <2>1, <2>2
  <1>7. /\ done' \in [Mmas -> Barrier]
        /\ \A m \in Mmas : done'[m] = IF m = o + 1 THEN Live(1, 1, 0, 1) ELSE done[m]
    <2>1. ASSUME NEW h \in {0, 1}
          PROVE  [live |-> TRUE, count |-> 1, pending |-> 1, tx |-> 0, phase |-> h] \in Barrier
      BY DEF Barrier
    <2>2. Live(1, 1, 0, 1) \in Barrier
      <3>1. 1 \in {0, 1}
        OBVIOUS
      <3> QED
        BY ONLY <2>1, <3>1 DEF Live, Object
    <2>3. done \in [Mmas -> Barrier]
      BY <1>4 DEF Shaped
    <2> QED
      BY <1>2, <1>3, <1>6, <2>2, <2>3
  <1>8. Ringing' => Ring(f)'
    <2>1. Ringing' => Ringing
      BY <1>5 DEF Ringing, Among
    <2> QED
      BY <1>3, <1>4, <1>5, <2>1, Frames
  <1>9. Accumulators(f, o + 1)'
    <2> SUFFICES ASSUME NEW m \in Mmas
                 PROVE  /\ Executed(f, o + 1, m) > 0 =>
                              acc[m] = Contributions(Tile, Executed(f, o + 1, m))
                        /\ done'[m] = [live |-> TRUE, count |-> 1, pending |-> 1, tx |-> 0,
                                       phase |-> IF f = sched.trips /\ m <= o + 1 THEN 1 ELSE 0]
      BY <1>3, <1>5 DEF Accumulators, Mmas, Executed, Contributions
    <2>1. /\ Executed(f, o, m) > 0 => acc[m] = Contributions(Tile, Executed(f, o, m))
          /\ done[m] = [live |-> TRUE, count |-> 1, pending |-> 1, tx |-> 0,
                        phase |-> IF f = sched.trips /\ m <= o THEN 1 ELSE 0]
      BY <1>4 DEF Accumulators
    <2>2. Executed(f, o + 1, m) = Executed(f, o, m)
      BY DEF Executed
    <2>3. CASE m = o + 1
      <3>1. m <= o + 1
        BY <1>1, <2>3
      <3> QED
        BY <1>7, <2>1, <2>2, <2>3, <3>1 DEF Live, Object
    <2>4. CASE m # o + 1
      <3>1. m <= o + 1 <=> m <= o
        BY <1>1, <2>4 DEF Mmas
      <3> QED
        BY <1>7, <2>1, <2>2, <2>4, <3>1
    <2> QED
      BY <2>3, <2>4
  <1>10. Readouts(o + 1)'
    <2> SUFFICES ASSUME NEW v \in Readers
                 PROVE  /\ pc[v] = "readout" => /\ reading[v].mma <= o + 1 + 1
                                                /\ reading[v].waited => reading[v].mma <= o + 1
                        /\ pc[v] = "syncTile" => o + 1 = sched.mmas
      BY <1>5 DEF Readouts
    <2>1. reading[v].mma \in Nat
      BY <1>1, <1>4 DEF Shaped, Mmas
    <2>2. /\ pc[v] = "readout" => /\ reading[v].mma <= o + 1
                                  /\ reading[v].waited => reading[v].mma <= o
          /\ pc[v] = "syncTile" => o = sched.mmas
      BY <1>4 DEF Readouts
    <2> QED
      BY <1>1, <2>1, <2>2
  <1>11. FlowAt(f, o + 1)'
    BY <1>5, <1>8, <1>9, <1>10 DEF FlowAt
  <1>12. Shaped'
    BY <1>3, <1>4, <1>5, <1>7
       DEF Shaped, Stages, Mmas, Loads, Operands, Commands, DrainedStages
  <1> QED
    BY <1>2, <1>11, <1>12

(* What a step behind the ring has to keep.                                *)
LEMMA ReadingStep ==
    ASSUME IInv, Straight, Execute \/ \E w \in Warps : Step(w), Reading,
           Shaped', tmem' = tmem, copying' = copying, issuing' = issuing, inflight' = inflight,
           \A stage \in Stages : WithinCount(ready'[stage]) /\ WithinCount(free'[stage]),
           \A w \in Readers : pc'[w] # "readout" => reading'[w] = [mma |-> 1, waited |-> FALSE],
           Outputs', \E f \in 0..sched.trips, o \in 0..sched.mmas : FlowAt(f, o)'
    PROVE  IInv' /\ Straight'
  <1>1. /\ sched' = sched /\ tile' = tile /\ pc' \in [Warps -> Segments] /\ Straight'
        /\ Lockstep' /\ Roles' /\ Tile' = Tile /\ Reading'
    BY StepStaysBetween DEF IInv
  <1>2. /\ ~Allocating /\ ~Opening /\ ~Ringing /\ ~Closing /\ ~Leaving /\ ~Ending
        /\ ~Allocating' /\ ~Opening' /\ ~Ringing' /\ ~Closing' /\ ~Leaving' /\ ~Ending'
    BY <1>1, Apart, ApartNext
  <1>3. /\ pc[Copy] # "ring" /\ pc[Issue] # "ring"
    BY Cast DEF Reading, Among
  <1>4. Flow'
    BY <1>1 DEF Flow
  <1>5. Counted'
    <2>1. PICK f \in 0..sched.trips, o \in 0..sched.mmas : FlowAt(f, o)'
      OBVIOUS
    <2>2. ASSUME NEW m \in Mmas'
          PROVE  WithinCount(done'[m])
      <3>1. \E phase : done'[m] = [live |-> TRUE, count |-> 1, pending |-> 1, tx |-> 0,
                                   phase |-> phase]
        BY <2>1 DEF FlowAt, Accumulators
      <3> QED
        BY <3>1 DEF WithinCount
    <2>3. Stages' = Stages
      BY <1>1 DEF Stages
    <2> QED
      BY <2>2, <2>3 DEF Counted
  <1>6. Allocated'
    BY <1>2 DEF Allocated, IInv
  <1>7. Idle'
    BY <1>1, <1>2, <1>3 DEF Idle, IInv
  <1>8. Opened'
    BY <1>2 DEF Opened
  <1> QED
    BY <1>1, <1>4, <1>5, <1>6, <1>7, <1>8, InvariantNext DEF IInv, TypeOK, Filled

LEMMA ExecuteStep ==
    ASSUME IInv, Straight, Execute
    PROVE  IInv' /\ Straight'
  <1>1. /\ UNCHANGED <<sched, pc, tile, ready, tmem, smem, copying, issuing, inflight,
                       reading, out>>
        /\ queue # << >>
    BY DEF Execute
  <1>2. Ringing \/ Reading
    BY <1>1 DEF IInv, Idle
  <1>3. PICK f \in 0..sched.trips, o \in 0..sched.mmas : FlowAt(f, o)
    BY <1>2 DEF IInv, Flow
  <1>4. Shaped' /\ \E g \in 0..sched.trips, p \in 0..sched.mmas : FlowAt(g, p)'
    <2>1. CASE Underway(f) /\ o < sched.mmas /\ Head(queue) = Mma(f, o)
      BY <1>3, <2>1, MmaExecutes
    <2>2. CASE Underway(f) /\ o = sched.mmas /\ Head(queue) = Commit(f)
      BY <1>3, <2>2, CommitExecutes
    <2>3. CASE f = sched.trips /\ o < sched.mmas /\ Head(queue) = Notice(o)
      BY <1>3, <2>3, NoticeExecutes
    <2> QED
      BY <1>1, <1>3, <2>1, <2>2, <2>3, Upcoming
  <1>5. CASE Ringing
    BY <1>1, <1>4, <1>5, RingingStep DEF IInv, Idle
  <1>6. CASE Reading
    <2>1. Outputs'
      <3>1. Tile' = Tile /\ \A w \in Readers : Taken(w)' = Taken(w)
        BY <1>1 DEF Tile, Taken, Mmas
      <3> QED
        BY <1>1, <3>1, OutputsKept DEF IInv
    <2>2. free' = free
      <3>1. f = sched.trips
        <4>1. pc[Issue] # "ring"
          BY <1>6, Cast DEF Reading, Among
        <4> QED
          BY <1>3, <4>1 DEF FlowAt, Drained
      <3>2. Head(queue) = Notice(o)
        <4>1. ~Underway(f)
          BY <3>1, Sizes DEF Underway, IInv, TypeOK
        <4> QED
          BY <1>1, <1>3, <4>1, Upcoming
      <3>3. Head(queue).kind = "done"
        BY <3>2 DEF Notice
      <3> QED
        BY <3>3 DEF Execute
    <2>3. \A stage \in Stages : WithinCount(ready'[stage]) /\ WithinCount(free'[stage])
      BY <1>1, <2>2 DEF IInv, TypeOK
    <2>4. \A w \in Readers : pc'[w] # "readout" => reading'[w] = [mma |-> 1, waited |-> FALSE]
      BY <1>1 DEF IInv, Idle
    <2> QED
      BY <1>1, <1>4, <1>6, <2>1, <2>3, <2>4, ReadingStep
  <1> QED
    BY <1>2, <1>5, <1>6

-------------------------------------------------------------------------------
(* The readouts *)

(* Behind the ring every step is executed; what a step there leaves alone  *)
(* is as before.                                                           *)
LEMMA ReadingFlow ==
    ASSUME IInv, Straight, NEW w \in Warps, Step(w), Reading,
           UNCHANGED <<copying, issuing, inflight, queue, smem, acc, done>>
    PROVE  /\ sched' = sched /\ Tile' = Tile /\ pc' \in [Warps -> Segments] /\ Reading'
           /\ \E f \in 0..sched.trips, o \in 0..sched.mmas :
                 /\ f = sched.trips /\ Accumulators(f, o) /\ Readouts(o)
                 /\ Readouts(o)' => FlowAt(f, o)'
  <1>1. /\ sched' = sched /\ tile' = tile /\ pc' \in [Warps -> Segments] /\ Tile' = Tile
        /\ Reading'
    BY StepStaysBetween DEF IInv
  <1>2. /\ pc[Copy] # "ring" /\ pc[Issue] # "ring" /\ pc'[Copy] # "ring" /\ pc'[Issue] # "ring"
        /\ ~Ringing'
    BY <1>1, Cast, ApartNext DEF Reading, Among
  <1>3. PICK f \in 0..sched.trips, o \in 0..sched.mmas : FlowAt(f, o)
    BY DEF IInv, Flow
  <1>4. f = sched.trips
    BY <1>2, <1>3 DEF FlowAt, Drained
  <1>5. Issued' = Issued /\ Copied' = Copied
    BY <1>1, <1>2 DEF Issued, Copied
  <1>6. /\ Ordered(f)' /\ Queued(f, o)' /\ Copies' /\ Held(f)' /\ Accumulators(f, o)'
    BY <1>1, <1>3, <1>5, Frames DEF FlowAt
  <1>7. Drained(f)'
    BY <1>1, <1>2, <1>4 DEF Drained
  <1>8. Accumulators(f, o) /\ Readouts(o)
    BY <1>3 DEF FlowAt
  <1>9. Readouts(o)' => FlowAt(f, o)'
    BY <1>2, <1>6, <1>7 DEF FlowAt
  <1> QED
    BY <1>1, <1>4, <1>8, <1>9

LEMMA InvalidateRingStep ==
    ASSUME IInv, Straight, NEW w \in Warps, InvalidateRing(w)
    PROVE  IInv' /\ Straight'
  <1>1. /\ pc[w] = "inval" /\ ready' = [stage \in Stages |-> Dead]
        /\ free' = [stage \in Stages |-> Dead] /\ pc' = [pc EXCEPT ![w] = ToRingEnd(w)]
        /\ UNCHANGED <<sched, tile, done, tmem, smem, acc, copying, issuing, inflight, queue,
                       reading, out>>
    BY DEF InvalidateRing, Goto
  <1>2. Reading /\ Step(w) /\ Shaped /\ Idle /\ pc \in [Warps -> Segments]
    BY <1>1, WhereAll DEF IInv, Step, TypeOK, Segments
  <1>3. /\ pc'[w] = IF w \in Readers THEN "readout" ELSE "syncTile"
        /\ \A v \in Warps : v # w => pc'[v] = pc[v]
    BY <1>1, <1>2 DEF ToRingEnd, ToReadout, ToClosing, Straight
  <1>4. Tile' = Tile
    BY <1>1, <1>2, ReadingFlow
  <1>5. PICK f \in 0..sched.trips, o \in 0..sched.mmas :
           Readouts(o) /\ (Readouts(o)' => FlowAt(f, o)')
    BY <1>1, <1>2, ReadingFlow
  <1>6. w \in Readers => reading[w] = [mma |-> 1, waited |-> FALSE]
    BY <1>1, <1>2 DEF Idle
  <1>7. Readouts(o)'
    <2> SUFFICES ASSUME NEW v \in Readers
                 PROVE  /\ pc'[v] = "readout" => /\ reading[v].mma <= o + 1
                                                 /\ reading[v].waited => reading[v].mma <= o
                        /\ pc'[v] = "syncTile" => o = sched.mmas
      BY <1>1 DEF Readouts
    <2>1. CASE v = w
      <3>1. o \in Nat
        BY Sizes DEF IInv, TypeOK
      <3>2. 1 <= o + 1
        BY <3>1
      <3> QED
        BY <1>3, <1>6, <2>1, <3>2
    <2>2. CASE v # w
      BY <1>3, <1>5, <2>2, Cast DEF Readouts
    <2> QED
      BY <2>1, <2>2
  <1>8. \E g \in 0..sched.trips, p \in 0..sched.mmas : FlowAt(g, p)'
    BY <1>5, <1>7
  <1>9. Shaped'
    BY <1>1, <1>2, DeadBarriers
       DEF Shaped, Stages, Mmas, Loads, Operands, Commands, DrainedStages
  <1>10. \A v \in Readers : pc'[v] # "readout" => reading'[v] = [mma |-> 1, waited |-> FALSE]
    BY <1>1, <1>2, <1>3, Cast DEF Idle
  <1>11. Outputs'
    <2>1. ASSUME NEW v \in Readers
          PROVE  Taken(v)' = Taken(v)
      <3>1. CASE v = w
        <4>1. Taken(v) = {}
          BY <1>1, <3>1 DEF Taken
        <4>2. Taken(v)' = 1..(reading[v].mma - 1)
          BY <1>1, <1>3, <3>1 DEF Taken
        <4>3. 1..(1 - 1) = {}
          OBVIOUS
        <4> QED
          BY <1>6, <3>1, <4>1, <4>2, <4>3
      <3>2. CASE v # w
        BY <1>1, <1>3, <3>2, Cast DEF Taken, Mmas
      <3> QED
        BY <3>1, <3>2
    <2> QED
      BY <1>1, <1>4, <2>1, OutputsKept DEF IInv
  <1>12. \A stage \in Stages : WithinCount(ready'[stage]) /\ WithinCount(free'[stage])
    BY <1>1, DeadBarriers
  <1> QED
    BY <1>1, <1>2, <1>8, <1>9, <1>10, <1>11, <1>12, ReadingStep

(* A wait that returns finds the accumulator announced.                    *)
LEMMA AwaitDoneStep ==
    ASSUME IInv, Straight, NEW w \in Warps, AwaitDone(w)
    PROVE  IInv' /\ Straight'
  <1>1. /\ w \in Readers /\ pc[w] = "readout" /\ Passed(done[reading[w].mma], 0)
        /\ reading' = [reading EXCEPT ![w].waited = TRUE]
        /\ UNCHANGED <<sched, pc, tile, ready, free, done, tmem, smem, acc, copying, issuing,
                       inflight, queue, out>>
    BY DEF AwaitDone, Complete
  <1>2. Reading /\ Step(w) /\ Shaped /\ Idle
    BY <1>1, WhereAll DEF IInv, Step
  <1>3. Tile' = Tile
    BY <1>1, <1>2, ReadingFlow
  <1>4. PICK f \in 0..sched.trips, o \in 0..sched.mmas :
           /\ f = sched.trips /\ Accumulators(f, o) /\ Readouts(o)
           /\ Readouts(o)' => FlowAt(f, o)'
    BY <1>1, <1>2, ReadingFlow
  <1>5. /\ reading' \in [Readers -> [mma : Mmas, waited : BOOLEAN]]
        /\ reading \in [Readers -> [mma : Mmas, waited : BOOLEAN]]
        /\ \A v \in Readers : reading'[v].mma = reading[v].mma
        /\ \A v \in Readers : v # w => reading'[v] = reading[v]
    <2>1. reading \in [Readers -> [mma : Mmas, waited : BOOLEAN]]
      BY <1>2 DEF Shaped
    <2> QED
      BY <1>1, <2>1
  <1>6. reading[w].mma <= o
    <2>1. reading[w].mma \in Mmas
      BY <1>1, <1>5
    <2>2. done[reading[w].mma] = [live |-> TRUE, count |-> 1, pending |-> 1, tx |-> 0,
             phase |-> IF f = sched.trips /\ reading[w].mma <= o THEN 1 ELSE 0]
      BY <1>4, <2>1 DEF Accumulators
    <2>3. /\ done[reading[w].mma].live
          /\ done[reading[w].mma].phase = IF f = sched.trips /\ reading[w].mma <= o THEN 1 ELSE 0
      BY <2>2
    <2> QED
      BY <1>1, <2>3 DEF Passed
  <1>7. Readouts(o)'
    <2> SUFFICES ASSUME NEW v \in Readers
                 PROVE  /\ pc[v] = "readout" => /\ reading'[v].mma <= o + 1
                                                /\ reading'[v].waited => reading'[v].mma <= o
                        /\ pc[v] = "syncTile" => o = sched.mmas
      BY <1>1 DEF Readouts
    <2>1. /\ pc[v] = "readout" => /\ reading[v].mma <= o + 1
                                  /\ reading[v].waited => reading[v].mma <= o
          /\ pc[v] = "syncTile" => o = sched.mmas
      BY <1>4 DEF Readouts
    <2> QED
      BY <1>5, <1>6, <2>1
  <1>8. \E g \in 0..sched.trips, p \in 0..sched.mmas : FlowAt(g, p)'
    BY <1>4, <1>7
  <1>9. Shaped'
    BY <1>1, <1>2, <1>5
       DEF Shaped, Stages, Mmas, Loads, Operands, Commands, DrainedStages
  <1>10. \A v \in Readers : pc'[v] # "readout" => reading'[v] = [mma |-> 1, waited |-> FALSE]
    BY <1>1, <1>2, <1>5 DEF Idle
  <1>11. Outputs'
    <2>1. \A v \in Readers : Taken(v)' = Taken(v)
      BY <1>1, <1>5 DEF Taken, Mmas
    <2> QED
      BY <1>1, <1>3, <2>1, OutputsKept DEF IInv
  <1>12. \A stage \in Stages : WithinCount(ready'[stage]) /\ WithinCount(free'[stage])
    BY <1>1 DEF IInv, TypeOK
  <1> QED
    BY <1>1, <1>2, <1>8, <1>9, <1>10, <1>11, <1>12, ReadingStep

(* An announced accumulator holds the whole product.                       *)
LEMMA WholeProduct ==
    ASSUME sched \in Schedules, NEW o \in 0..sched.mmas, Accumulators(sched.trips, o),
           NEW m \in Mmas, m <= o
    PROVE  acc[m] = Product(Tile)
  <1>1. Executed(sched.trips, o, m) = sched.trips /\ sched.trips > 0
    BY Sizes DEF Executed
  <1> QED
    BY <1>1 DEF Accumulators, Product, Contributions

LEMMA ReadTmemStep ==
    ASSUME IInv, Straight, NEW w \in Warps, ReadTmem(w)
    PROVE  IInv' /\ Straight'
  <1> SUFFICES ASSUME NEW m, m = reading[w].mma
               PROVE  IInv' /\ Straight'
    OBVIOUS
  <1>1. /\ w \in Readers /\ pc[w] = "readout" /\ reading[w].waited
        /\ out' = [out EXCEPT ![w][m] = acc[m]]
        /\ \/ /\ m < sched.mmas
              /\ reading' = [reading EXCEPT ![w] = [mma |-> m + 1, waited |-> FALSE]]
              /\ pc' = pc
           \/ /\ ~(m < sched.mmas)
              /\ reading' = [reading EXCEPT ![w] = [mma |-> 1, waited |-> FALSE]]
              /\ pc' = [pc EXCEPT ![w] = "syncTile"]
        /\ UNCHANGED <<sched, tile, ready, free, done, tmem, smem, acc, copying, issuing,
                       inflight, queue>>
    BY DEF ReadTmem, AfterReadout, ToClosing, Goto, Straight
  <1>2. /\ Reading /\ Step(w) /\ Shaped /\ Idle /\ Outputs /\ sched \in Schedules
        /\ pc \in [Warps -> Segments]
    BY <1>1, WhereAll DEF IInv, Step, TypeOK, Segments
  <1>3. Tile' = Tile
    BY <1>1, <1>2, ReadingFlow
  <1>4. PICK f \in 0..sched.trips, o \in 0..sched.mmas :
           /\ f = sched.trips /\ Accumulators(f, o) /\ Readouts(o)
           /\ Readouts(o)' => FlowAt(f, o)'
    BY <1>1, <1>2, ReadingFlow
  <1>5. /\ sched.mmas \in Nat \ {0} /\ m \in Mmas /\ m \in Nat \ {0} /\ o \in Nat
        /\ m <= sched.mmas /\ m <= o
        /\ reading \in [Readers -> [mma : Mmas, waited : BOOLEAN]]
    <2>1. sched.mmas \in Nat \ {0}
      BY <1>2, Sizes
    <2>2. m \in Mmas /\ reading \in [Readers -> [mma : Mmas, waited : BOOLEAN]]
      BY <1>1, <1>2 DEF Shaped
    <2>3. m <= o
      BY <1>1, <1>4 DEF Readouts
    <2> QED
      BY <2>1, <2>2, <2>3 DEF Mmas
  <1>6. acc[m] = Product(Tile)
    BY <1>2, <1>4, <1>5, WholeProduct
  <1>7. /\ reading' \in [Readers -> [mma : Mmas, waited : BOOLEAN]]
        /\ \A v \in Readers : v # w => reading'[v] = reading[v] /\ pc'[v] = pc[v]
        /\ \/ /\ m < sched.mmas /\ pc'[w] = "readout"
              /\ reading'[w] = [mma |-> m + 1, waited |-> FALSE]
           \/ /\ m = sched.mmas /\ pc'[w] = "syncTile"
              /\ reading'[w] = [mma |-> 1, waited |-> FALSE]
    <2>1. CASE m < sched.mmas
      <3>1. m + 1 \in Mmas
        BY <1>5, <2>1 DEF Mmas
      <3>2. [mma |-> m + 1, waited |-> FALSE] \in [mma : Mmas, waited : BOOLEAN]
        BY <3>1
      <3> QED
        BY <1>1, <1>5, <2>1, <3>2
    <2>2. CASE ~(m < sched.mmas)
      <3>1. 1 \in Mmas /\ m = sched.mmas
        BY <1>5, <2>2 DEF Mmas
      <3>2. [mma |-> 1, waited |-> FALSE] \in [mma : Mmas, waited : BOOLEAN]
        BY <3>1
      <3>3. pc'[w] = "syncTile" /\ \A v \in Readers : v # w => pc'[v] = pc[v]
        BY <1>1, <1>2, <2>2, Cast
      <3> QED
        BY <1>1, <1>5, <2>2, <3>1, <3>2, <3>3
    <2> QED
      BY <2>1, <2>2
  <1>8. Readouts(o)'
    <2> SUFFICES ASSUME NEW v \in Readers
                 PROVE  /\ pc'[v] = "readout" => /\ reading'[v].mma <= o + 1
                                                 /\ reading'[v].waited => reading'[v].mma <= o
                        /\ pc'[v] = "syncTile" => o = sched.mmas
      BY <1>1 DEF Readouts
    <2>1. CASE v = w
      <3>1. CASE m < sched.mmas
        <4>1. /\ pc'[w] = "readout" /\ reading'[w].mma = m + 1 /\ ~reading'[w].waited
          BY <1>5, <1>7, <3>1
        <4>2. m + 1 <= o + 1
          BY <1>5
        <4> QED
          BY <2>1, <4>1, <4>2
      <3>2. CASE m = sched.mmas
        <4>1. pc'[w] = "syncTile"
          BY <1>5, <1>7, <3>2
        <4>2. o = sched.mmas
          BY <1>5, <3>2
        <4> QED
          BY <2>1, <4>1, <4>2
      <3> QED
        BY <1>5, <3>1, <3>2
    <2>2. CASE v # w
      BY <1>4, <1>7, <2>2 DEF Readouts
    <2> QED
      BY <2>1, <2>2
  <1>9. \E g \in 0..sched.trips, p \in 0..sched.mmas : FlowAt(g, p)'
    BY <1>4, <1>8
  <1>10. /\ out' \in [Readers -> [Mmas -> Seq(SUBSET Operands)]]
         /\ \A v \in Readers, i \in Mmas :
               out'[v][i] = IF v = w /\ i = m THEN Product(Tile) ELSE out[v][i]
    <2>1. acc[m] \in Seq(SUBSET Operands) /\ out \in [Readers -> [Mmas -> Seq(SUBSET Operands)]]
      BY <1>2, <1>5 DEF Shaped
    <2> QED
      BY <1>1, <1>5, <1>6, <2>1
  <1>11. Shaped'
    BY <1>1, <1>2, <1>7, <1>10
       DEF Shaped, Stages, Mmas, Loads, Operands, Commands, DrainedStages
  <1>12. \A v \in Readers : pc'[v] # "readout" => reading'[v] = [mma |-> 1, waited |-> FALSE]
    BY <1>2, <1>7 DEF Idle
  <1>13. Outputs'
    <2> SUFFICES ASSUME NEW v \in Readers, NEW i \in Mmas
                 PROVE  out'[v][i] = IF i \in Taken(v)' THEN Product(Tile) ELSE Before(Tile)
      BY <1>1, <1>3 DEF Outputs, Product, Before, Mmas
    <2>1. out[v][i] = IF i \in Taken(v) THEN Product(Tile) ELSE Before(Tile)
      BY <1>2 DEF Outputs
    <2>2. CASE v # w
      <3>1. Taken(v)' = Taken(v)
        BY <1>1, <1>7, <2>2 DEF Taken, Mmas
      <3> QED
        BY <1>10, <2>1, <2>2, <3>1
    <2>3. CASE v = w
      <3>1. Taken(v) = 1..(m - 1)
        BY <1>1, <2>3 DEF Taken
      <3>2. Taken(v)' = 1..m
        <4>1. CASE m < sched.mmas
          <5>1. pc'[v] = "readout" /\ reading'[v].mma = m + 1
            BY <1>5, <1>7, <2>3, <4>1
          <5>2. (m + 1) - 1 = m
            BY <1>5
          <5> QED
            BY <5>1, <5>2 DEF Taken
        <4>2. CASE m = sched.mmas
          <5>1. pc'[v] = "syncTile"
            BY <1>5, <1>7, <2>3, <4>2
          <5> QED
            BY <1>1, <4>2, <5>1 DEF Taken, Mmas
        <4> QED
          BY <1>5, <4>1, <4>2
      <3>3. i \in 1..m <=> i \in 1..(m - 1) \/ i = m
        BY <1>5 DEF Mmas
      <3> QED
        BY <1>10, <2>1, <2>3, <3>1, <3>2, <3>3
    <2> QED
      BY <2>2, <2>3
  <1>14. \A stage \in Stages : WithinCount(ready'[stage]) /\ WithinCount(free'[stage])
    BY <1>1, <1>2 DEF IInv, TypeOK
  <1> QED
    BY <1>1, <1>2, <1>9, <1>11, <1>12, <1>13, <1>14, ReadingStep

-------------------------------------------------------------------------------
(* Every step *)

LEMMA StutterStep ==
    ASSUME IInv, Straight, UNCHANGED vars
    PROVE  IInv' /\ Straight'
  <1>1. /\ sched' = sched /\ pc' = pc /\ tile' = tile /\ ready' = ready /\ free' = free
        /\ done' = done /\ tmem' = tmem /\ smem' = smem /\ acc' = acc /\ copying' = copying
        /\ issuing' = issuing /\ inflight' = inflight /\ queue' = queue /\ reading' = reading
        /\ out' = out
    BY DEF vars
  <1>2. /\ Tile' = Tile /\ Issued' = Issued /\ Copied' = Copied
        /\ (Allocating' <=> Allocating) /\ (Opening' <=> Opening) /\ (Ringing' <=> Ringing)
        /\ (Reading' <=> Reading) /\ (Closing' <=> Closing) /\ (Leaving' <=> Leaving)
        /\ (Ending' <=> Ending)
    BY <1>1 DEF Tile, Issued, Copied, Allocating, Opening, Ringing, Reading, Closing, Leaving,
                Ending, Among
  <1>3. TypeOK'
    BY <1>1 DEF IInv, TypeOK, Stages, Mmas, DrainedStages
  <1>4. Shaped'
    BY <1>1 DEF IInv, Shaped, Stages, Mmas, Loads, Operands, Commands, DrainedStages
  <1>5. Lockstep' /\ Roles' /\ Allocated'
    BY <1>1, <1>2 DEF IInv, Lockstep, Roles, Allocated
  <1>6. Idle'
    BY <1>1, <1>2 DEF IInv, Idle
  <1>7. Opened'
    BY <1>1, <1>2 DEF IInv, Opened, Fresh, Completed, Stages, Mmas, Fills
  <1>8. Flow'
    <2> SUFFICES ASSUME Ringing \/ Reading
                 PROVE  \E f \in 0..sched.trips, o \in 0..sched.mmas : FlowAt(f, o)'
      BY <1>1, <1>2 DEF Flow
    <2>1. PICK f \in 0..sched.trips, o \in 0..sched.mmas : FlowAt(f, o)
      BY DEF IInv, Flow
    <2>2. /\ Ordered(f)' /\ Queued(f, o)' /\ Copies' /\ Held(f)' /\ Accumulators(f, o)'
          /\ Ringing' => Ring(f)'
      BY <1>1, <1>2, <2>1, Frames DEF FlowAt
    <2>3. Drained(f)' /\ Readouts(o)'
      BY <1>1, <2>1 DEF FlowAt, Drained, FinalStep, Readouts
    <2> QED
      BY <2>2, <2>3 DEF FlowAt
  <1>9. Outputs'
    <2>1. \A w \in Readers : Taken(w)' = Taken(w)
      BY <1>1 DEF Taken, Mmas
    <2> QED
      BY <1>1, <1>2, <2>1, OutputsKept DEF IInv
  <1> QED
    BY <1>1, <1>3, <1>4, <1>5, <1>6, <1>7, <1>8, <1>9 DEF IInv, Straight

LEMMA KernelStep ==
    ASSUME IInv, Straight, [Next]_vars
    PROVE  IInv' /\ Straight'
  <1>1. CASE Syncthreads
    BY <1>1, RendezvousStep
  <1>2. CASE Deliver
    BY <1>2, DeliverStep
  <1>3. CASE Execute
    BY <1>3, ExecuteStep
  <1>4. ASSUME NEW w \in Warps, Step(w)
        PROVE  IInv' /\ Straight'
    <2>1. CASE Alloc(w)
      BY <2>1, AllocStep
    <2>2. CASE Setup(w)
      BY <2>2, SetupStep
    <2>3. CASE AwaitFree(w)
      BY <2>3, AwaitFreeStep
    <2>4. CASE LoadTma(w)
      BY <2>4, LoadTmaStep
    <2>5. CASE LoadGlobal(w)
      BY <2>5, LoadGlobalStep
    <2>6. CASE IssueStep(w)
      BY <2>6, IssueStepStep
    <2>7. CASE Drain(w)
      BY <2>7, DrainStep
    <2>8. CASE InvalidateRing(w)
      BY <2>8, InvalidateRingStep
    <2>9. CASE AwaitDone(w)
      BY <2>9, AwaitDoneStep
    <2>10. CASE ReadTmem(w)
      BY <2>10, ReadTmemStep
    <2>11. CASE InvalidateCompletions(w)
      BY <2>11, InvalidateCompletionsStep
    <2>12. CASE Dealloc(w)
      BY <2>12, DeallocStep
    <2> QED
      BY <1>4, <2>1, <2>2, <2>3, <2>4, <2>5, <2>6, <2>7, <2>8, <2>9, <2>10, <2>11, <2>12 DEF Step
  <1>5. CASE UNCHANGED vars
    BY <1>5, StutterStep
  <1> QED
    BY <1>1, <1>2, <1>3, <1>4, <1>5 DEF Next

(* The invariant of a kernel whose readouts stand behind the contraction.  *)
THEOREM KernelInvariance == ASSUME ReadoutBehind PROVE Spec => [](IInv /\ Straight)
  <1>1. Init => IInv /\ Straight
    BY KernelInit
  <1>2. IInv /\ Straight /\ [Next]_vars => (IInv /\ Straight)'
    BY KernelStep
  <1> QED
    BY <1>1, <1>2, PTL DEF Spec

(* Every variable of such a kernel keeps its type.                         *)
THEOREM KernelTyped == ASSUME ReadoutBehind PROVE Spec => []TypeOK
  <1>1. IInv => TypeOK
    BY DEF IInv
  <1> QED
    BY <1>1, KernelInvariance, PTL

-------------------------------------------------------------------------------
(* What the invariant says *)

(* A queued command is of a step the tensor engine has not executed.       *)
LEMMA QueuedCommands ==
    ASSUME IInv, NEW i \in DOMAIN queue
    PROVE  /\ Ringing \/ Reading
           /\ \E f \in 0..sched.trips, o \in 0..sched.mmas, k \in Nat, j \in Nat \ {0} :
                 /\ FlowAt(f, o) /\ f <= k /\ k <= sched.trips /\ queue[i] = Command(k, j)
                 /\ k < Issued \/ (k = sched.trips /\ j <= sched.mmas)
  <1>1. queue # << >> /\ i \in 1..Len(queue)
    BY DEF IInv, Shaped
  <1>2. Ringing \/ Reading
    BY <1>1 DEF IInv, Idle
  <1>3. PICK f \in 0..sched.trips, o \in 0..sched.mmas : FlowAt(f, o)
    BY <1>2 DEF IInv, Flow
  <1>4. PICK k \in f..sched.trips, j \in 1..PerStep :
           Standing(k, j) /\ queue[i] = Command(k, j)
    BY <1>1, <1>3 DEF FlowAt, Queued
  <1>5. sched.trips \in Nat \ {0} /\ sched.mmas \in Nat \ {0}
    BY Sizes DEF IInv, TypeOK
  <1>6. k \in Nat /\ j \in Nat \ {0} /\ f <= k /\ k <= sched.trips
    BY <1>5 DEF PerStep
  <1>7. k < Issued \/ (k = sched.trips /\ j <= sched.mmas)
    BY <1>4 DEF Standing
  <1> QED
    BY <1>2, <1>3, <1>4, <1>6, <1>7

(* The stage of a step issued and not executed is the window's.            *)
LEMMA IssuedStep ==
    ASSUME IInv, NEW f \in 0..sched.trips, NEW o \in 0..sched.mmas, FlowAt(f, o),
           NEW k \in Nat, f <= k, k < Issued
    PROVE  /\ k \in Window(f) /\ k < Copied /\ k # sched.trips /\ Ringing
           /\ Announced(k) = {} /\ \A l \in Loads : smem[StageOf(k)][l] = <<Tile, k>>
  <1>1. sched \in Schedules /\ Shaped
    BY DEF IInv, TypeOK
  <1>2. /\ sched.stages \in Nat \ {0} /\ sched.trips \in Nat \ {0} /\ f \in Nat
        /\ Copied \in Nat /\ Issued \in 0..sched.trips
    <2>1. sched.stages \in Nat \ {0} /\ sched.trips \in Nat \ {0}
      BY <1>1, Sizes
    <2> QED
      BY <1>1, <2>1 DEF Shaped, Copied, Issued
  <1>3. Ordered(f) /\ Copies /\ Held(f) /\ Drained(f)
    BY DEF FlowAt
  <1>4. k < Copied /\ k \in f..Copied /\ k \in Window(f) /\ k # sched.trips /\ f # sched.trips
    BY <1>2, <1>3 DEF Ordered, Window
  <1>5. Ringing
    BY <1>3, <1>4, IssueWarp DEF Drained
  <1>6. Announced(k) = {}
    BY <1>1, <1>2, <1>3, <1>4, NoneAnnounced
  <1>7. ASSUME NEW l \in Loads
        PROVE  smem[StageOf(k)][l] = <<Tile, k>>
    <2>1. Started(k, l)
      BY <1>4 DEF Started
    <2>2. Transfer(k, l) \in inflight \/ smem[StageOf(k)][l] = <<Tile, k>>
      BY <1>3, <1>4, <2>1 DEF Held
    <2>3. Transfer(k, l) \notin inflight
      BY <1>6 DEF Announced, Transfer
    <2> QED
      BY <2>2, <2>3
  <1> QED
    BY <1>4, <1>5, <1>6, <1>7

(* The barriers of the ring are live while a warp is in it.                *)
LEMMA RingIsLive ==
    ASSUME IInv, Ringing
    PROVE  \A stage \in Stages : ready[stage].live /\ free[stage].live
  <1>1. PICK f \in 0..sched.trips, o \in 0..sched.mmas : FlowAt(f, o)
    BY DEF IInv, Flow
  <1>2. sched \in Schedules /\ f \in Nat /\ Ring(f)
    BY <1>1, Sizes DEF IInv, TypeOK, FlowAt
  <1>3. ASSUME NEW stage \in Stages
        PROVE  ready[stage].live /\ free[stage].live
    <2>1. PICK k \in Window(f) : StageOf(k) = stage
      BY <1>2, WindowSteps
    <2>2. free[stage] = FreeFor(k) /\ ready[stage] = ReadyFor(k)
      BY <1>2, <2>1 DEF Ring
    <2> QED
      BY <2>2 DEF FreeFor, ReadyFor
  <1> QED
    BY <1>3

LEMMA CompletionIsLive ==
    ASSUME NEW f, NEW o, FlowAt(f, o), NEW m \in Mmas
    PROVE  done[m].live /\ done[m].phase = IF f = sched.trips /\ m <= o THEN 1 ELSE 0
  <1>1. done[m] = [live |-> TRUE, count |-> 1, pending |-> 1, tx |-> 0,
                   phase |-> IF f = sched.trips /\ m <= o THEN 1 ELSE 0]
    BY DEF FlowAt, Accumulators
  <1> QED
    BY <1>1

LEMMA BarriersAreLive ==
    ASSUME IInv
    PROVE  BarriersOutliveTheirUsers
  <1>1. sched \in Schedules /\ Shaped
    BY DEF IInv, TypeOK
  <1>2. ASSUME NEW w \in {Copy, Issue}, pc[w] = "ring"
        PROVE  \A stage \in Stages : ready[stage].live /\ free[stage].live
    BY <1>2, CopyWarp, IssueWarp, RingIsLive
  <1>3. ASSUME NEW c \in inflight
        PROVE  ready[c.stage].live
    <2>1. Ringing
      BY <1>3 DEF IInv, Idle
    <2>2. PICK f \in 0..sched.trips, o \in 0..sched.mmas : FlowAt(f, o)
      BY <2>1 DEF IInv, Flow
    <2>3. f \in Nat /\ Ordered(f) /\ Copies
      BY <1>1, <2>2, Sizes DEF FlowAt
    <2>4. PICK k \in Window(f), l \in Loads : c = Transfer(k, l)
      BY <1>1, <2>3, CopiesAhead
    <2>5. c.stage \in Stages
      BY <1>1, <2>3, <2>4, WindowSteps, StageOfStep DEF Transfer
    <2> QED
      BY <2>1, <2>5, RingIsLive
  <1>4. ASSUME NEW i \in DOMAIN queue
        PROVE  /\ queue[i].kind = "free" => free[queue[i].stage].live
               /\ queue[i].kind = "done" => done[queue[i].mma].live
    <2>1. PICK f \in 0..sched.trips, o \in 0..sched.mmas, k \in Nat, j \in Nat \ {0} :
             /\ FlowAt(f, o) /\ f <= k /\ k <= sched.trips /\ queue[i] = Command(k, j)
             /\ k < Issued \/ (k = sched.trips /\ j <= sched.mmas)
      BY QueuedCommands
    <2>2. CASE k < Issued
      <3>1. Ringing /\ k # sched.trips
        BY <2>1, <2>2, IssuedStep
      <3>2. free[StageOf(k)].live
        BY <1>1, <3>1, StageOfStep, RingIsLive
      <3>3. queue[i].kind # "done" /\ queue[i].stage = StageOf(k)
        BY <2>1, <3>1 DEF Command
      <3> QED
        BY <3>2, <3>3
    <2>3. CASE k = sched.trips /\ j <= sched.mmas
      <3>1. queue[i].kind = "done" /\ queue[i].mma = j
        BY <2>1, <2>3 DEF Command
      <3>2. j \in Mmas
        BY <1>1, <2>3, Sizes DEF Mmas
      <3>3. done[j].live
        BY <2>1, <3>2, CompletionIsLive
      <3> QED
        BY <3>1, <3>3
    <2> QED
      BY <2>1, <2>2, <2>3
  <1>5. ASSUME NEW w \in Readers, pc[w] = "readout"
        PROVE  done[reading[w].mma].live
    <2>1. Reading
      BY <1>5, Cast, WhereAll DEF IInv
    <2>2. PICK f \in 0..sched.trips, o \in 0..sched.mmas : FlowAt(f, o)
      BY <2>1 DEF IInv, Flow
    <2>3. reading[w].mma \in Mmas
      BY <1>1 DEF Shaped
    <2> QED
      BY <2>2, <2>3, CompletionIsLive
  <1> QED
    BY <1>2, <1>3, <1>4, <1>5 DEF BarriersOutliveTheirUsers

LEMMA StageIsHeld ==
    ASSUME IInv
    PROVE  StageHeldUntilExecuted
  <1> SUFFICES ASSUME NEW i \in DOMAIN queue, queue[i].kind = "mma"
               PROVE  /\ \A l \in Loads : smem[queue[i].stage][l] = queue[i].operand
                      /\ \A c \in inflight : c.stage # queue[i].stage
    BY DEF StageHeldUntilExecuted
  <1>1. PICK f \in 0..sched.trips, o \in 0..sched.mmas, k \in Nat, j \in Nat \ {0} :
           /\ FlowAt(f, o) /\ f <= k /\ k <= sched.trips /\ queue[i] = Command(k, j)
           /\ k < Issued \/ (k = sched.trips /\ j <= sched.mmas)
    BY QueuedCommands
  <1>2. k # sched.trips /\ queue[i].stage = StageOf(k) /\ queue[i].operand = <<Tile, k>>
    BY <1>1 DEF Command
  <1>3. Announced(k) = {} /\ \A l \in Loads : smem[StageOf(k)][l] = <<Tile, k>>
    BY <1>1, <1>2, IssuedStep
  <1> QED
    BY <1>2, <1>3 DEF Announced

LEMMA AccumulatorIsHeld ==
    ASSUME IInv
    PROVE  AccumulatorHeldWhileRead
  <1>1. queue # << >> => tmem
    BY DEF IInv, Idle, Allocated
  <1>2. ASSUME NEW w \in Readers, pc[w] = "readout", reading[w].waited
        PROVE  /\ acc[reading[w].mma] = Product(tile[w]) /\ tmem
               /\ \A i \in DOMAIN queue : queue[i].kind = "mma" => queue[i].mma # reading[w].mma
    <2>1. Reading /\ tmem /\ Tile = tile[w]
      BY <1>2, Cast, WhereAll DEF IInv, Allocated, Lockstep
    <2>2. pc[Issue] # "ring" /\ ~Ringing
      BY <2>1, Cast, Apart DEF Reading, Among
    <2>3. PICK f \in 0..sched.trips, o \in 0..sched.mmas : FlowAt(f, o)
      BY <2>1 DEF IInv, Flow
    <2>4. f = sched.trips /\ reading[w].mma <= o
      BY <1>2, <2>2, <2>3 DEF FlowAt, Drained, Readouts
    <2>5. reading[w].mma \in Mmas /\ sched \in Schedules
      BY DEF IInv, Shaped, TypeOK
    <2>6. acc[reading[w].mma] = Product(Tile)
      BY <2>3, <2>4, <2>5, WholeProduct DEF FlowAt
    <2>7. ASSUME NEW i \in DOMAIN queue
          PROVE  queue[i].kind # "mma"
      <3>1. PICK g \in 0..sched.trips, p \in 0..sched.mmas, k \in Nat, j \in Nat \ {0} :
               /\ FlowAt(g, p) /\ g <= k /\ k <= sched.trips /\ queue[i] = Command(k, j)
               /\ k < Issued \/ (k = sched.trips /\ j <= sched.mmas)
        BY QueuedCommands
      <3>2. k = sched.trips
        BY <2>2, <3>1, IssuedStep
      <3> QED
        BY <3>1, <3>2 DEF Command
    <2> QED
      BY <2>1, <2>6, <2>7
  <1> QED
    BY <1>1, <1>2 DEF AccumulatorHeldWhileRead

(* No wait, arrival, commit or copy meets a barrier that was invalidated.  *)
(* (pipeline drains the ring before thread 0 invalidates it, and each      *)
(* readout waits before the tile is closed.)                               *)
THEOREM BarriersOutlive == ASSUME ReadoutBehind PROVE Spec => []BarriersOutliveTheirUsers
  <1>1. IInv => BarriersOutliveTheirUsers
    BY BarriersAreLive
  <1> QED
    BY <1>1, KernelInvariance, PTL

(* A queued MMA finds the operands of its own step and tile in its stage.  *)
(* (pipeline's parity waits, for every number of stages, steps, loads and  *)
(* tiles.)                                                                 *)
THEOREM StageHeld == ASSUME ReadoutBehind PROVE Spec => []StageHeldUntilExecuted
  <1>1. IInv => StageHeldUntilExecuted
    BY StageIsHeld
  <1> QED
    BY <1>1, KernelInvariance, PTL

(* A readout warp past its wait reads the whole product of its own tile.   *)
(* (loop closes a tile only behind every readout of it.)                   *)
THEOREM AccumulatorHeld == ASSUME ReadoutBehind PROVE Spec => []AccumulatorHeldWhileRead
  <1>1. IInv => AccumulatorHeldWhileRead
    BY AccumulatorIsHeld
  <1> QED
    BY <1>1, KernelInvariance, PTL

-------------------------------------------------------------------------------
(* What the kernel promises *)

LEMMA Products ==
    ASSUME sched \in Schedules
    PROVE  /\ \A t, u : Product(t) = Product(u) => t = u
           /\ \A t : Product(t) # << >>
  <1>1. 1 \in 1..sched.trips
    BY Sizes
  <1>2. ASSUME NEW t
        PROVE  Product(t)[1] = {<<t, 0>>} /\ DOMAIN Product(t) = 1..sched.trips
    BY <1>1 DEF Product
  <1>3. ASSUME NEW t, NEW u, Product(t) = Product(u)
        PROVE  t = u
    <2>1. {<<t, 0>>} = {<<u, 0>>}
      BY <1>2, <1>3
    <2>2. <<t, 0>> = <<u, 0>>
      BY <2>1
    <2> QED
      BY <2>2
  <1>4. DOMAIN << >> = {}
    OBVIOUS
  <1> QED
    BY <1>1, <1>2, <1>3, <1>4

(* The open tile is the warps' own until thread 0 has closed it.           *)
LEMMA OpenTiles ==
    ASSUME IInv
    PROVE  /\ Tile \in 1..sched.tiles /\ sched.tiles \in Nat \ {0} /\ OpenTile \in Nat
           /\ pc[sched.leader] \in {"syncClose", "syncLast", "dealloc", "end"} => OpenTile = Tile + 1
           /\ pc[sched.leader] \notin {"syncClose", "syncLast", "dealloc", "end"} => OpenTile = Tile
  <1>1. sched \in Schedules /\ sched.leader \in Warps /\ sched.tiles \in Nat \ {0}
    BY Sizes DEF IInv, TypeOK
  <1>2. Tile \in 1..sched.tiles
    BY <1>1 DEF IInv, TypeOK, Tile
  <1>3. pc[sched.leader] \in {"syncLast", "dealloc", "end"} => Tile = sched.tiles
    BY <1>1, WhereAll DEF IInv, Lockstep
  <1> QED
    BY <1>1, <1>2, <1>3 DEF OpenTile, Tile

(* A readout warp has taken of the open tile what it has read in it.       *)
LEMMA TakenPairs ==
    ASSUME IInv, NEW w \in Readers, NEW m \in Mmas
    PROVE  out[w][m] = Product(OpenTile) <=> OpenTile = Tile /\ m \in Taken(w)
  <1>1. sched \in Schedules
    BY DEF IInv, TypeOK
  <1>2. Tile \in Nat \ {0} /\ (OpenTile = Tile \/ OpenTile = Tile + 1)
    BY OpenTiles
  <1>3. out[w][m] = IF m \in Taken(w) THEN Product(Tile) ELSE Before(Tile)
    BY DEF IInv, Outputs
  <1>4. Before(Tile) = << >> \/ Before(Tile) = Product(Tile - 1)
    BY DEF Before
  <1>5. Tile # Tile + 1 /\ Tile - 1 # Tile /\ Tile - 1 # Tile + 1
    BY <1>2
  <1>6. /\ Product(Tile) # Product(Tile + 1) /\ Product(Tile - 1) # Product(Tile)
        /\ Product(Tile - 1) # Product(Tile + 1)
        /\ << >> # Product(Tile) /\ << >> # Product(Tile + 1)
    BY <1>1, <1>5, Products
  <1> QED
    BY <1>2, <1>3, <1>4, <1>5, <1>6

LEMMA MapsToStutter ==
    ASSUME sched' = sched, out' = out, OpenTile' = OpenTile,
           \A m \in Mmas : Completed(m)' <=> Completed(m)
    PROVE  UNCHANGED TileByTile!vars
  <1>1. Mmas' = Mmas /\ \A t : Product(t)' = Product(t)
    BY DEF Mmas, Product
  <1>2. {m \in Mmas : done[m].live /\ done[m].phase = 1}'
           = {m \in Mmas : done[m].live /\ done[m].phase = 1}
    BY <1>1 DEF Completed
  <1>3. Product(OpenTile)' = Product(OpenTile)
    BY DEF Product
  <1>4. {t \in Readers \X Mmas : out[t[1]][t[2]] = Product(OpenTile)}'
           = {t \in Readers \X Mmas : out[t[1]][t[2]] = Product(OpenTile)}
    BY <1>1, <1>3
  <1> QED
    BY <1>2, <1>4 DEF TileByTile!vars

(* Warps that stay between two rendezvous leave the open tile open, but    *)
(* for the one that closes it.                                             *)
LEMMA OpenTileStays ==
    ASSUME IInv, Straight, Deliver \/ Execute \/ \E w \in Warps : Step(w),
           \A w \in Warps : ~InvalidateCompletions(w)
    PROVE  sched' = sched /\ OpenTile' = OpenTile
  <1>1. sched \in Schedules /\ sched.leader \in Warps /\ pc \in [Warps -> Segments]
    BY Sizes DEF IInv, TypeOK, Segments
  <1>2. CASE Deliver \/ Execute
    BY <1>2 DEF Deliver, Execute, OpenTile
  <1>3. ASSUME NEW w \in Warps, Step(w)
        PROVE  sched' = sched /\ OpenTile' = OpenTile
    <2>1. sched' = sched /\ tile' = tile
      BY <1>3, StepMoves DEF IInv
    <2>2. \/ pc'[sched.leader] = pc[sched.leader]
          \/ /\ pc[sched.leader] \notin {"syncClose", "syncLast", "dealloc", "end"}
             /\ pc'[sched.leader] \notin {"syncClose", "syncLast", "dealloc", "end"}
          \/ pc[sched.leader] = "dealloc" /\ pc'[sched.leader] = "end"
      BY <1>1, <1>3
         DEF Step, Alloc, Setup, AwaitFree, LoadTma, LoadGlobal, NextLoad, IssueStep, Drain,
             InvalidateRing, AwaitDone, ReadTmem, InvalidateCompletions, Dealloc, Goto, Straight,
             ToRingEnd, ToReadout, ToClosing, AfterReadout
    <2> QED
      BY <2>1, <2>2 DEF OpenTile
  <1> QED
    BY <1>2, <1>3

(* A notification publishes its accumulator.                               *)
LEMMA ExecutePublishes ==
    ASSUME IInv, Straight, Execute
    PROVE  UNCHANGED TileByTile!vars \/ \E m \in Mmas : TileByTile!Publish(m)
  <1>1. sched' = sched /\ out' = out /\ OpenTile' = OpenTile
    <2>1. \A w \in Warps : ~InvalidateCompletions(w)
      BY DEF Execute, InvalidateCompletions, Goto, IInv, TypeOK
    <2> QED
      BY <2>1, OpenTileStays DEF Execute
  <1>2. CASE done' = done
    BY <1>1, <1>2, MapsToStutter DEF Completed
  <1>3. CASE done' # done
    <2>1. queue # << >> /\ (Ringing \/ Reading) /\ Head(queue).kind = "done"
      BY <1>3 DEF Execute, IInv, Idle
    <2>2. PICK f \in 0..sched.trips, o \in 0..sched.mmas : FlowAt(f, o)
      BY <2>1 DEF IInv, Flow
    <2>3. f = sched.trips /\ o < sched.mmas /\ Head(queue) = Notice(o)
      BY <2>1, <2>2, Upcoming DEF Mma, Commit
    <2>4. PICK m \in Mmas : m = o + 1
      BY <2>3, Sizes DEF Mmas, IInv, TypeOK
    <2>5. FlowAt(f, o + 1)'
      BY <2>2, <2>3, NoticeExecutes
    <2>6. Mmas' = Mmas
      BY <1>1 DEF Mmas
    <2>7. \A i \in Mmas : Completed(i) <=> i <= o
      BY <2>2, <2>3, CompletionIsLive DEF Completed
    <2>8. \A i \in Mmas : Completed(i)' <=> i <= o + 1
      <3> SUFFICES ASSUME NEW i \in Mmas
                   PROVE  done'[i].live /\ (done'[i].phase = 1 <=> i <= o + 1)
        BY DEF Completed
      <3>1. done'[i] = [live |-> TRUE, count |-> 1, pending |-> 1, tx |-> 0,
                        phase |-> IF f = sched'.trips /\ i <= o + 1 THEN 1 ELSE 0]
        BY <2>5, <2>6 DEF FlowAt, Accumulators
      <3>2. done'[i].live /\ done'[i].phase = IF f = sched'.trips /\ i <= o + 1 THEN 1 ELSE 0
        BY ONLY <3>1
      <3>3. f = sched'.trips
        BY <1>1, <2>3
      <3> QED
        BY ONLY <3>2, <3>3
    <2>9. \A i \in Mmas : (i <= o + 1 <=> i <= o \/ i = m) /\ ~(m <= o)
      BY <2>4 DEF Mmas
    <2>10. /\ m \notin {i \in Mmas : done[i].live /\ done[i].phase = 1}
           /\ {i \in Mmas : done[i].live /\ done[i].phase = 1}'
                = {i \in Mmas : done[i].live /\ done[i].phase = 1} \union {m}
      BY <2>6, <2>7, <2>8, <2>9 DEF Completed
    <2>11. OpenTile <= sched.tiles
      <3>1. pc[sched.leader] \in {"ring", "syncRing", "inval", "readout", "syncTile"}
        BY <2>1, Sizes DEF Ringing, Reading, Among, IInv, TypeOK
      <3> QED
        BY <3>1, OpenTiles
    <2>12. {t \in Readers \X Mmas : out[t[1]][t[2]] = Product(OpenTile)}'
             = {t \in Readers \X Mmas : out[t[1]][t[2]] = Product(OpenTile)}
      BY <1>1, <2>6 DEF Product
    <2>13. TileByTile!Publish(m)
      BY <1>1, <2>10, <2>11, <2>12 DEF TileByTile!Publish
    <2> QED
      BY <2>13
  <1> QED
    BY <1>2, <1>3

(* A readout warp takes the product of the open tile.                      *)
LEMMA ReadTmemTakes ==
    ASSUME IInv, Straight, NEW w \in Warps, ReadTmem(w)
    PROVE  \E v \in Readers, m \in Mmas : TileByTile!Take(v, m)
  <1>1. w \in Readers /\ pc[w] = "readout" /\ reading[w].waited /\ Step(w)
    BY DEF ReadTmem, Step
  <1>2. PICK m \in Mmas : m = reading[w].mma
    BY <1>1 DEF IInv, Shaped
  <1>3. /\ out' = [out EXCEPT ![w][m] = acc[m]] /\ done' = done
        /\ out \in [Readers -> [Mmas -> Seq(SUBSET Operands)]]
    BY <1>2 DEF ReadTmem, IInv, Shaped
  <1>4. sched' = sched /\ OpenTile' = OpenTile
    <2>1. \A v \in Warps : ~InvalidateCompletions(v)
      BY <1>1, Cast, WhereAll, Apart DEF ReadTmem, InvalidateCompletions, IInv
    <2> QED
      BY <1>1, <2>1, OpenTileStays
  <1>5. Reading /\ Tile = tile[w]
    BY <1>1, Cast, WhereAll DEF IInv, Lockstep
  <1>6. OpenTile = Tile
    <2>1. pc[sched.leader] \in {"inval", "readout", "syncTile"}
      BY <1>5, Sizes DEF Reading, Among, IInv, TypeOK
    <2> QED
      BY <2>1, OpenTiles
  <1>7. PICK f \in 0..sched.trips, o \in 0..sched.mmas : FlowAt(f, o)
    BY <1>5 DEF IInv, Flow
  <1>8. f = sched.trips /\ m <= o
    <2>1. pc[Issue] # "ring"
      BY <1>5, Cast DEF Reading, Among
    <2> QED
      BY <1>1, <1>2, <1>7, <2>1 DEF FlowAt, Drained, Readouts
  <1>9. m \in {i \in Mmas : done[i].live /\ done[i].phase = 1}
    BY <1>7, <1>8, CompletionIsLive
  <1>10. acc[m] = Product(OpenTile)
    <2>1. sched \in Schedules
      BY DEF IInv, TypeOK
    <2> QED
      BY <1>6, <1>7, <1>8, <2>1, WholeProduct DEF FlowAt
  <1>11. out[w][m] # Product(OpenTile)
    <2>1. m \notin Taken(w)
      BY <1>1, <1>2 DEF Taken, Mmas
    <2> QED
      BY <1>1, <2>1, TakenPairs
  <1>12. Mmas' = Mmas /\ Product(OpenTile)' = Product(OpenTile)
    BY <1>4 DEF Mmas, Product
  <1>13. {t \in Readers \X Mmas : out[t[1]][t[2]] = Product(OpenTile)}'
           = {t \in Readers \X Mmas : out[t[1]][t[2]] = Product(OpenTile)} \union {<<w, m>>}
    <2>1. \A v \in Readers, i \in Mmas :
             out'[v][i] = IF v = w /\ i = m THEN acc[m] ELSE out[v][i]
      BY <1>1, <1>3
    <2>2. \A t \in Readers \X Mmas :
             out'[t[1]][t[2]] = Product(OpenTile)
                <=> out[t[1]][t[2]] = Product(OpenTile) \/ t = <<w, m>>
      BY <1>10, <2>1
    <2> QED
      BY <1>1, <1>12, <2>2
  <1>14. {i \in Mmas : done[i].live /\ done[i].phase = 1}'
           = {i \in Mmas : done[i].live /\ done[i].phase = 1}
    BY <1>3, <1>12
  <1>15. TileByTile!Product(OpenTile) = Product(OpenTile)
    BY DEF TileByTile!Product, Product
  <1>16. <<w, m>> \notin {t \in Readers \X Mmas : out[t[1]][t[2]] = Product(OpenTile)}
    BY <1>11
  <1>17. out' = [out EXCEPT ![w][m] = TileByTile!Product(OpenTile)]
    BY <1>3, <1>10, <1>15
  <1>18. TileByTile!Take(w, m)
    BY <1>4, <1>9, <1>13, <1>14, <1>16, <1>17 DEF TileByTile!Take
  <1> QED
    BY <1>1, <1>18

(* Closing a tile opens the next: every pair of it is taken.               *)
LEMMA ClosingOpensNext ==
    ASSUME IInv, Straight, NEW w \in Warps, InvalidateCompletions(w)
    PROVE  TileByTile!NextTile
  <1>1. /\ pc[w] = "close" /\ pc' = [pc EXCEPT ![w] = "syncClose"] /\ tile' = tile
        /\ sched' = sched /\ out' = out /\ done' = [m \in Mmas |-> Dead]
    BY DEF InvalidateCompletions, Goto
  <1>2. w = sched.leader /\ Closing /\ sched \in Schedules /\ pc \in [Warps -> Segments]
    BY <1>1, WhereAll DEF IInv, Roles, TypeOK, Segments
  <1>3. OpenTile = Tile /\ Tile \in 1..sched.tiles /\ sched.tiles \in Nat \ {0}
    BY <1>1, <1>2, OpenTiles
  <1>4. OpenTile' = Tile + 1
    BY <1>1, <1>2 DEF OpenTile, Tile
  <1>5. Mmas' = Mmas
    BY <1>1 DEF Mmas
  <1>6. {m \in Mmas : done[m].live /\ done[m].phase = 1}' = {}
    BY <1>1, <1>5 DEF Dead
  <1>7. ASSUME NEW v \in Readers, NEW m \in Mmas
        PROVE  out[v][m] = Product(Tile)
    <2>1. m \in Taken(v)
      BY <1>2, Cast DEF Closing, Among, Taken
    <2> QED
      BY <1>3, <2>1, TakenPairs
  <1>8. {t \in Readers \X Mmas : out[t[1]][t[2]] = Product(OpenTile)} = Readers \X Mmas
    BY <1>3, <1>7
  <1>9. Product(Tile + 1) # Product(Tile)
    BY <1>2, <1>3, Products
  <1>10. {t \in Readers \X Mmas : out[t[1]][t[2]] = Product(OpenTile)}' = {}
    <2>1. Product(OpenTile)' = Product(Tile + 1)
      BY <1>1, <1>4 DEF Product
    <2> QED
      BY <1>1, <1>5, <1>7, <1>9, <2>1
  <1>11. OpenTile <= sched.tiles /\ OpenTile' = OpenTile + 1
    BY <1>3, <1>4
  <1> QED
    BY <1>1, <1>6, <1>8, <1>10, <1>11 DEF TileByTile!NextTile, TileByTile!Mmas, Mmas

(* At a rendezvous nothing of the abstract state moves.                    *)
LEMMA RendezvousMapsToStutter ==
    ASSUME IInv, Straight, Syncthreads
    PROVE  UNCHANGED TileByTile!vars
  <1>1. /\ \A w \in Warps : pc[w] \in Rendezvous
        /\ pc' = [w \in Warps |-> Beyond(w)]
        /\ tile' = [w \in Warps |->
                       IF pc[w] = "syncClose" /\ MoreTiles(w) THEN tile[w] + 1 ELSE tile[w]]
        /\ sched' = sched /\ out' = out /\ done' = done
    BY DEF Syncthreads
  <1>2. PICK l \in Warps : l = sched.leader
    BY Sizes DEF IInv, TypeOK
  <1>3. /\ tile[l] \in 1..sched.tiles /\ sched.tiles \in Nat \ {0}
        /\ pc[l] = "syncLast" => tile[l] = sched.tiles
    BY <1>2, OpenTiles, WhereAll DEF IInv, Lockstep, Tile
  <1>4. pc'[l] = Beyond(l) /\ pc[l] \in Rendezvous
    BY <1>1
  <1>5. tile'[l] = IF pc[l] = "syncClose" /\ MoreTiles(l) THEN tile[l] + 1 ELSE tile[l]
    BY <1>1
  <1>6. OpenTile = IF pc[l] = "syncLast" THEN sched.tiles + 1
                   ELSE IF pc[l] = "syncClose" THEN tile[l] + 1 ELSE tile[l]
    BY <1>2, <1>4 DEF OpenTile, Rendezvous
  <1>7. OpenTile' = IF pc'[l] \in {"syncLast", "dealloc", "end"} THEN sched.tiles + 1
                    ELSE IF pc'[l] = "syncClose" THEN tile'[l] + 1 ELSE tile'[l]
    BY <1>1, <1>2 DEF OpenTile
  <1>8. OpenTile' = OpenTile
    <2>1. CASE pc[l] \in {"syncAlloc", "syncSetup", "syncRing", "syncTile"}
      <3>1. pc'[l] \in {"setup", "syncSetup", "readout", "ring", "syncRing", "inval", "syncTile",
                        "close"}
        BY <1>2, <1>4, <2>1
           DEF Beyond, ToTile, ToSetup, ToRing, ToInval, ToClose, Straight
      <3> QED
        BY <1>5, <1>6, <1>7, <2>1, <3>1
    <2>2. CASE pc[l] = "syncClose"
      <3>1. CASE MoreTiles(l)
        <4>1. pc'[l] = "setup"
          BY <1>2, <1>4, <2>2, <3>1 DEF Beyond, ToTile, ToSetup, Straight
        <4> QED
          BY <1>5, <1>6, <1>7, <2>2, <3>1, <4>1
      <3>2. CASE ~MoreTiles(l)
        <4>1. tile[l] = sched.tiles
          BY <1>3, <3>2 DEF MoreTiles
        <4>2. pc'[l] \in {"syncLast", "dealloc", "end"}
          BY <1>4, <2>2, <3>2 DEF Beyond, ToEnd
        <4> QED
          BY <1>6, <1>7, <2>2, <4>1, <4>2
      <3> QED
        BY <3>1, <3>2
    <2>3. CASE pc[l] = "syncLast"
      <3>1. pc'[l] \in {"dealloc", "end"}
        BY <1>4, <2>3 DEF Beyond, ToEnd
      <3> QED
        BY <1>6, <1>7, <2>3, <3>1
    <2> QED
      BY <1>4, <2>1, <2>2, <2>3 DEF Rendezvous
  <1> QED
    BY <1>1, <1>8, MapsToStutter DEF Completed

(* What the other steps do to the completion barriers: setup makes new     *)
(* ones where there are none.                                              *)
LEMMA SetupMapsToStutter ==
    ASSUME IInv, Straight, NEW w \in Warps, Setup(w)
    PROVE  \A m \in Mmas : Completed(m)' <=> Completed(m)
  <1>1. pc[w] = "setup" /\ done' = [m \in Mmas |-> Initialised(1)]
    BY DEF Setup
  <1>2. w = sched.leader /\ Opening
    BY <1>1, WhereAll DEF IInv, Roles
  <1>3. \A m \in Mmas : done[m] = Dead
    BY <1>1, <1>2 DEF IInv, Opened
  <1>4. Initialised(1).phase = 0 /\ ~Dead.live
    BY DEF Initialised, Dead
  <1>5. \A m \in Mmas : done'[m] = Initialised(1)
    BY <1>1
  <1> QED
    BY <1>3, <1>4, <1>5 DEF Completed

(* Each step of the kernel is a step of the promise, or none.              *)
LEMMA KernelRefines ==
    ASSUME IInv, Straight, [Next]_vars
    PROVE  [TileByTile!Next]_(TileByTile!vars)
  <1>1. CASE Syncthreads
    BY <1>1, RendezvousMapsToStutter
  <1>2. CASE Execute
    <2>1. CASE UNCHANGED TileByTile!vars
      BY <2>1
    <2>2. ASSUME NEW m \in Mmas, TileByTile!Publish(m)
          PROVE  TileByTile!Next
      BY <2>2 DEF TileByTile!Next, TileByTile!Mmas, Mmas
    <2> QED
      BY <1>2, <2>1, <2>2, ExecutePublishes
  <1>3. ASSUME NEW w \in Warps, ReadTmem(w)
        PROVE  TileByTile!Next
    <2>1. PICK v \in Readers, m \in Mmas : TileByTile!Take(v, m)
      BY <1>3, ReadTmemTakes
    <2> QED
      BY <2>1 DEF TileByTile!Next, TileByTile!Mmas, Mmas
  <1>4. ASSUME NEW w \in Warps, InvalidateCompletions(w)
        PROVE  TileByTile!Next
    BY <1>4, ClosingOpensNext DEF TileByTile!Next
  <1>5. CASE /\ Deliver \/ \E w \in Warps : Step(w)
             /\ \A w \in Warps : ~ReadTmem(w) /\ ~InvalidateCompletions(w)
    <2>1. sched' = sched /\ OpenTile' = OpenTile
      BY <1>5, OpenTileStays
    <2>2. out' = out /\ \A m \in Mmas : Completed(m)' <=> Completed(m)
      <3>1. CASE Deliver
        BY <3>1 DEF Deliver, Completed
      <3>2. ASSUME NEW w \in Warps, Setup(w)
            PROVE  out' = out /\ \A m \in Mmas : Completed(m)' <=> Completed(m)
        BY <3>2, SetupMapsToStutter DEF Setup
      <3>3. ASSUME NEW w \in Warps, Step(w), ~Setup(w)
            PROVE  out' = out /\ \A m \in Mmas : Completed(m)' <=> Completed(m)
        <4>1. out' = out /\ done' = done
          BY <1>5, <3>3 DEF Step, Alloc, AwaitFree, LoadTma, LoadGlobal, IssueStep, Drain,
                            InvalidateRing, AwaitDone, Dealloc
        <4> QED
          BY <4>1 DEF Completed
      <3> QED
        BY <1>5, <3>1, <3>2, <3>3
    <2> QED
      BY <2>1, <2>2, MapsToStutter
  <1>6. CASE UNCHANGED vars
    <2>1. sched' = sched /\ out' = out /\ OpenTile' = OpenTile /\ done' = done
      BY <1>6 DEF vars, OpenTile
    <2> QED
      BY <2>1, MapsToStutter DEF Completed
  <1> QED
    BY <1>1, <1>2, <1>3, <1>4, <1>5, <1>6 DEF Next

(* The kernel computes tile by tile: an accumulator is published once,     *)
(* every readout warp takes the complete product of the open tile from it, *)
(* and the next tile opens when all of them have.                          *)
THEOREM KernelImplementsContraction == ASSUME ReadoutBehind PROVE Spec => ImplementsContraction
  <1>1. Init => TileByTile!Init
    <2> SUFFICES ASSUME Init
                 PROVE  TileByTile!Init
      OBVIOUS
    <2>1. IInv /\ Straight
      BY KernelInit
    <2>2. /\ out = [w \in Readers |-> [m \in Mmas |-> << >>]] /\ done = [m \in Mmas |-> Dead]
          /\ sched \in Schedules
      BY DEF Init
    <2>3. OpenTile = 1
      <3>1. pc[sched.leader] \in {"alloc", "syncAlloc"} /\ tile[sched.leader] = 1
        BY <2>2, Sizes DEF Init
      <3> QED
        BY <3>1 DEF OpenTile
    <2>4. {m \in Mmas : done[m].live /\ done[m].phase = 1} = {}
      BY <2>2 DEF Dead
    <2>5. {t \in Readers \X Mmas : out[t[1]][t[2]] = Product(OpenTile)} = {}
      BY <2>2, Products
    <2> QED
      BY <2>2, <2>3, <2>4, <2>5 DEF TileByTile!Init, TileByTile!Mmas, Mmas
  <1>2. IInv /\ Straight /\ [Next]_vars => [TileByTile!Next]_(TileByTile!vars)
    BY KernelRefines
  <1> QED
    BY <1>1, <1>2, KernelInvariance, PTL DEF Spec, ImplementsContraction, TileByTile!Spec
===============================================================================
