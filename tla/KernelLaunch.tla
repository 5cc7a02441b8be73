----------------------------- MODULE KernelLaunch -----------------------------
(***************************************************************************)
(* One authored Schedule, its verdict, and one launch of the kernel that   *)
(* the Triton emitter writes for it: programs (CTAs) run concurrently and  *)
(* unordered, each through its own instances; a load or a store moves its  *)
(* whole tile in one step.                                                 *)
(***************************************************************************)
EXTENDS KernelSchedule

CONSTANT Schedules     \* the Schedules that may be authored

ASSUME ScheduleAssumption == \A s \in Schedules : WellFormed(s)

VARIABLES
    sched,     \* the authored Schedule
    verdict,   \* "authored", "refused" or "launched"
    lengths,   \* the valid lengths the caller passes, << >> without them
    text,      \* [program -> its instances]
    pc,        \* [program -> how many of them it has executed]
    written,   \* [element of "dst" -> how many stores wrote it]
    late       \* the state loads that met an element already updated

vars == <<sched, verdict, lengths, text, pc, written, late>>

Init ==
    /\ sched \in Schedules
    /\ verdict = "authored"
    /\ lengths = << >> /\ text = << >> /\ pc = << >> /\ written = << >>
    /\ late = {}

Refuse ==
    /\ verdict = "authored" /\ ~ Admitted(sched)
    /\ verdict' = "refused"
    /\ UNCHANGED <<sched, lengths, text, pc, written, late>>

Lengths ==
    IF sched.valid = << >> THEN {<< >>}
    ELSE [Lanes(0, sched.shape["dst"][sched.valid[2]]) -> 0 .. sched.shape["dst"][sched.valid[1]]]

Launch ==
    /\ verdict = "authored" /\ Admitted(sched)
    /\ verdict' = "launched"
    /\ \E n \in Lengths :
          /\ lengths' = n
          /\ text' = [c \in Programs(sched) |-> ProgramText(sched, n, c)]
    /\ pc' = [c \in Programs(sched) |-> 0]
    /\ written' = [a \in Elements(sched, "dst") |-> 0]
    /\ UNCHANGED <<sched, late>>

Running(c) == verdict = "launched" /\ pc[c] < Len(text[c])
Ahead(c) == text[c][pc[c] + 1]
Advance(c) == pc' = [pc EXCEPT ![c] = @ + 1]

Load(c) ==
    /\ Running(c) /\ sched.ops[Ahead(c).op].kind = "load"
    /\ late' = IF /\ sched.ops[Ahead(c).op].buffer = "dst"
                  /\ \E a \in Touched(sched, lengths, Ahead(c)) \cap DOMAIN written : written[a] > 0
               THEN late \cup {Ahead(c)} ELSE late
    /\ Advance(c)
    /\ UNCHANGED <<sched, verdict, lengths, text, written>>

Compute(c) ==
    /\ Running(c) /\ sched.ops[Ahead(c).op].kind = "compute"
    /\ Advance(c)
    /\ UNCHANGED <<sched, verdict, lengths, text, written, late>>

Store(c) ==
    /\ Running(c) /\ sched.ops[Ahead(c).op].kind = "store"
    /\ LET region == Touched(sched, lengths, Ahead(c)) IN
       written' = [a \in DOMAIN written |-> written[a] + IF a \in region THEN 1 ELSE 0]
    /\ Advance(c)
    /\ UNCHANGED <<sched, verdict, lengths, text, late>>

Next ==
    \/ Refuse
    \/ Launch
    \/ \E c \in DOMAIN pc : Load(c) \/ Compute(c) \/ Store(c)

Spec == Init /\ [][Next]_vars

-------------------------------------------------------------------------------
Finished == verdict = "launched" /\ \A c \in DOMAIN pc : pc[c] = Len(text[c])

(* The stores whose ownership somebody checks: the output rule leaves out  *)
(* persistent walks (program_safety.py:58-62).                             *)
Judged(s) == s.mode = "state" \/ ~ Persistent(s) \/ \A o \in Stores(s) : Chain(s, o) # << >>

BeforeUpdate(s, r) == \A w \in Stores(s) : r < w

(* No tiled coordinate is masked by more than the extent it indexes.  One  *)
(* named at two positions, of which the first is the longer, is: its lanes *)
(* past the later extent are addresses of other elements.                  *)
MaskSuffices(s, o) ==
    LET index == s.ops[o].index
        shape == s.shape[s.ops[o].buffer]
    IN  \A p \in DOMAIN index : Tiled(index[p]) => shape[FirstNaming(index, p)] <= shape[p]

OneWriter ==
    Judged(sched) /\ (\A o \in Stores(sched) : MaskSuffices(sched, o))
        => \A a \in DOMAIN written : written[a] <= 1

OwnRegionReadsInitial ==
    \A i \in late : BeforeUpdate(sched, i.op) =>
        \A w \in Stores(sched) : sched.ops[w].index # sched.ops[i.op].index

(* Programs and iterations own the regions they store to: of a state       *)
(* (docs/adr/0069, "gives every launched program a disjoint destination    *)
(* region"), of an output stored directly, and of one stored in a loop.    *)
(* No element is written twice, and a load of the state that precedes the  *)
(* update and addresses what it addresses reads what was there before the  *)
(* launch, whatever the other programs do meanwhile.  Not claimed of an    *)
(* output whose mask does not suffice, of which two programs may collide.  *)
RegionsAreOwned == OneWriter /\ OwnRegionReadsInitial

(* A store that partitions its destination by the destination's own axes,  *)
(* loops and full dimensions.                                              *)
Partitions(s, o) ==
    \A p \in DOMAIN s.ops[o].index :
        LET x == s.ops[o].index[p]
            own(owner) == owner.buffer = "dst" /\ owner.dim = p
        IN  CASE x.source = "dimension" -> x.of = p /\ x.offset = 0 /\ x.extent = 0
              [] x.source = "loop_tile" -> own(s.loops[x.of])
              [] OTHER -> own(s.axes[x.of]) /\ (x.source = "program" => s.axes[x.of].tile = 1)

Valid(a) == sched.valid = << >> \/ a[sched.valid[1]] < lengths[a[sched.valid[2]]]

(* When every program has ended, a state (ADR 0069: "a one-to-one          *)
(* partition ... to state coordinates") and an output so partitioned are   *)
(* whole: tails, persistent walks and skipped empty tiles lose no element. *)
WrittenWhole ==
    Finished /\ (\A o \in Stores(sched) : Partitions(sched, o))
        => \A a \in DOMAIN written : Valid(a) <=> written[a] > 0

(* No access leaves the declared shape of the buffer it addresses, whoever *)
(* owns the axis or the loop it walks ("made a shorter Buffer readable     *)
(* past its declaration", triton.py:1050-1058), unless it names one tile   *)
(* at two positions of which the first is the longer: nothing refuses that *)
(* (data_consistency.py:1704-1838), and its last lanes lie outside.        *)
InBounds ==
    \A c \in DOMAIN pc :
        Running(c) /\ sched.ops[Ahead(c).op].kind # "compute" /\ MaskSuffices(sched, Ahead(c).op)
            => Touched(sched, lengths, Ahead(c)) \subseteq Elements(sched, sched.ops[Ahead(c).op].buffer)

(* An operation runs after what it depends on, in the same work item and   *)
(* the same iteration of every loop they share: moving a loop to the place *)
(* of its first operation reorders nothing.                                *)
DependenciesMet ==
    \A c \in DOMAIN pc : Running(c) => \A d \in sched.ops[Ahead(c).op].after :
        \E n \in 1 .. pc[c] :
            /\ text[c][n].op = d /\ text[c][n].pid = Ahead(c).pid
            /\ \A l \in Enclosing(sched, d) \cap Enclosing(sched, Ahead(c).op) :
                  Iterator(sched, text[c][n], l) = Iterator(sched, Ahead(c), l)

(* program_safety.py:388-390: "A same-role load may read that initial      *)
(* value before the one admitted ordinary update": every such load does.   *)
StateReadsInitial == \A i \in late : ~ BeforeUpdate(sched, i.op)
===============================================================================
