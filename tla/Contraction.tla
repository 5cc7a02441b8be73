------------------------------ MODULE Contraction ------------------------------
(***************************************************************************)
(* What the native CUDA kernel promises for one CTA: output tiles one      *)
(* after the other; the accumulator of an MMA is published once per tile,  *)
(* every readout warp takes the complete product of that tile from it, and *)
(* the next tile begins only when all of them have.                        *)
(***************************************************************************)
EXTENDS Naturals, Sequences

CONSTANT Readers    \* the warps of the readout role

VARIABLES
    sched,      \* the admitted Schedule the kernel was emitted from
    tile,       \* the output tile in work, Tiles + 1 when all are read
    published,  \* the MMAs whose accumulator of this tile is final
    taken,      \* the <<warp, MMA>> pairs read in this tile
    out         \* what each warp last read from each accumulator

vars == <<sched, tile, published, taken, out>>

Mmas == 1..sched.mmas

\* All contributions of one tile: every K step once, in order, from operands of that step.
Product(t) == [i \in 1..sched.trips |-> {<<t, i - 1>>}]

Publish(m) ==
    /\ tile \leq sched.tiles
    /\ m \notin published
    /\ published' = published \union {m}
    /\ UNCHANGED <<sched, tile, taken, out>>

Take(w, m) ==
    /\ m \in published
    /\ <<w, m>> \notin taken
    /\ taken' = taken \union {<<w, m>>}
    /\ out' = [out EXCEPT ![w][m] = Product(tile)]
    /\ UNCHANGED <<sched, tile, published>>

NextTile ==
    /\ tile \leq sched.tiles
    /\ taken = Readers \X Mmas
    /\ tile' = tile + 1
    /\ published' = {}
    /\ taken' = {}
    /\ UNCHANGED <<sched, out>>

Init ==
    /\ tile = 1
    /\ published = {}
    /\ taken = {}
    /\ out = [w \in Readers |-> [m \in Mmas |-> << >>]]

Next ==
    \/ \E m \in Mmas : Publish(m)
    \/ \E w \in Readers, m \in Mmas : Take(w, m)
    \/ NextTile

Spec == Init /\ [][Next]_vars
===============================================================================
