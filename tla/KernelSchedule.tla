---------------------------- MODULE KernelSchedule ----------------------------
(***************************************************************************)
(* A Schedule of the Kernel IR, what the Verifier and the Triton preflight *)
(* admit of it, and the kernel the Triton emitter writes for it            *)
(* (compiler/ir, compiler/verifier, compiler/backends/triton.py), in what  *)
(* decides which program touches which element of global memory.           *)
(*                                                                         *)
(* A schedule s is a record:                                               *)
(*   mode     the mode of the destination "dst": "state" or "output"       *)
(*   shape    [{"dst", "src"} -> its extents]; "src" is an input           *)
(*   valid    << >>, or <<d, g>>: dimension d of "dst" is valid up to the  *)
(*            length that a run-time buffer gives for the index in g       *)
(*   axes     the program axes by hardware number, each with the buffer    *)
(*            and dimension it partitions and its tile                     *)
(*   slots    0, or the resident CTAs of a persistent grid                 *)
(*   walk     the traversal of a persistent grid, << >> when omitted       *)
(*   loops    the tile loops: buffer, dimension, tile and body, a sequence *)
(*            of <<"op", o>> and <<"loop", l>>                             *)
(*   ops      the operations in declaration order: kind, global buffer,    *)
(*            its AccessMap `index` and depends_on `after`                 *)
(* Values, registers, dtypes and the other operations are left out.  At    *)
(* most two loops are declared.                                            *)
(***************************************************************************)
EXTENDS Integers, FiniteSets, Sequences, SequencesExt

Axes(s) == DOMAIN s.axes
Loops(s) == DOMAIN s.loops
Ops(s) == DOMAIN s.ops
Extent(s, owner) == s.shape[owner.buffer][owner.dim]
Persistent(s) == s.slots > 0

(* Mutant: the tail of an extent gets no tile. *)
TileCountFloor(tile, extent) == extent \div tile
TileCount(tile, extent) == (extent + tile - 1) \div tile

Tiles(s, a) == TileCount(s.axes[a].tile, Extent(s, s.axes[a]))
Trips(s, l) == TileCount(s.loops[l].tile, Extent(s, s.loops[l]))

-------------------------------------------------------------------------------
(* A Schedule with the extents, tiles and components that the parser       *)
(* accepts, of which all names and dimensions resolve; the bound on loops  *)
(* is the model's.                                                         *)
Buffers == {"dst", "src"}
Positive == Nat \ {0}

Component == [source : {"program", "program_tile", "loop_tile", "dimension"},
              of : Positive, offset : Nat, extent : Nat]
Ranged(x) == x.source = "dimension" \/ (x.offset = 0 /\ x.extent = 0)

WellFormed(s) ==
    /\ s.mode \in {"state", "output"}
    /\ s.shape \in [Buffers -> Seq(Positive)]
    /\ \/ s.valid = << >>
       \/ \E d, g \in DOMAIN s.shape["dst"] : d # g /\ s.valid = <<d, g>>
    /\ s.axes \in Seq([buffer : Buffers, dim : Positive, tile : Positive]) /\ s.axes # << >>
    /\ s.slots \in Nat /\ s.walk \in Seq(Positive)
    /\ s.loops \in Seq([buffer : Buffers, dim : Positive, tile : Positive,
                        body : Seq(({"op"} \X Ops(s)) \cup ({"loop"} \X Loops(s)))])
    /\ Len(s.loops) <= 2
    /\ \A a \in Axes(s) : s.axes[a].dim \in DOMAIN s.shape[s.axes[a].buffer]
    /\ \A l \in Loops(s) : s.loops[l].dim \in DOMAIN s.shape[s.loops[l].buffer]
    /\ s.ops \in Seq([kind : {"load", "store", "compute"}, buffer : Buffers,
                      index : Seq(Component), after : SUBSET Ops(s)])
    /\ \A o \in Ops(s) : \A p \in DOMAIN s.ops[o].index : Ranged(s.ops[o].index[p])

-------------------------------------------------------------------------------
(* Lexical scopes. *)

Mentions(s, entry) ==
    {m \in UNION {{l} \X DOMAIN s.loops[l].body : l \in Loops(s)} : s.loops[m[1]].body[m[2]] = entry}

Direct(s, o) == {m[1] : m \in Mentions(s, <<"op", o>>)}
Parents(s, l) == {m[1] : m \in Mentions(s, <<"loop", l>>)}

(* The loops around an operation, outermost first. *)
Chain(s, o) ==
    IF Cardinality(Direct(s, o)) # 1 THEN << >>
    ELSE LET l == CHOOSE d \in Direct(s, o) : TRUE
             up == Parents(s, l) \ {l}
         IN  IF up = {} THEN <<l>> ELSE <<CHOOSE p \in up : TRUE, l>>

Enclosing(s, o) == ToSet(Chain(s, o))

(* The operations of a loop and of the loop in its body, in body order. *)
Expanded(s, l) ==
    LET ops(body) == [i \in DOMAIN body |-> IF body[i][1] = "op" THEN <<body[i][2]>> ELSE << >>]
        entry(e) == IF e[1] = "op" THEN <<e[2]>>
                    ELSE IF e[2] = l THEN << >> ELSE FlattenSeq(ops(s.loops[e[2]].body))
        body == s.loops[l].body
    IN  FlattenSeq([i \in DOMAIN body |-> entry(body[i])])

-------------------------------------------------------------------------------
(* What the Verifier and the Triton preflight require. *)

ProgramMapSound(s) ==
    \/ s.walk = << >>
    \/ Persistent(s) /\ IsInjective(s.walk) /\ ToSet(s.walk) = Axes(s)

Ascending(q) == \A i, j \in DOMAIN q : i < j => q[i] < q[j]
Contiguous(q) == \A i \in 1 .. Len(q) - 1 : q[i + 1] = q[i] + 1

LoopNamesResolveOnce(s) ==
    /\ \A l \in Loops(s) : l \notin Parents(s, l)
    /\ \A l \in Loops(s) : Cardinality(Mentions(s, <<"loop", l>>)) <= 1
    /\ \A o \in Ops(s) : Cardinality(Mentions(s, <<"op", o>>)) <= 1
    /\ \A l, k \in Loops(s) : ~ (l \in Parents(s, k) /\ k \in Parents(s, l))

(* Mutant: only the direct operations of a body keep declaration order. *)
LoopNestSoundByBody(s) ==
    /\ \A l \in Loops(s) : Trips(s, l) >= 2
    /\ LoopNamesResolveOnce(s)
    /\ \A l \in Loops(s) : Ascending(Expanded(s, l))

LoopNestSound(s) ==
    /\ \A l \in Loops(s) : Trips(s, l) >= 2
    /\ LoopNamesResolveOnce(s)
    /\ \A l \in Loops(s) : Contiguous(Expanded(s, l))

Span(x, size) == IF x.extent = 0 THEN size - x.offset ELSE x.extent

(* One component of an AccessMap, at `position` of a buffer of this shape. *)
ComponentSound(s, o, shape, position) ==
    LET x == s.ops[o].index[position] IN
    CASE x.source = "dimension" ->
            LET size == shape[x.of] IN
            /\ x.of \in DOMAIN shape
            /\ x.offset < size /\ x.offset + Span(x, size) <= size
            /\ x.extent # size - x.offset
            /\ x.of # position => x.offset + Span(x, size) <= shape[position]
      [] x.source = "loop_tile" -> x.of \in Enclosing(s, o)
      [] x.source = "program_tile" -> x.of \in Axes(s) /\ s.axes[x.of].tile > 1
      [] x.source = "program" -> x.of \in Axes(s) /\ Tiles(s, x.of) <= shape[position]

AccessSound(s, o) ==
    LET shape == s.shape[s.ops[o].buffer] IN
    /\ Len(s.ops[o].index) = Len(shape)
    /\ \A p \in DOMAIN s.ops[o].index : ComponentSound(s, o, shape, p)

ByProgram(x) == x.source \in {"program", "program_tile"}
Uses(index, a) == {p \in DOMAIN index : ByProgram(index[p]) /\ index[p].of = a}

OutputStoreOwned(s, o) ==
    Persistent(s) \/ Direct(s, o) # {}
        \/ \A a \in Axes(s) : Tiles(s, a) > 1 => Uses(s.ops[o].index, a) # {}

(* Position p of the state store is the partition of its own dimension. *)
StateCoordinateOwned(s, o, p) ==
    LET x == s.ops[o].index[p] IN
    \/ /\ ByProgram(x)
       /\ s.axes[x.of].buffer = "dst" /\ s.axes[x.of].dim = p
       /\ (x.source = "program") = (s.axes[x.of].tile = 1)
    \/ x.source = "dimension" /\ x.of = p /\ x.offset = 0 /\ x.extent = 0

(* Mutant: an axis that the store leaves out is no finding. *)
StateStoreOwnedByCoordinates(s, o) ==
    /\ Direct(s, o) = {}
    /\ \A p \in DOMAIN s.ops[o].index : StateCoordinateOwned(s, o, p)
StateStoreOwned(s, o) ==
    /\ Direct(s, o) = {}
    /\ \A p \in DOMAIN s.ops[o].index : StateCoordinateOwned(s, o, p)
    /\ \A a \in Axes(s) : Cardinality(Uses(s.ops[o].index, a)) = 1

(* The preflight of a store in a loop. *)
LoopStoreOwned(s, o) ==
    LET index == s.ops[o].index IN
    Chain(s, o) # << >> =>
        /\ s.mode = "output"
        /\ \A l \in Enclosing(s, o) :
              Cardinality({p \in DOMAIN index : index[p].source = "loop_tile" /\ index[p].of = l}) = 1
        /\ \A a \in Axes(s) : Cardinality(Uses(index, a)) = 1

Accesses(s) == {o \in Ops(s) : s.ops[o].kind \in {"load", "store"}}
Stores(s) == {o \in Ops(s) : s.ops[o].kind = "store"}
Loads(s, b) == {o \in Ops(s) : s.ops[o].kind = "load" /\ s.ops[o].buffer = b}

StoreOwned(s, o) ==
    /\ IF s.mode = "state" THEN StateStoreOwned(s, o) ELSE OutputStoreOwned(s, o)
    /\ LoopStoreOwned(s, o)

(* One store, to "dst"; a state is also read; reads follow the writer,     *)
(* except those of a state.                                                *)
DataFlowSound(s) ==
    /\ Cardinality(Stores(s)) = 1
    /\ \A o \in Stores(s) : s.ops[o].buffer = "dst"
    /\ s.mode = "state" => Loads(s, "dst") # {}
    /\ s.mode = "output" => \A r \in Loads(s, "dst"), w \in Stores(s) : w < r

DependenciesInOrder(s) == \A o \in Ops(s) : \A d \in s.ops[o].after : d < o

PowerOfTwo(n) == \E k \in 0 .. 20 : n = 2 ^ k

Lowerable(s) ==
    /\ \A a \in Axes(s) : s.axes[a].tile > 1 => PowerOfTwo(s.axes[a].tile)
    /\ \A l \in Loops(s) : PowerOfTwo(s.loops[l].tile)
    /\ \A o \in Ops(s) : \A p \in DOMAIN s.ops[o].index :
          LET x == s.ops[o].index[p] IN
          x.source = "dimension" => PowerOfTwo(Span(x, s.shape[s.ops[o].buffer][x.of]))

Admitted(s) ==
    /\ ProgramMapSound(s) /\ LoopNestSound(s)
    /\ \A o \in Accesses(s) : AccessSound(s, o)
    /\ DataFlowSound(s) /\ DependenciesInOrder(s)
    /\ \A o \in Stores(s) : StoreOwned(s, o)
    /\ Lowerable(s)

-------------------------------------------------------------------------------
(* The emitted kernel.  An instance is one execution of an operation: the  *)
(* operation `op`, the program axes `pid` and `at`, the iterators of the   *)
(* loops around it, outermost first.                                       *)

(* for iterator in range(0, extent, tile) *)
Ticks(s, l) == [i \in 1 .. Trips(s, l) |-> (i - 1) * s.loops[l].tile]

(* The body of loop l at iterators `at`, the loop of its body unrolled. *)
BodyText(s, l, at) ==
    LET here(o, k) == <<[op |-> o, at |-> k]>>
        inner(c, k) ==
            LET b == s.loops[c].body IN
            FlattenSeq([i \in DOMAIN Ticks(s, c) |->
                FlattenSeq([e \in DOMAIN b |-> here(b[e][2], Append(k, Ticks(s, c)[i]))])])
        body == s.loops[l].body
    IN  FlattenSeq([e \in DOMAIN body |->
            IF body[e][1] = "op" THEN here(body[e][2], at) ELSE inner(body[e][2], at)])

LoopText(s, l) == FlattenSeq([i \in DOMAIN Ticks(s, l) |-> BodyText(s, l, <<Ticks(s, l)[i]>>)])

(* A root loop takes the place of the first of its operations. *)
BodyOfKernel(s) ==
    LET root(o) == Head(Chain(s, o))
        first(o) == \A e \in 1 .. o - 1 : Chain(s, e) = << >> \/ root(e) # root(o)
    IN  FlattenSeq([o \in Ops(s) |->
            IF Chain(s, o) = << >> THEN <<[op |-> o, at |-> << >>]>>
            ELSE IF first(o) THEN LoopText(s, root(o)) ELSE << >>])

-------------------------------------------------------------------------------
(* The launch and the persistent walk. *)

Order(s) == IF s.walk = << >> THEN [a \in Axes(s) |-> a] ELSE s.walk

(* The launch covers the grid of all axes. *)
Total(s) ==
    LET product[k \in 0 .. Len(Order(s))] ==
            IF k = 0 THEN 1 ELSE product[k - 1] * Tiles(s, Order(s)[k])
    IN  product[Len(Order(s))]

(* What is left of work item w for the axis at each place of the walk. *)
Remainder(s, w) ==
    LET rest[k \in 1 .. Len(Order(s))] ==
            IF k = 1 THEN w ELSE rest[k - 1] \div Tiles(s, Order(s)[k - 1])
    IN  rest

(* The axis values of work item w: the first axis walked varies fastest. *)
Decompose(s, w) ==
    [a \in Axes(s) |->
        LET k == CHOOSE i \in DOMAIN Order(s) : Order(s)[i] = a
        IN  IF k = Len(Order(s)) THEN Remainder(s, w)[k] ELSE Remainder(s, w)[k] % Tiles(s, a)]

CTAs(s) == IF Persistent(s) /\ s.slots < Total(s) THEN s.slots ELSE Total(s)
Programs(s) == 0 .. CTAs(s) - 1

(* range(program_id, TOTAL_TILES, NUM_CTAS); one item without persistence. *)
Work(s, c) == [i \in 1 .. TileCount(CTAs(s), Total(s) - c) |-> c + (i - 1) * CTAs(s)]

(* Programs of an empty output tile do nothing, when a valid prefix of the *)
(* rows, by groups of one program each, bounds the only global effect.     *)
HasOutputDomain(s, index) ==
    /\ s.valid # << >> /\ s.mode = "output" /\ ~ Persistent(s)
    /\ index[s.valid[1]].source = "program_tile"
    /\ index[s.valid[2]].source = "program" /\ s.axes[index[s.valid[2]].of].tile = 1

Skips(s, lengths, pid) ==
    \E o \in Stores(s) :
        LET index == s.ops[o].index IN
        /\ HasOutputDomain(s, index)
        /\ LET row == index[s.valid[1]].of IN
           pid[row] * s.axes[row].tile >= lengths[pid[index[s.valid[2]].of]]

(* Everything that program c executes, in order. *)
ProgramText(s, lengths, c) ==
    LET body == BodyOfKernel(s)
        item(w) == LET pid == Decompose(s, w) IN
            IF Skips(s, lengths, pid) THEN << >>
            ELSE [n \in DOMAIN body |-> [op |-> body[n].op, pid |-> pid, at |-> body[n].at]]
    IN  FlattenSeq([i \in DOMAIN Work(s, c) |-> item(Work(s, c)[i])])

-------------------------------------------------------------------------------
(* The elements an instance addresses. *)

Lanes(base, n) == base .. base + n - 1

Iterator(s, i, l) == i.at[CHOOSE n \in DOMAIN i.at : Chain(s, i.op)[n] = l]

Coordinates(s, i, x) ==
    CASE x.source = "program" -> {i.pid[x.of]}
      [] x.source = "program_tile" ->
            Lanes(i.pid[x.of] * s.axes[x.of].tile, s.axes[x.of].tile)
      [] x.source = "loop_tile" ->
            Lanes(Iterator(s, i, x.of), s.loops[x.of].tile)
      [] x.source = "dimension" ->
            Lanes(x.offset, Span(x, s.shape[s.ops[i.op].buffer][x.of]))

(* The first position of an AccessMap that names the coordinate at p.      *)
FirstNaming(index, p) ==
    CHOOSE q \in DOMAIN index : index[q] = index[p] /\ \A r \in 1 .. q - 1 : index[r] # index[p]

(* The mask of a tiled coordinate is the extent of the buffer at the first *)
(* position that names it, whichever position it masks.                    *)
(* Mutant: it is the extent of the axis or loop that is walked.            *)
BoundOfOwner(s, buffer, index, p) ==
    LET x == index[p] IN
    IF x.source = "program_tile" THEN Extent(s, s.axes[x.of]) ELSE Extent(s, s.loops[x.of])
Bound(s, buffer, index, p) == s.shape[buffer][FirstNaming(index, p)]

Tiled(x) == x.source \in {"program_tile", "loop_tile"}

Masked(s, lengths, buffer, index, a) ==
    /\ \A p \in DOMAIN index : Tiled(index[p]) => a[p] < Bound(s, buffer, index, p)
    /\ buffer = "dst" /\ s.valid # << >> => a[s.valid[1]] < lengths[a[s.valid[2]]]

(* A coordinate named at several positions is one vector on one axis of    *)
(* the tile: its lanes run along the diagonal.                             *)
Touched(s, lengths, i) ==
    LET index == s.ops[i.op].index
        lanes == [p \in DOMAIN index |-> Coordinates(s, i, index[p])]
    IN  {a \in [DOMAIN index -> UNION {lanes[p] : p \in DOMAIN index}] :
            /\ \A p \in DOMAIN index : a[p] \in lanes[p]
            /\ \A p, q \in DOMAIN index : index[p] = index[q] => a[p] = a[q]
            /\ Masked(s, lengths, s.ops[i.op].buffer, index, a)}

Elements(s, b) ==
    {a \in [DOMAIN s.shape[b] -> UNION {Lanes(0, s.shape[b][p]) : p \in DOMAIN s.shape[b]}] :
        \A p \in DOMAIN s.shape[b] : a[p] < s.shape[b][p]}
===============================================================================
