---------------------------- MODULE MCKernelLaunch ----------------------------
(***************************************************************************)
(* Families of Schedules over a destination of 3 x 2 elements: state       *)
(* updates, direct outputs (dense and with a valid prefix), and outputs    *)
(* with loop nests.  Most of them the Verifier refuses.                    *)
(***************************************************************************)
EXTENDS KernelLaunch

P(a) == [source |-> "program", of |-> a, offset |-> 0, extent |-> 0]
T(a) == [source |-> "program_tile", of |-> a, offset |-> 0, extent |-> 0]
L(l) == [source |-> "loop_tile", of |-> l, offset |-> 0, extent |-> 0]
D(d) == [source |-> "dimension", of |-> d, offset |-> 0, extent |-> 0]
Slice(d, offset, extent) ==
    [source |-> "dimension", of |-> d, offset |-> offset, extent |-> extent]

Walks(buffer, dim, tile) == [buffer |-> buffer, dim |-> dim, tile |-> tile]
Loop(owner, body) == [buffer |-> owner.buffer, dim |-> owner.dim, tile |-> owner.tile, body |-> body]
Op(kind, buffer, index, after) == [kind |-> kind, buffer |-> buffer, index |-> index, after |-> after]
Schedule(mode, src, valid, axes, grid, loops, ops) ==
    [mode |-> mode, shape |-> ("dst" :> <<3, 2>> @@ "src" :> src), valid |-> valid, axes |-> axes,
     slots |-> grid[1], walk |-> grid[2], loops |-> loops, ops |-> ops]

Maps ==
    {<<Walks(b, 1, t)>> : b \in {"dst", "src"}, t \in {1, 2}}
        \cup {<<Walks("dst", 1, t), Walks(b, 2, 1)>> : b \in {"dst", "src"}, t \in {1, 2}}

Grids == {<<0, << >>>>, <<2, << >>>>, <<3, <<2, 1>>>>}

Copies(load, store) ==
    <<Op("load", load[1], load[2], {}), Op("store", "dst", store, {1})>>

StateUpdates ==
    {Schedule("state", <<3, 2>>, << >>, axes, grid, << >>, Copies(<<"dst", read>>, <<x, y>>)) :
        axes \in Maps, grid \in Grids,
        read \in {<<P(1), D(2)>>, <<T(1), P(2)>>, <<P(1), P(2)>>, <<T(1), D(2)>>, <<Slice(1, 0, 2), D(2)>>},
        x \in {P(1), T(1), Slice(1, 0, 1)}, y \in {D(2), P(2), P(1), Slice(2, 1, 0)}}

DirectOutputs ==
    {Schedule("output", <<rows, 2>>, valid, axes, grid, << >>, Copies(<<"src", <<x, y>>>>, <<x, z>>)) :
        rows \in {2, 3}, valid \in {<< >>, <<1, 2>>}, axes \in Maps, grid \in Grids,
        x \in {P(1), T(1)}, y \in {P(2), D(2), T(1)}, z \in {P(2), D(2)}}

(* One tile at both positions of a square source and of the destination,   *)
(* turned to 2 x 3 or as it is.                                            *)
Diagonals ==
    {[Schedule("output", <<2, 2>>, << >>, axes, grid, << >>,
               Copies(<<"src", <<T(1), T(1)>>>>, <<T(1), T(1)>>)) EXCEPT !.shape["dst"] = turned] :
        turned \in {<<2, 3>>, <<3, 2>>}, axes \in Maps, grid \in Grids}

O(o) == <<"op", o>>
N(l) == <<"loop", l>>

Nests ==
    {<< >>, <<<<O(1), O(2), O(3), O(4)>>>>, <<<<O(2), O(4)>>>>, <<<<O(4)>>>>, <<<<O(3), O(2), O(4)>>>>,
     <<<<O(1), O(2)>>, <<O(3), O(4)>>>>, <<<<N(2), O(4)>>, <<O(2), O(3)>>>>,
     <<<<O(2), N(2), O(4)>>, <<O(3)>>>>, <<<<N(2), O(2), O(4)>>, <<O(3)>>>>,
     <<<<O(3), O(4)>>, <<O(1), O(4)>>>>, <<<<N(2), O(4)>>, <<N(1), O(3)>>>>, <<<<O(4)>>, <<O(1), O(2)>>>>}

LoopedOutputs ==
    {Schedule("output", <<3, 2>>, << >>, axes, grid,
              [l \in DOMAIN nest |-> Loop(<<Walks("dst", 1, 2), Walks("src", 2, 1)>>[l], nest[l])],
              <<Op("load", "src", <<row, D(2)>>, {}), Op("compute", "src", << >>, {1}),
                Op("compute", "src", << >>, {2}), Op("store", "dst", <<L(1), y>>, {1, 3})>>) :
        axes \in {<<Walks("dst", 2, 1)>>, <<Walks("src", 1, 1)>>},
        grid \in {<<0, << >>>>, <<1, << >>>>}, nest \in Nests,
        row \in {L(1), Slice(1, 0, 2)}, y \in {P(1), D(2)}}

Families == StateUpdates \cup DirectOutputs \cup Diagonals \cup LoopedOutputs
===============================================================================
