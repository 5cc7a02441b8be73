--------------------------- MODULE MCNativePipeline ---------------------------
(***************************************************************************)
(* Kernels of up to three stages, five steps and two output tiles, with    *)
(* two loads of either movement and one or two MMAs on a stage.            *)
(***************************************************************************)
EXTENDS NativePipeline

CONSTANTS r1, r2

Shape(stages, trips, tiles, mmas) ==
    [stages |-> stages, trips |-> trips, tiles |-> tiles, mmas |-> mmas]

Shapes ==
    {Shape(1, 1, 1, 2), Shape(1, 3, 2, 1), Shape(2, 2, 2, 2), Shape(2, 3, 2, 1),
     Shape(2, 5, 2, 1), Shape(3, 2, 2, 1), Shape(3, 4, 1, 2)}

Built(shapes, leaders, owners, readoutFirst) ==
    {[stages |-> s.stages, trips |-> s.trips, tiles |-> s.tiles, mmas |-> s.mmas,
      movements |-> movements, leader |-> leader, owner |-> owner,
      readoutFirst |-> readoutFirst] :
        s \in shapes, movements \in {<<"tma", "tma">>, <<"tma", "global">>},
        leader \in leaders, owner \in owners}

\* The readout follows the contraction; thread 0 and the allocating role vary.
ReadoutLast == Built(Shapes, {r1, Copy, Issue}, {r1, Copy, Issue}, FALSE)

\* The readout is declared before the contraction.
ReadoutFirst == Built({Shape(2, 2, 2, 1)}, {r1}, {r1}, TRUE)
===============================================================================
