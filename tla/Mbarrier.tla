------------------------------- MODULE Mbarrier -------------------------------
(***************************************************************************)
(* The mbarrier object the emitted kernel synchronises with, as the        *)
(* wrappers of native_cuda.py drive it: an object counts the arrivals of   *)
(* its current phase and the bulk copies that phase still expects, and a   *)
(* waiter sees only the parity of the phase.                               *)
(***************************************************************************)
EXTENDS Naturals

\* The memory of an object that was never initialised, or was invalidated.
Dead == [live |-> FALSE, count |-> 0, pending |-> 0, tx |-> 0, phase |-> 0]

\* cake_init: a live object in its first phase.
Initialised(count) ==
    [live |-> TRUE, count |-> count, pending |-> count, tx |-> 0, phase |-> 0]

\* The phase completes once all arrivals came and no expected copy is outstanding.
Settle(b) ==
    IF b.pending = 0 /\ b.tx = 0
        THEN [b EXCEPT !.pending = b.count, !.phase = 1 - b.phase]
        ELSE b

\* cake_arrive, and the arrival a commit makes.
Arrived(b) == Settle([b EXCEPT !.pending = @ - 1])

\* cake_expect: one arrival that announces a bulk copy.
Expecting(b) == Settle([b EXCEPT !.pending = @ - 1, !.tx = @ + 1])

\* The completion of a bulk copy.
Delivered(b) == Settle([b EXCEPT !.tx = @ - 1])

\* cake_wait returns once the phase of that parity is over; on dead memory it may
\* return as well, whatever the memory holds.
Passed(b, parity) == ~b.live \/ b.phase # parity

\* Arrivals never outnumber what the current phase still expects.
WithinCount(b) == b.live => b.pending \in 0..b.count /\ (b.pending = 0 => b.tx > 0)
===============================================================================
