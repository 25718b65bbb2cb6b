---------------------------- MODULE MCActiveShift ----------------------------
(***************************************************************************)
(* Model checking of ActiveShift with days of six units: a day shift, a    *)
(* night shift, a shift around the clock whose grace passes midnight, a    *)
(* late shift whose grace does, and a day shift marked overnight.          *)
(***************************************************************************)
EXTENDS ActiveShift

Shift(start, end, overnight) ==
    [start |-> start, end |-> end, gracePeriodMins |-> 1, isOvernight |-> overnight]

MCDays == 1 .. 2
MCInstants == 6 .. 17
MCOffsets == {-1, 1}
MCShifts == {Shift(2, 4, FALSE), Shift(4, 2, TRUE), Shift(5, 5, TRUE),
             Shift(3, 5, FALSE), Shift(1, 3, TRUE)}
=============================================================================
