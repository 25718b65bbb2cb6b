---------------------------- MODULE MCAttendance ----------------------------
(***************************************************************************)
(* Model checking of Attendance. Employees and calls are interchangeable:  *)
(* no definition and no property names one of them, and every property is  *)
(* a safety property, so the symmetry is sound.                            *)
(***************************************************************************)
EXTENDS Attendance, TLC

Symmetry == Permutations(Employees) \cup Permutations(Calls)
=============================================================================
