-------------------------- MODULE MCShiftSchedule --------------------------
(***************************************************************************)
(* Model checking of ShiftSchedule: two shifts and a few assignments to    *)
(* begin with, and requests chosen so that names clash, times change one   *)
(* at a time, a range runs backwards, and a removed assignment is planned  *)
(* anew under a call that has found the old one.                           *)
(***************************************************************************)
EXTENDS ShiftSchedule, TLC

CONSTANTS s1, s2, e1, e2, day, late, night

MCExisting ==
    s1 :> [name |-> day, start |-> 6, end |-> 14, overnight |-> FALSE] @@
    s2 :> [name |-> late, start |-> 14, end |-> 22, overnight |-> FALSE]

MCPlanned == s1 :> {<<e1, 1>>} @@ s2 :> {<<e1, 2>>, <<e2, 1>>}

New(name, start, end, overnight) ==
    [op |-> "create",
     body |-> [name |-> name, start |-> start, end |-> end, overnight |-> overnight]]
Change(name, start, end, overnight) ==
    [op |-> "update", shift |-> s1,
     body |-> [name |-> name, start |-> start, end |-> end, overnight |-> overnight]]
Assign(s, from, to) ==
    [op |-> "assign", shift |-> s, staff |-> Employees, from |-> from, to |-> to]
Amend(s, status) ==
    [op |-> "amend", slot |-> <<e1, 1>>, shift |-> s, status |-> status]

ShiftInputs ==
    {New(night, 22, 6, None), Change(night, None, None, None),
     Change(None, 14, None, None), Change(None, None, 22, None)}

MCInputs ==
    ShiftInputs \cup
    {New(day, 6, 22, FALSE), Change(late, None, 6, TRUE),
     [op |-> "remove", shift |-> s1],
     Assign(s1, 1, 2), Assign(s2, 1, 1), Assign(s2, 2, 1),
     Amend(s1, None), Amend(None, "CANCELLED"),
     [op |-> "clear", slot |-> <<e1, 1>>]}

Symmetry == Permutations(Calls)
=============================================================================
