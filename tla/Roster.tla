------------------------------- MODULE Roster -------------------------------
(***************************************************************************)
(* What the schedule promises the rest of the system: one entry at most    *)
(* for an employee and a date, always of a shift and an employee that      *)
(* exist; a plan is entered as a whole; an entry goes by itself, with its  *)
(* shift or with its employee, and nothing else does.                      *)
(***************************************************************************)
CONSTANTS
    Slots,      \* pairs of an employee and a date
    ShiftIds,
    Statuses,
    None

VARIABLES
    staff,      \* the employees
    offered,    \* the shifts
    roster      \* roster[slot]: the shift and the status entered, or None

rosterVars == <<staff, offered, roster>>

Consistent ==
    \A k \in Slots : roster[k] # None => k[1] \in staff /\ roster[k].shift \in offered

RosterInit == Consistent

Plan(slots, s) ==
    /\ s \in offered
    /\ \A k \in slots : k[1] \in staff
    /\ roster' = [k \in Slots |-> IF k \in slots THEN [shift |-> s, status |-> "SCHEDULED"]
                                                 ELSE roster[k]]
    /\ UNCHANGED <<staff, offered>>

Amend(k, entry) ==
    /\ roster[k] # None
    /\ entry.shift \in offered
    /\ roster' = [roster EXCEPT ![k] = entry]
    /\ UNCHANGED <<staff, offered>>

Clear(k) ==
    /\ roster' = [roster EXCEPT ![k] = None]
    /\ UNCHANGED <<staff, offered>>

Offer(s) ==
    /\ offered' = offered \cup {s}
    /\ UNCHANGED <<staff, roster>>

Withdraw(s) ==
    /\ offered' = offered \ {s}
    /\ roster' = [k \in Slots |-> IF roster[k] # None /\ roster[k].shift = s
                                  THEN None ELSE roster[k]]
    /\ UNCHANGED staff

Leave(e) ==
    /\ staff' = staff \ {e}
    /\ roster' = [k \in Slots |-> IF k[1] = e THEN None ELSE roster[k]]
    /\ UNCHANGED offered

RosterNext ==
    \/ \E slots \in SUBSET Slots, s \in ShiftIds : Plan(slots, s)
    \/ \E k \in Slots :
          \/ Clear(k)
          \/ \E s \in ShiftIds, status \in Statuses :
                Amend(k, [shift |-> s, status |-> status])
    \/ \E s \in ShiftIds : Offer(s) \/ Withdraw(s)
    \/ \E e \in staff : Leave(e)

RosterSpec == RosterInit /\ [][RosterNext]_rosterVars
=============================================================================
