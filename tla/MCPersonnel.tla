----------------------------- MODULE MCPersonnel ----------------------------
EXTENDS Personnel, TLC

CONSTANTS c1, c2, u1, u2

\* One file: a row with a unit, then one without that names the id and the status
\* of its employee.
OneFile ==
    {<<[code |-> c1, unit |-> u1, id |-> None, status |-> None],
       [code |-> c2, unit |-> None, id |-> Veteran, status |-> "TERMINATED"]>>}

\* Requests, and ids of rows to come, differ only in their names.
NameSymmetry == Permutations(Requests) \cup Permutations(Ids \ {Veteran})
=============================================================================
