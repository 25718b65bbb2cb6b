---------------------------- MODULE MCPunchIntake ----------------------------
(***************************************************************************)
(* Model checking of PunchIntake, safety and liveness on one instance: two *)
(* employees, a capture with a key and one without, two requests at a time *)
(* that may carry either. Liveness rules symmetry out.                     *)
(***************************************************************************)
EXTENDS PunchIntake
=============================================================================
