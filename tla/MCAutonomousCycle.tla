------------------------- MODULE MCAutonomousCycle -------------------------
(* A small instance of AutonomousCycle: three invocations, two of which     *)
(* were given the same run-id.                                              *)
EXTENDS AutonomousCycle

CONSTANTS p1, p2, p3, r1, r2

MCRunOf == [p \in Proc |-> IF p = p3 THEN r2 ELSE r1]
=============================================================================
