----------------------------- MODULE MCAcpQueue -----------------------------
(* A small instance of AcpQueue: two rows, or three of which two share a    *)
(* job id.                                                                  *)
EXTENDS AcpQueue

CONSTANTS j1, j2, j3, idA, idB

MCJobOf == [r \in Row |-> IF r = j3 THEN idB ELSE idA]
=============================================================================
