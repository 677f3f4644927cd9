----------------------- MODULE MCAutonomousStrategy -----------------------
(* A small instance of AutonomousStrategy: the two roles' accounts, and a   *)
(* contract that may be granted roles and call back.                        *)
EXTENDS AutonomousStrategy

CONSTANTS admin, emergency, router, idA, idB

MCInitialRisk == [maxAmountRaw |-> 1, cooldownSeconds |-> 2]
MCRiskConfig == {MCInitialRisk, [maxAmountRaw |-> 2, cooldownSeconds |-> 1]}
=============================================================================
