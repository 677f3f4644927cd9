----------------------------- MODULE Executors -----------------------------
(***************************************************************************)
(* The parts of apps/dashboard/server.mjs that send the money of the       *)
(* server's own accounts: deposits on Monad, the delegations that admit    *)
(* them, and swaps and supplies on BSC.  They share no state: each chain   *)
(* has its account and its settings, and the gate is looked at once, before *)
(* a deposit begins.  So a behaviour is of one of them.                    *)
(***************************************************************************)
EXTENDS MorphoDeposits, DelegationGate, BscExecution

VARIABLE executor  (* which part runs *)

vars == <<executor, morphoVars, gateVars, bscVars>>

TypeOK ==
    /\ executor \in {"morpho", "gate", "bsc"}
    /\ MorphoTypeOK /\ GateTypeOK /\ BscTypeOK

(* The settings of a part that does not run make no difference.            *)
Init ==
    /\ executor \in {"morpho", "gate", "bsc"}
    /\ MorphoInit /\ GateInit /\ BscInit
    /\ executor # "morpho" => setting = CHOOSE s \in Setting : TRUE
    /\ executor # "bsc" =>
           config = (CHOOSE s \in Config : TRUE) /\ routing = CHOOSE r \in Routing : TRUE

Morpho == executor = "morpho" /\ MorphoNext /\ UNCHANGED <<executor, gateVars, bscVars>>
Gate == executor = "gate" /\ GateNext /\ UNCHANGED <<executor, morphoVars, bscVars>>
Bsc == executor = "bsc" /\ BscNext /\ UNCHANGED <<executor, morphoVars, gateVars>>

Next == Morpho \/ Gate \/ Bsc

Spec == Init /\ [][Next]_vars
=============================================================================
