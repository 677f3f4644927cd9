---------------------------- MODULE RunRegistry ----------------------------
(***************************************************************************)
(* What the dashboard's rebalance guard promises its callers, without the  *)
(* saga behind it: one rebalance at a time, and a run id that has ended is *)
(* not started again by the process that ended it, which forgets a run id  *)
(* only when it remembers as many as it can hold.                          *)
(* Rebalance.tla implements this specification.                            *)
(***************************************************************************)
EXTENDS Naturals, FiniteSets

CONSTANTS
    RunId,           (* the identifiers callers give to rebalance runs *)
    Memory           (* how many of those that ended a process remembers *)

VARIABLES
    active,          (* the run ids of the rebalances in flight *)
    ended,           (* the run ids this process remembers to have ended *)
    process          (* the number of restarts before this process *)

registryVars == <<active, ended, process>>

RegistryInit == active = {} /\ ended = {} /\ process = 0

Start(r) ==
    /\ active = {}
    /\ r \notin ended
    /\ active' = {r}
    /\ UNCHANGED <<ended, process>>

End(r) ==
    /\ active = {r}
    /\ active' = {}
    /\ r \in ended' /\ ended' \subseteq ended \union {r}
    /\ ended' # ended \union {r} => Cardinality(ended') = Memory
    /\ UNCHANGED process

(* The process restarts: the registry lives in memory only. *)
Forget ==
    /\ active' = {}
    /\ ended' = {}
    /\ process' = process + 1

RegistryNext ==
    \/ \E r \in RunId : Start(r) \/ End(r)
    \/ Forget

RegistrySpec == RegistryInit /\ [][RegistryNext]_registryVars
=============================================================================
