------------------------- MODULE PolymarketWorkflow -------------------------
(***************************************************************************)
(* The trade of the Polymarket tool (chains/evm/tools/workflow.ts).  An    *)
(* intent that requotes cancels its stale orders before it places a new    *)
(* one; attempts are counted per run, read before the cancel and written   *)
(* after the order.  The limit on the attempts is that of each call's      *)
(* intent: here an intent stands for all that differ in requoteMaxAttempts *)
(* alone, and a call has one of Limits, or none (0).                       *)
(* The tool's cancel intent takes the same steps as a trade that does not  *)
(* requote, with fewer awaits between them, and has no actions of its own. *)
(***************************************************************************)
EXTENDS WorkflowSessions

CONSTANTS
    RequoteIntent,  (* the intents with requoteStaleOrders *)
    Limits,         (* the values of requoteMaxAttempts, where it is given *)
    PolymarketRun,  (* the runs of this tool: bound of the model *)
    MaxUnlimited,   (* bound of the model on the requotes without a limit *)
    MaxForgotten    (* bound of the model on the restarts that lose attempts *)

ASSUME RequoteAssumption ==
    /\ RequoteIntent \subseteq Intent
    /\ Limits \subseteq Nat \ {0}
    /\ PolymarketRun \subseteq Run
    /\ MaxUnlimited \in Nat /\ MaxForgotten \in Nat

VARIABLES
    attempts,   (* WORKFLOW_TRADE_REQUOTE_STATE_BY_RUN_ID *)
    overlapped, (* history: runs where a requote read the attempts of another *)
                (* before that one had written its own                        *)
    placed,     (* history: orders placed for each run by requotes with a     *)
                (* limit of at most n, restarts included, until they overlap  *)
    forgotten   (* history: restarts that lost the attempts of each run       *)

requoteVars == <<attempts, overlapped, placed, forgotten>>

PolymarketTypeOK ==
    /\ attempts \in [Run -> Nat]
    /\ placed \in [Run -> [Limits -> Nat]]
    /\ overlapped \in SUBSET Run
    /\ forgotten \in [Run -> Nat]

PolymarketInit ==
    /\ attempts = [r \in Run |-> 0]
    /\ placed = [r \in Run |-> [n \in Limits |-> 0]]
    /\ overlapped = {}
    /\ forgotten = [r \in Run |-> 0]

(* Analysis and simulate await the market and the order book first.        *)
PolymarketSimulate(c) ==
    /\ StartSimulation(c) /\ calls'[c].run \in PolymarketRun
    /\ UNCHANGED requoteVars

PolymarketSimulated(c) == EndSimulation(c) /\ UNCHANGED requoteVars

(* The session and the token are those of the call; they are looked at     *)
(* when the market and the order book are there.                           *)
PolymarketExecute(c) ==
    /\ calls[c] = None
    /\ \E run \in PolymarketRun, net \in Net, intent \in Intent, token \in BOOLEAN :
           LET allowed == \/ ~Guarded(net)
                          \/ token /\ Given(run, net, intent)
                          \/ ~token /\ SessionConfirmed(run, net, intent)
           IN Await(c, [Job(run, net, intent) EXCEPT !.phase = "preparing",
                                                     !.allowed = allowed])
    /\ UNCHANGED <<tool, sessions, announced, requoteVars>>

PolymarketRefuses(c) ==
    /\ In(c, "preparing") /\ ~calls[c].allowed
    /\ Show(calls[c].run, calls[c].net, calls[c].intent)
    /\ Await(c, None)
    /\ UNCHANGED <<tool, sessions, requoteVars>>

PolymarketPlaces(c) ==
    /\ In(c, "preparing") /\ calls[c].allowed
    /\ calls[c].intent \notin RequoteIntent
    /\ Await(c, [calls[c] EXCEPT !.phase = "sending"])
    /\ UNCHANGED <<tool, sessions, announced, requoteVars>>

Requoting(c, run) ==
    /\ In(c, "sending")
    /\ calls[c].run = run /\ calls[c].intent \in RequoteIntent

(* Mutant: an off-by-one in the comparison.                                *)
BlockedBeyondAttempts(run, limit) == limit # 0 /\ attempts[run] > limit

BlockedByAttempts(run, limit) == limit # 0 /\ attempts[run] >= limit

(* The market guards, the cooldown and the price drift may refuse as well  *)
(* (PolymarketFails).  The stale orders are cancelled before the new one   *)
(* is placed; nothing is read or written in between.                       *)
PolymarketCancels(c) ==
    LET run == calls[c].run IN
    /\ In(c, "preparing") /\ calls[c].allowed
    /\ calls[c].intent \in RequoteIntent
    /\ \E limit \in Limits \union {0} :
           /\ ~BlockedByAttempts(run, limit)
           /\ limit = 0 => attempts[run] < MaxUnlimited
           /\ Await(c, [calls[c] EXCEPT !.phase = "sending", !.used = attempts[run],
                                         !.limit = limit])
    /\ IF \E other \in Call : Requoting(other, run)
       THEN /\ overlapped' = overlapped \union {run}
            /\ placed' = [placed EXCEPT ![run] = [n \in Limits |-> 0]]
       ELSE UNCHANGED <<overlapped, placed>>
    /\ UNCHANGED <<tool, sessions, announced, attempts, forgotten>>

(* One more order by a requote with that limit.                            *)
Counted(counts, limit) ==
    [n \in Limits |-> IF limit # 0 /\ limit <= n THEN counts[n] + 1 ELSE counts[n]]

(* The order is placed, at once or by the fallback; then its status is     *)
(* asked for.                                                              *)
PolymarketPlaced(c) ==
    LET run == calls[c].run IN
    /\ In(c, "sending")
    /\ Await(c, [calls[c] EXCEPT !.phase = "reporting", !.used = 0, !.limit = 0])
    /\ IF calls[c].intent \in RequoteIntent
       THEN /\ attempts' = [attempts EXCEPT ![run] = calls[c].used + 1]
            /\ placed' = IF run \in overlapped THEN placed
                         ELSE [placed EXCEPT ![run] = Counted(@, calls[c].limit)]
       ELSE UNCHANGED <<attempts, placed>>
    /\ UNCHANGED <<tool, sessions, announced, overlapped, forgotten>>

PolymarketReported(c) ==
    LET job == calls[c] IN
    /\ In(c, "reporting")
    /\ Remember(job.run, job.net, job.intent, "nothing")
    /\ Await(c, None)
    /\ UNCHANGED <<tool, announced, requoteVars>>

(* An await or a guard throws, also between the cancel and the order: the  *)
(* stale orders are gone, and no attempt is counted.                       *)
PolymarketFails(c) ==
    /\ ~In(c, "reporting")
    /\ Throws(c)
    /\ UNCHANGED requoteVars

PolymarketNext ==
    \E c \in Call :
        \/ PolymarketSimulate(c) \/ PolymarketSimulated(c)
        \/ PolymarketExecute(c) \/ PolymarketRefuses(c) \/ PolymarketPlaces(c)
        \/ PolymarketCancels(c) \/ PolymarketPlaced(c)
        \/ PolymarketReported(c) \/ PolymarketFails(c)

(* The attempts are lost with the process; the orders were placed.         *)
PolymarketRestart ==
    /\ \A r \in Run : attempts[r] > 0 => forgotten[r] < MaxForgotten
    /\ attempts' = [r \in Run |-> 0]
    /\ forgotten' = [r \in Run |-> IF attempts[r] > 0 THEN forgotten[r] + 1
                                                        ELSE forgotten[r]]
    /\ UNCHANGED <<placed, overlapped>>
=============================================================================
