-------------------------- MODULE WorkflowSessions --------------------------
(***************************************************************************)
(* What the workflow tools of the chains share: a Map of sessions by run,  *)
(* filled by analysis, simulate and execute, and a token that is a digest  *)
(* of the run, the network and the intent, here a ticket.  Two tool calls  *)
(* of one process interleave wherever the tool awaits.                     *)
(*                                                                         *)
(* What a call leaves out is filled from the session of its run, or from   *)
(* the latest one, which is the last record put into the Map; a call may   *)
(* name the same run, network and intent itself.  So a call asks for any   *)
(* of them, and what it left out needs no case of its own.                 *)
(***************************************************************************)
EXTENDS Naturals

CONSTANTS
    Run,      (* run identifiers, named by the caller or created *)
    Intent,   (* normalised intents *)
    Call,     (* tool calls that may be in flight together: bound of the model *)
    None

Net == {"mainnet", "testnet"}
Tool == {"sui", "evm", "polymarket", "venus", "solana", "near", "kaspa"}
Holds == {"nothing", "token", "plan", "handed"}
Session == [net : Net, intent : Intent, holds : Holds]
Work == [phase : {"simulating", "preparing", "sending", "reporting"},
         run : Run, net : Net, intent : Intent, allowed : BOOLEAN,
         used : Nat, limit : Nat]
Ticket == [run : Run \union {None}, net : Net, intent : Intent]

ASSUME NoneAssumption ==
    /\ None \notin Session
    /\ None \notin Work
    /\ None \notin Ticket

VARIABLES
    tool,       (* whose workflow tool runs; their stores are separate *)
    sessions,   (* WORKFLOW_SESSION_BY_RUN_ID *)
    calls,      (* the calls that await, each with what it captured *)
    announced   (* tickets whose token was shown to the caller and holds *)

sessionVars == <<tool, sessions, calls, announced>>

StoreTypeOK ==
    /\ tool \in Tool
    /\ sessions \in [Run -> Session \union {None}]
    /\ calls \in [Call -> Work \union {None}]
    /\ announced \in SUBSET Ticket

StoreInit ==
    /\ sessions = [r \in Run |-> None]
    /\ calls = [c \in Call |-> None]
    /\ announced = {}

(* createConfirmToken; the token of the Kaspa tool names no run.           *)
TicketFor(run, net, intent) ==
    [run |-> IF tool = "kaspa" THEN None ELSE run, net |-> net, intent |-> intent]

(* Where a token is asked for.                                             *)
Guarded(net) == net = "mainnet" \/ tool = "kaspa"

Show(run, net, intent) ==
    announced' = IF Guarded(net) THEN announced \union {TicketFor(run, net, intent)}
                                 ELSE announced

Remember(run, net, intent, holds) ==
    sessions' = [sessions EXCEPT ![run] =
                    [net |-> net, intent |-> intent, holds |-> holds]]

Await(c, work) == calls' = [calls EXCEPT ![c] = work]

(* A call of that phase comes back with its captured values, not with what *)
(* the store says by then.                                                 *)
In(c, phase) == calls[c] # None /\ calls[c].phase = phase
Job(run, net, intent) ==
    [phase |-> "sending", run |-> run, net |-> net, intent |-> intent,
     allowed |-> TRUE, used |-> 0, limit |-> 0]

(* The caller passes the token of the ticket, which it has seen.           *)
Given(run, net, intent) == TicketFor(run, net, intent) \in announced

(* Mutant: the network of the session is not compared.                     *)
SessionConfirmedAnywhere(run, net, intent) ==
    sessions[run] # None /\ sessions[run].intent = intent

(* No token is given, and the session of the run is for this network and   *)
(* intent.                                                                 *)
SessionConfirmed(run, net, intent) ==
    /\ sessions[run] # None
    /\ sessions[run].net = net
    /\ sessions[run].intent = intent

-----------------------------------------------------------------------------
(* The steps that the tools have in common.                                *)

Analysis ==
    \E run \in Run, net \in Net, intent \in Intent :
        /\ Remember(run, net, intent, "nothing")
        /\ Show(run, net, intent)
        /\ UNCHANGED <<tool, calls>>

StartSimulation(c) ==
    /\ calls[c] = None
    /\ \E run \in Run, net \in Net, intent \in Intent :
           Await(c, [Job(run, net, intent) EXCEPT !.phase = "simulating"])
    /\ UNCHANGED <<tool, sessions, announced>>

EndSimulation(c) ==
    LET job == calls[c] IN
    /\ In(c, "simulating")
    /\ Remember(job.run, job.net, job.intent, "nothing")
    /\ Show(job.run, job.net, job.intent)
    /\ Await(c, None)
    /\ UNCHANGED tool

(* Mutant: the session is remembered before the await, so also on failure. *)
ThrowsRemembering(c) ==
    LET job == calls[c] IN
    /\ job # None
    /\ Remember(job.run, job.net, job.intent, "nothing")
    /\ Await(c, None)
    /\ UNCHANGED <<tool, announced>>

(* What is awaited throws: nothing is remembered.  A transaction may have  *)
(* been sent or not.                                                       *)
Throws(c) ==
    /\ calls[c] # None
    /\ Await(c, None)
    /\ UNCHANGED <<tool, sessions, announced>>

(* The guard passes, and the call awaits its transactions.                 *)
Send(c, run, net, intent) ==
    /\ calls[c] = None
    /\ Await(c, Job(run, net, intent))
    /\ UNCHANGED <<tool, sessions, announced>>

(* The refusal names the token it expected.                                *)
RefuseNaming(run, net, intent) ==
    /\ Guarded(net)
    /\ Show(run, net, intent)
    /\ UNCHANGED <<tool, sessions, calls>>

(* The transactions were sent; the session of the run is written again.    *)
Sent(c, holds) ==
    LET job == calls[c] IN
    /\ In(c, "sending")
    /\ Remember(job.run, job.net, job.intent, holds)
    /\ Await(c, None)
    /\ UNCHANGED <<tool, announced>>

(* The process restarts: the store and the calls are gone, what was shown  *)
(* is not.                                                                 *)
LoseStore ==
    /\ sessions' = [r \in Run |-> None]
    /\ calls' = [c \in Call |-> None]
    /\ UNCHANGED <<tool, announced>>
=============================================================================
