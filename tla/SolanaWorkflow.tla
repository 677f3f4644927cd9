--------------------------- MODULE SolanaWorkflow ---------------------------
(***************************************************************************)
(* The Solana workflow tool (chains/solana/tools/workflow.ts), without its *)
(* read-only intents.  An execute prepares and simulates once more, then   *)
(* asks for the token, and sends only what the simulation passed.  It      *)
(* leaves the session as it was.                                           *)
(***************************************************************************)
EXTENDS WorkflowSessions

SolanaAnalysis == Analysis
SolanaSimulate(c) == StartSimulation(c)

(* A failed simulation is remembered too.                                  *)
SolanaSimulated(c) == EndSimulation(c)

SolanaExecute(c) ==
    /\ calls[c] = None
    /\ \E run \in Run, net \in Net, intent \in Intent, token \in BOOLEAN :
           LET allowed == Guarded(net) => token /\ Given(run, net, intent) IN
           Await(c, [Job(run, net, intent) EXCEPT !.phase = "preparing",
                                                  !.allowed = allowed])
    /\ UNCHANGED <<tool, sessions, announced>>

SolanaSends(c) ==
    /\ In(c, "preparing") /\ calls[c].allowed
    /\ Await(c, [calls[c] EXCEPT !.phase = "sending"])
    /\ UNCHANGED <<tool, sessions, announced>>

SolanaRefuses(c) ==
    /\ In(c, "preparing") /\ ~calls[c].allowed
    /\ Show(calls[c].run, calls[c].net, calls[c].intent)
    /\ Await(c, None)
    /\ UNCHANGED <<tool, sessions>>

(* The transaction is out, or the simulation or the send failed.           *)
SolanaEnds(c) == Throws(c)

SolanaNext ==
    \/ SolanaAnalysis
    \/ \E c \in Call : \/ SolanaSimulate(c) \/ SolanaSimulated(c)
                       \/ SolanaExecute(c) \/ SolanaSends(c)
                       \/ SolanaRefuses(c) \/ SolanaEnds(c)
=============================================================================
