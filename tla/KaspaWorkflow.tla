--------------------------- MODULE KaspaWorkflow ---------------------------
(***************************************************************************)
(* The Kaspa workflow tool (chains/kaspa/tools/workflow.ts) and the submit *)
(* it calls (execute.ts).  The token is made when every preflight passed,  *)
(* names the network and the body, and expires; without one in the call    *)
(* the session's is used.  Tokens of one ticket are not told apart: they   *)
(* hold as long as the newest.                                             *)
(* The quick transfer tool of the same file is left out: it keeps no       *)
(* session, makes its token in the call that uses it, and so asks the      *)
(* caller for confirmMainnet and for nothing else.                         *)
(***************************************************************************)
EXTENDS WorkflowSessions

(* Analysis and simulate are the same.                                     *)
KaspaSimulate(c) == StartSimulation(c)

KaspaReady(c) ==
    LET job == calls[c] IN
    /\ In(c, "simulating")
    /\ Remember(job.run, job.net, job.intent, "token")
    /\ Show(job.run, job.net, job.intent)
    /\ Await(c, None)
    /\ UNCHANGED tool

(* A preflight failed: the session is written without a token.             *)
KaspaNotReady(c) ==
    LET job == calls[c] IN
    /\ In(c, "simulating")
    /\ Remember(job.run, job.net, job.intent, "nothing")
    /\ Await(c, None)
    /\ UNCHANGED <<tool, announced>>

(* The request is resolved, or composed again, while the call awaits.      *)
KaspaExecute(c) ==
    /\ calls[c] = None
    /\ \E run \in Run, net \in Net, intent \in Intent, token \in BOOLEAN :
           /\ token => Given(run, net, intent)
           /\ Await(c, [Job(run, net, intent) EXCEPT !.phase = "preparing",
                                                     !.allowed = token])
    /\ UNCHANGED <<tool, sessions, announced>>

(* Then the session is read again: it must be there, and the token of the  *)
(* call or else of the session must be of this network and body, and hold. *)
KaspaSubmits(c) ==
    LET job == calls[c]
        session == sessions[job.run]
    IN
    /\ In(c, "preparing")
    /\ session # None
    /\ ~job.allowed => session.holds = "token"
                       /\ SessionConfirmed(job.run, job.net, job.intent)
    /\ Given(job.run, job.net, job.intent)
    /\ Await(c, [job EXCEPT !.phase = "sending"])
    /\ UNCHANGED <<tool, sessions, announced>>

KaspaSent(c) == Sent(c, "token")

(* A refusal, or an await that throws.                                     *)
KaspaFails(c) == Throws(c)

(* KASPA_SUBMIT_CONFIRM_TTL_MS has passed.                                 *)
KaspaExpires ==
    \E ticket \in announced :
        /\ announced' = announced \ {ticket}
        /\ UNCHANGED <<tool, sessions, calls>>

KaspaNext ==
    \/ KaspaExpires
    \/ \E c \in Call : \/ KaspaSimulate(c) \/ KaspaReady(c) \/ KaspaNotReady(c)
                       \/ KaspaExecute(c) \/ KaspaSubmits(c) \/ KaspaSent(c)
                       \/ KaspaFails(c)
=============================================================================
