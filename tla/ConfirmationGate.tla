-------------------------- MODULE ConfirmationGate --------------------------
(***************************************************************************)
(* What the workflow tools promise about confirmation: nothing is sent     *)
(* to a guarded network unless a ticket for exactly that (a run, a network *)
(* and an intent; the Kaspa ticket is for any run) was shown before and    *)
(* has not expired.  Tickets outlive the process, submissions do not.      *)
(***************************************************************************)
CONSTANTS Call, Ticket, NoTicket

VARIABLES announced, submitting

gateVars == <<announced, submitting>>

Init ==
    /\ announced = {}
    /\ submitting = [c \in Call |-> NoTicket]

Announce(t) ==
    /\ announced' = announced \union {t}
    /\ UNCHANGED submitting

Expire(t) ==
    /\ announced' = announced \ {t}
    /\ UNCHANGED submitting

Submit(c, t) ==
    /\ submitting[c] = NoTicket
    /\ t \in announced
    /\ submitting' = [submitting EXCEPT ![c] = t]
    /\ UNCHANGED announced

Finish(c) ==
    /\ submitting' = [submitting EXCEPT ![c] = NoTicket]
    /\ UNCHANGED announced

Restart ==
    /\ submitting' = [c \in Call |-> NoTicket]
    /\ UNCHANGED announced

Next ==
    \/ Restart
    \/ \E t \in Ticket : Announce(t) \/ Expire(t)
    \/ \E c \in Call : Finish(c) \/ \E t \in Ticket : Submit(c, t)

Spec == Init /\ [][Next]_gateVars
=============================================================================
