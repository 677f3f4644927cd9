--------------------------- MODULE DelegationGate ---------------------------
(***************************************************************************)
(* The delegations of apps/dashboard/server.mjs that open the gate in      *)
(* front of Monad deposits, and the agent file that keeps them across a    *)
(* restart.  A request changes the rows in memory, waits for mkdir, takes  *)
(* an image of the rows and waits for writeFile; it is answered then,      *)
(* whether or not the write succeeded.  Nothing orders the writes of two   *)
(* requests.  The gate itself reads the rows in memory.                    *)
(***************************************************************************)
EXTENDS Integers, Sequences

CONSTANTS
    Saver,          (* requests that save the agent state *)
    Delegation,     (* delegation ids, a fresh one for each submission *)
    InScope,        (* those whose intent has the scope of a deposit *)
    RowCap,         (* rows kept: 100 *)
    Torn,           (* a file that does not parse *)
    None,
    MaxGateCrashes  (* bound of the model on restarts *)

ASSUME DelegationAssumption ==
    /\ InScope \subseteq Delegation
    /\ RowCap \in Nat \ {0} /\ MaxGateCrashes \in Nat
    /\ None \notin Delegation

Row == [id : Delegation, active : BOOLEAN]

ASSUME TornIsNoRows == Torn \notin Seq(Row)

VARIABLES
    rows,     (* MONAD_AGENT_STATE.delegations, newest first *)
    file,     (* the rows in the agent file *)
    saving,   (* how far each request is *)
    submits,  (* the delegation a request submitted *)
    revokes,  (* the delegation a request revoked *)
    image,    (* the rows a request is writing *)
    stamp,    (* history: the order in which the images were taken *)
    landed,   (* history: the stamp of the image in the file *)
    clock,    (* history: the last stamp given *)
    expired,  (* delegations past their expiresAt *)
    issued,   (* history: ids given out *)
    marked,   (* history: delegations that some request revoked *)
    dropped,  (* history: delegations pushed out of the rows *)
    granted,  (* history: delegations whose submission was answered *)
    told,     (* history: delegations whose revocation was answered *)
    faulted,  (* history: a write failed, was cut off, or landed late *)
    gateCrashes

writing == <<saving, submits, revokes, image, stamp>>
gateHistory == <<landed, clock, issued, marked, dropped, granted, told, faulted>>
gateVars == <<rows, file, writing, expired, gateHistory, gateCrashes>>

GateTypeOK ==
    /\ rows \in Seq(Row) /\ file \in Seq(Row) \union {Torn}
    /\ saving \in [Saver -> {"new", "mkdir", "writing", "done", "lost"}]
    /\ submits \in [Saver -> Delegation \union {None}]
    /\ revokes \in [Saver -> Delegation \union {None}]
    /\ image \in [Saver -> Seq(Row)]
    /\ stamp \in [Saver -> Nat] /\ landed \in Nat /\ clock \in Nat
    /\ expired \subseteq Delegation /\ issued \subseteq Delegation
    /\ marked \subseteq Delegation /\ dropped \subseteq Delegation
    /\ granted \subseteq Delegation /\ told \subseteq Delegation
    /\ faulted \in BOOLEAN
    /\ gateCrashes \in 0..MaxGateCrashes

-----------------------------------------------------------------------------
(* The rows and the gate.                                                  *)

ActiveIn(d, rs) == \E i \in DOMAIN rs : rs[i].id = d /\ rs[i].active

(* evaluateMonadDelegationGate: the gate is open if some delegation passes. *)
Passes(d) == ActiveIn(d, rows) /\ d \notin expired /\ d \in InScope
GateOpen == \E d \in Delegation : Passes(d)

Submitted(d) ==
    LET all == <<[id |-> d, active |-> TRUE]>> \o rows
    IN  IF Len(all) > RowCap THEN SubSeq(all, 1, RowCap) ELSE all

Revoked(d) ==
    [i \in DOMAIN rows |->
        IF rows[i].id = d THEN [rows[i] EXCEPT !.active = FALSE] ELSE rows[i]]

Ids(rs) == {rs[i].id : i \in DOMAIN rs}

-----------------------------------------------------------------------------
(* The requests.                                                           *)

GateInit ==
    /\ rows = << >> /\ file = << >>
    /\ saving = [r \in Saver |-> "new"]
    /\ submits = [r \in Saver |-> None]
    /\ revokes = [r \in Saver |-> None]
    /\ image = [r \in Saver |-> << >>]
    /\ stamp = [r \in Saver |-> 0]
    /\ landed = 0 /\ clock = 0
    /\ expired = {} /\ issued = {} /\ marked = {} /\ dropped = {}
    /\ granted = {} /\ told = {}
    /\ faulted = FALSE
    /\ gateCrashes = 0

SavingIs(r, at) == saving' = [saving EXCEPT ![r] = at]

(* Mutants: the save is not awaited before the answer.                     *)
SubmitUnawaited(r, d) ==
    /\ saving[r] = "new"
    /\ d \notin issued
    /\ issued' = issued \union {d}
    /\ rows' = Submitted(d)
    /\ dropped' = dropped \union (Ids(rows) \ Ids(rows'))
    /\ granted' = granted \union {d}
    /\ SavingIs(r, "mkdir")
    /\ UNCHANGED <<file, submits, revokes, image, stamp, landed, clock, expired,
                   marked, told, faulted, gateCrashes>>
RevokeUnawaited(r, d) ==
    /\ saving[r] = "new"
    /\ d \in Ids(rows)
    /\ rows' = Revoked(d)
    /\ marked' = marked \union {d}
    /\ told' = told \union {d}
    /\ SavingIs(r, "mkdir")
    /\ UNCHANGED <<file, submits, revokes, image, stamp, landed, clock, expired,
                   issued, dropped, granted, faulted, gateCrashes>>

(* The intent is verified with the time the caller gives, so it may have   *)
(* expired; an intent that is refused changes nothing.                     *)
Submit(r, d) ==
    /\ saving[r] = "new"
    /\ d \notin issued
    /\ issued' = issued \union {d}
    /\ rows' = Submitted(d)
    /\ dropped' = dropped \union (Ids(rows) \ Ids(rows'))
    /\ submits' = [submits EXCEPT ![r] = d]
    /\ SavingIs(r, "mkdir")
    /\ UNCHANGED <<file, revokes, image, stamp, landed, clock, expired, marked,
                   granted, told, faulted, gateCrashes>>

(* An id that is not found is answered with 404 and changes nothing.       *)
Revoke(r, d) ==
    /\ saving[r] = "new"
    /\ d \in Ids(rows)
    /\ rows' = Revoked(d)
    /\ marked' = marked \union {d}
    /\ revokes' = [revokes EXCEPT ![r] = d]
    /\ SavingIs(r, "mkdir")
    /\ UNCHANGED <<file, submits, image, stamp, landed, clock, expired, issued,
                   dropped, granted, told, faulted, gateCrashes>>

(* A blocked deposit, a registered identity or name saves the file too.    *)
SaveOther(r) ==
    /\ saving[r] = "new"
    /\ SavingIs(r, "mkdir")
    /\ UNCHANGED <<rows, file, submits, revokes, image, stamp, expired, gateHistory,
                   gateCrashes>>

TakeImage(r) ==
    /\ saving[r] = "mkdir"
    /\ image' = [image EXCEPT ![r] = rows]
    /\ clock' = clock + 1
    /\ stamp' = [stamp EXCEPT ![r] = clock + 1]
    /\ SavingIs(r, "writing")
    /\ UNCHANGED <<rows, file, submits, revokes, landed, expired, issued, marked,
                   dropped, granted, told, faulted, gateCrashes>>

Answer(r) ==
    /\ SavingIs(r, "done")
    /\ granted' = granted \union ({submits[r]} \ {None})
    /\ told' = told \union ({revokes[r]} \ {None})

(* The image replaces the file, perhaps one that was taken later.          *)
Land(r) ==
    /\ saving[r] = "writing"
    /\ file' = image[r]
    /\ landed' = stamp[r]
    /\ faulted' = (faulted \/ stamp[r] < landed)
    /\ Answer(r)
    /\ UNCHANGED <<rows, submits, revokes, image, stamp, clock, expired, issued,
                   marked, dropped, gateCrashes>>

(* mkdir or writeFile fails, or two writes at once garble the file; the    *)
(* request is answered as if nothing had happened.                         *)
SaveFails(r) ==
    /\ saving[r] \in {"mkdir", "writing"}
    /\ file' \in {file} \union (IF saving[r] = "writing" THEN {Torn} ELSE {})
    /\ faulted' = TRUE
    /\ Answer(r)
    /\ UNCHANGED <<rows, submits, revokes, image, stamp, landed, clock, expired,
                   issued, marked, dropped, gateCrashes>>

-----------------------------------------------------------------------------
(* Restarts and time.                                                      *)

(* A write that was under way may leave the file cut off.                  *)
Interrupted ==
    IF \E r \in Saver : saving[r] = "writing" THEN {file, Torn} ELSE {file}

(* loadMonadAgentState: a file that does not parse is ignored.             *)
GateRestart ==
    /\ gateCrashes < MaxGateCrashes
    /\ gateCrashes' = gateCrashes + 1
    /\ file' \in Interrupted
    /\ rows' = IF file' = Torn THEN << >> ELSE file'
    /\ faulted' = (faulted \/ file' = Torn)
    /\ saving' = [r \in Saver |->
                   IF saving[r] \in {"mkdir", "writing"} THEN "lost" ELSE saving[r]]
    /\ UNCHANGED <<submits, revokes, image, stamp, landed, clock, expired, issued,
                   marked, dropped, granted, told>>

Expire(d) ==
    /\ d \notin expired
    /\ expired' = expired \union {d}
    /\ UNCHANGED <<rows, file, writing, gateHistory, gateCrashes>>

GateNext ==
    \/ \E r \in Saver :
          \/ \E d \in Delegation : Submit(r, d) \/ Revoke(r, d)
          \/ SaveOther(r) \/ TakeImage(r) \/ Land(r) \/ SaveFails(r)
    \/ \E d \in Delegation : Expire(d)
    \/ GateRestart

GateSpec == GateInit /\ [][GateNext]_gateVars

-----------------------------------------------------------------------------
(* Properties.                                                             *)

(* As long as no write failed, was cut off, or landed after a later one,   *)
(* a delegation whose revocation was answered opens the gate no more,      *)
(* through restarts and through writes of other requests that took their   *)
(* image before the revocation (the route delegation/revoke).              *)
RevocationHolds == ~faulted => \A d \in told : ~Passes(d)

(* Under the same condition a delegation whose submission was answered     *)
(* opens the gate until it expires, is revoked, or is pushed out by RowCap *)
(* newer ones (the route delegation/submit).                               *)
DelegationHolds ==
    ~faulted => \A d \in (granted \intersect InScope) \ (marked \union dropped \union expired) :
                    Passes(d)
=============================================================================
