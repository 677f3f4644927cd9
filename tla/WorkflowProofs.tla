--------------------------- MODULE WorkflowProofs ---------------------------
(***************************************************************************)
(* Proofs about Workflow: the sessions and the calls hold only what the    *)
(* caller was shown, so every tool implements ConfirmationGate.            *)
(***************************************************************************)
EXTENDS Workflow, TLAPS

-----------------------------------------------------------------------------
(* The invariant.  What a call does after its guard is shown, and so is    *)
(* what a session holds that an execute may rely on.                       *)

SessionShown(run) ==
    LET session == sessions[run] IN
    /\ session # None
    /\ tool # "kaspa"
    /\ \/ session.net = "mainnet" /\ tool # "near"
       \/ session.holds = "plan"
    => Given(run, session.net, session.intent)

CallShown(c) ==
    LET job == calls[c] IN
    /\ job # None
    /\ tool # "kaspa"
    /\ Guarded(job.net)
    /\ \/ job.phase \in {"sending", "reporting"}
       \/ job.phase = "preparing" /\ job.allowed
    => Given(job.run, job.net, job.intent)

Shown == (\A run \in Run : SessionShown(run)) /\ (\A c \in Call : CallShown(c))

(* No plan appears.                                                        *)
NoNewPlan ==
    \A run \in Run : sessions'[run] # None /\ sessions'[run].holds = "plan" =>
                         sessions'[run] = sessions[run]

GateStep == [Gate!Next]_<<announced, submitting>>

(* What each step of a tool is shown to do.                                *)
StoreKept == StoreTypeOK' /\ Shown' /\ GateStep /\ tool' = tool

(* The ticket under which a call submits.                                  *)
TicketOf(work) ==
    IF work # None /\ work.phase = "sending" /\ Guarded(work.net)
    THEN TicketFor(work.run, work.net, work.intent) ELSE None

LEMMA SubmittingIs == submitting = [c \in Call |-> TicketOf(calls[c])]
BY DEF submitting, Submitting, TicketOf, In

LEMMA TicketForType ==
    ASSUME NEW run \in Run, NEW net \in Net, NEW intent \in Intent
    PROVE  TicketFor(run, net, intent) \in Ticket
BY DEF TicketFor, Ticket

(* Sessions and calls that change are shown, and tokens hold, save those   *)
(* of Kaspa.                                                               *)
LEMMA ShownKept ==
    ASSUME Shown, tool' = tool, tool = "kaspa" \/ announced \subseteq announced',
           \A run \in Run : sessions'[run] = sessions[run] \/ SessionShown(run)',
           \A c \in Call : calls'[c] = calls[c] \/ CallShown(c)'
    PROVE  Shown'
<1>1. ASSUME NEW run \in Run PROVE SessionShown(run)'
  <2>1. CASE sessions'[run] = sessions[run]
    BY <2>1 DEF Shown, SessionShown, Given, TicketFor
  <2>2. QED
    BY <2>1
<1>2. ASSUME NEW c \in Call PROVE CallShown(c)'
  <2>1. CASE calls'[c] = calls[c]
    BY <2>1 DEF Shown, CallShown, Given, TicketFor, Guarded
  <2>2. QED
    BY <2>1
<1>3. QED
  BY <1>1, <1>2 DEF Shown

(* One call changes: the gate sees what its ticket becomes.                *)
LEMMA SubmittingNext ==
    ASSUME StoreTypeOK, NEW c \in Call, NEW work, Await(c, work), tool' = tool
    PROVE  submitting' = [submitting EXCEPT ![c] = TicketOf(work)]
<1>1. submitting' = [d \in Call |-> TicketOf(calls'[d])]
  BY DEF submitting, Submitting, TicketOf, TicketFor, Guarded, In
<1>2. calls' = [calls EXCEPT ![c] = work] /\ calls \in [Call -> Work \union {None}]
  BY DEF Await, StoreTypeOK
<1>3. QED
  BY <1>1, <1>2, SubmittingIs

(* A call that does not submit, neither before nor after, leaves the gate  *)
(* to what is shown.                                                       *)
LEMMA GateShow ==
    ASSUME StoreTypeOK, NEW c \in Call, NEW work, Await(c, work), tool' = tool,
           TicketOf(calls[c]) = None, TicketOf(work) = None,
           NEW run \in Run, NEW net \in Net, NEW intent \in Intent,
           \/ Show(run, net, intent)
           \/ announced' = announced \union {TicketFor(run, net, intent)}
           \/ announced' = announced
    PROVE  GateStep
<1>1. submitting' = submitting
  BY SubmittingNext, SubmittingIs
<1>2. TicketFor(run, net, intent) \in Ticket
  BY TicketForType
<1>3. \/ announced' = announced
      \/ announced' = announced \union {TicketFor(run, net, intent)}
  BY DEF Show
<1>4. QED
  BY <1>1, <1>2, <1>3 DEF GateStep, Gate!Next, Gate!Announce

(* A call ends, or no longer submits.                                      *)
LEMMA GateFinish ==
    ASSUME StoreTypeOK, NEW c \in Call, NEW work, Await(c, work), tool' = tool,
           TicketOf(work) = None, announced' = announced
    PROVE  GateStep
<1>1. submitting' = [submitting EXCEPT ![c] = None]
  BY SubmittingNext
<1>2. QED
  BY <1>1 DEF GateStep, Gate!Next, Gate!Finish

(* A call begins to submit what it was shown.                              *)
LEMMA GateSubmit ==
    ASSUME StoreTypeOK, NEW c \in Call, NEW work \in Work, Await(c, work), tool' = tool,
           TicketOf(calls[c]) = None, announced' = announced,
           Guarded(work.net) => Given(work.run, work.net, work.intent)
    PROVE  GateStep
<1>1. submitting' = [submitting EXCEPT ![c] = TicketOf(work)]
  BY SubmittingNext
<1>2. submitting[c] = None
  BY SubmittingIs
<1>3. CASE TicketOf(work) = None
  BY <1>1, <1>2, <1>3, GateFinish
<1>4. CASE TicketOf(work) # None
  <2>1. TicketOf(work) \in announced
    BY <1>4 DEF TicketOf, Given
  <2>2. TicketOf(work) \in Ticket
    BY <2>1 DEF StoreTypeOK
  <2>3. QED
    BY <1>1, <1>2, <2>1, <2>2 DEF GateStep, Gate!Next, Gate!Submit
<1>5. QED
  BY <1>3, <1>4

-----------------------------------------------------------------------------
(* The types, and the steps that the tools have in common.                 *)

LEMMA JobType ==
    ASSUME NEW run \in Run, NEW net \in Net, NEW intent \in Intent
    PROVE  /\ Job(run, net, intent) \in Work
           /\ [Job(run, net, intent) EXCEPT !.phase = "simulating"] \in Work
           /\ \A allowed \in BOOLEAN :
                  [Job(run, net, intent) EXCEPT !.phase = "preparing",
                                                !.allowed = allowed] \in Work
BY DEF Job, Work

LEMMA AwaitType ==
    ASSUME StoreTypeOK, NEW c \in Call, NEW work \in Work \union {None}, Await(c, work)
    PROVE  /\ calls' \in [Call -> Work \union {None}]
           /\ calls'[c] = work
           /\ \A d \in Call : d # c => calls'[d] = calls[d]
BY DEF StoreTypeOK, Await

LEMMA RememberType ==
    ASSUME StoreTypeOK, NEW run \in Run, NEW net \in Net, NEW intent \in Intent,
           NEW holds \in Holds,
           Remember(run, net, intent, holds)
    PROVE  /\ sessions' \in [Run -> Session \union {None}]
           /\ sessions'[run] = [net |-> net, intent |-> intent, holds |-> holds]
           /\ \A other \in Run : other # run => sessions'[other] = sessions[other]
BY DEF StoreTypeOK, Remember, Session

LEMMA ShowGrows ==
    ASSUME StoreTypeOK, NEW run \in Run, NEW net \in Net, NEW intent \in Intent,
           Show(run, net, intent), tool' = tool
    PROVE  /\ announced' \in SUBSET Ticket
           /\ announced \subseteq announced'
           /\ Guarded(net) => Given(run, net, intent)'
<1>1. TicketFor(run, net, intent) \in Ticket
  BY TicketForType
<1>2. QED
  BY <1>1 DEF StoreTypeOK, Show, Given, TicketFor, Guarded

(* A call in some phase.                                                   *)
LEMMA JobOf ==
    ASSUME StoreTypeOK, NEW c \in Call, NEW phase, In(c, phase)
    PROVE  /\ calls[c] \in Work /\ calls[c] # None /\ calls[c].phase = phase
           /\ \E run \in Run, net \in Net, intent \in Intent :
                  calls[c].run = run /\ calls[c].net = net /\ calls[c].intent = intent
BY DEF StoreTypeOK, In, Work

LEMMA AnalysisKeeps ==
    ASSUME NoneAssumption, StoreTypeOK, Shown, Analysis
    PROVE  StoreKept /\ NoNewPlan
<1>1. PICK run \in Run, net \in Net, intent \in Intent :
          /\ Remember(run, net, intent, "nothing")
          /\ Show(run, net, intent)
          /\ UNCHANGED <<tool, calls>>
  BY DEF Analysis
<1>2. /\ sessions' \in [Run -> Session \union {None}]
      /\ sessions'[run] = [net |-> net, intent |-> intent, holds |-> "nothing"]
      /\ \A other \in Run : other # run => sessions'[other] = sessions[other]
  BY <1>1, RememberType DEF Holds
<1>3. /\ announced' \in SUBSET Ticket
      /\ announced \subseteq announced'
      /\ Guarded(net) => Given(run, net, intent)'
  BY <1>1, ShowGrows
<1>4. StoreTypeOK'
  BY <1>1, <1>2, <1>3 DEF StoreTypeOK
<1>5. SessionShown(run)'
  BY <1>2, <1>3 DEF SessionShown, Guarded
<1>6. Shown'
  BY <1>1, <1>2, <1>3, <1>5, ShownKept
<1>7. submitting' = submitting
  BY <1>1 DEF submitting, Submitting, In, Guarded, TicketFor
<1>8. GateStep
  <2>1. TicketFor(run, net, intent) \in Ticket
    BY TicketForType
  <2>2. QED
    BY <1>1, <1>7, <2>1 DEF Show, GateStep, Gate!Next, Gate!Announce
<1>9. NoNewPlan
  BY <1>2 DEF NoNewPlan
<1>10. QED
  BY <1>1, <1>4, <1>6, <1>8, <1>9 DEF StoreKept

LEMMA StartSimulationKeeps ==
    ASSUME NoneAssumption, StoreTypeOK, Shown, NEW c \in Call, StartSimulation(c)
    PROVE  StoreKept /\ sessions' = sessions
<1>1. PICK run \in Run, net \in Net, intent \in Intent :
          Await(c, [Job(run, net, intent) EXCEPT !.phase = "simulating"])
  BY DEF StartSimulation
<1> DEFINE work == [Job(run, net, intent) EXCEPT !.phase = "simulating"]
<1>2. work \in Work /\ work.phase = "simulating"
  BY JobType DEF Job
<1> HIDE DEF work
<1>3. calls[c] = None /\ UNCHANGED <<tool, sessions, announced>> /\ Await(c, work)
  BY <1>1 DEF StartSimulation, work
<1>4. /\ calls' \in [Call -> Work \union {None}]
      /\ calls'[c] = work
      /\ \A d \in Call : d # c => calls'[d] = calls[d]
  BY <1>2, <1>3, AwaitType
<1>5. StoreTypeOK'
  BY <1>3, <1>4 DEF StoreTypeOK
<1>6. CallShown(c)'
  BY <1>2, <1>4 DEF CallShown
<1>7. Shown'
  BY <1>3, <1>4, <1>6, ShownKept
<1>8. GateStep
  BY <1>2, <1>3, GateFinish DEF TicketOf
<1>9. QED
  BY <1>3, <1>5, <1>7, <1>8 DEF StoreKept

LEMMA EndSimulationKeeps ==
    ASSUME NoneAssumption, StoreTypeOK, Shown, NEW c \in Call, EndSimulation(c)
    PROVE  StoreKept /\ NoNewPlan
<1>1. calls[c].phase = "simulating"
  BY JobOf DEF EndSimulation
<1>. PICK run \in Run, net \in Net, intent \in Intent :
         calls[c].run = run /\ calls[c].net = net /\ calls[c].intent = intent
  BY JobOf DEF EndSimulation
<1>2. /\ Remember(run, net, intent, "nothing")
      /\ Show(run, net, intent)
      /\ Await(c, None) /\ tool' = tool
  BY DEF EndSimulation
<1>3. /\ sessions' \in [Run -> Session \union {None}]
      /\ sessions'[run] = [net |-> net, intent |-> intent, holds |-> "nothing"]
      /\ \A other \in Run : other # run => sessions'[other] = sessions[other]
  BY <1>1, <1>2, RememberType DEF Holds
<1>4. /\ announced' \in SUBSET Ticket
      /\ announced \subseteq announced'
      /\ Guarded(net) => Given(run, net, intent)'
  BY <1>1, <1>2, ShowGrows
<1>5. /\ calls' \in [Call -> Work \union {None}]
      /\ calls'[c] = None
      /\ \A d \in Call : d # c => calls'[d] = calls[d]
  BY <1>2, AwaitType
<1>6. StoreTypeOK'
  BY <1>2, <1>3, <1>4, <1>5 DEF StoreTypeOK
<1>7. SessionShown(run)' /\ CallShown(c)'
  BY <1>3, <1>4, <1>5 DEF SessionShown, CallShown, Guarded
<1>8. Shown'
  BY <1>1, <1>2, <1>3, <1>4, <1>5, <1>7, ShownKept
<1>9. TicketOf(calls[c]) = None /\ TicketOf(None) = None
  BY <1>1 DEF TicketOf
<1>10. GateStep
  BY <1>1, <1>2, <1>9, GateShow
<1>11. NoNewPlan
  BY <1>3 DEF NoNewPlan
<1>12. QED
  BY <1>2, <1>6, <1>8, <1>10, <1>11 DEF StoreKept

LEMMA ThrowsKeeps ==
    ASSUME NoneAssumption, StoreTypeOK, Shown, NEW c \in Call, Throws(c)
    PROVE  StoreKept /\ sessions' = sessions
<1>1. Await(c, None) /\ UNCHANGED <<tool, sessions, announced>>
  BY DEF Throws
<1>2. /\ calls' \in [Call -> Work \union {None}]
      /\ calls'[c] = None
      /\ \A d \in Call : d # c => calls'[d] = calls[d]
  BY <1>1, AwaitType
<1>3. StoreTypeOK'
  BY <1>1, <1>2 DEF StoreTypeOK
<1>4. CallShown(c)'
  BY <1>2 DEF CallShown
<1>5. Shown'
  BY <1>1, <1>2, <1>4, ShownKept
<1>6. GateStep
  BY <1>1, GateFinish DEF TicketOf
<1>7. QED
  BY <1>1, <1>3, <1>5, <1>6 DEF StoreKept

LEMMA SendKeeps ==
    ASSUME NoneAssumption, StoreTypeOK, Shown, NEW c \in Call,
           NEW run \in Run, NEW net \in Net, NEW intent \in Intent,
           Guarded(net) => Given(run, net, intent), Send(c, run, net, intent)
    PROVE  StoreKept /\ sessions' = sessions
<1> DEFINE work == Job(run, net, intent)
<1>1. /\ work \in Work /\ work.phase = "sending"
      /\ work.run = run /\ work.net = net /\ work.intent = intent
  BY JobType DEF Job
<1>2. calls[c] = None /\ Await(c, work) /\ UNCHANGED <<tool, sessions, announced>>
  BY DEF Send
<1> HIDE DEF work
<1>3. /\ calls' \in [Call -> Work \union {None}]
      /\ calls'[c] = work
      /\ \A d \in Call : d # c => calls'[d] = calls[d]
  BY <1>1, <1>2, AwaitType
<1>4. StoreTypeOK'
  BY <1>2, <1>3 DEF StoreTypeOK
<1>5. CallShown(c)'
  BY <1>1, <1>2, <1>3 DEF CallShown, Given, TicketFor, Guarded
<1>6. Shown'
  BY <1>2, <1>3, <1>5, ShownKept
<1>7. GateStep
  BY <1>1, <1>2, GateSubmit DEF TicketOf
<1>8. QED
  BY <1>2, <1>4, <1>6, <1>7 DEF StoreKept

LEMMA RefuseKeeps ==
    ASSUME NoneAssumption, StoreTypeOK, Shown,
           NEW run \in Run, NEW net \in Net, NEW intent \in Intent,
           RefuseNaming(run, net, intent)
    PROVE  StoreKept /\ sessions' = sessions
<1>1. Show(run, net, intent) /\ UNCHANGED <<tool, sessions, calls>>
  BY DEF RefuseNaming
<1>2. /\ announced' \in SUBSET Ticket
      /\ announced \subseteq announced'
  BY <1>1, ShowGrows
<1>3. StoreTypeOK'
  BY <1>1, <1>2 DEF StoreTypeOK
<1>4. Shown'
  BY <1>1, <1>2, ShownKept
<1>5. submitting' = submitting
  BY <1>1 DEF submitting, Submitting, In, Guarded, TicketFor
<1>6. GateStep
  <2>1. TicketFor(run, net, intent) \in Ticket
    BY TicketForType
  <2>2. QED
    BY <1>1, <1>5, <2>1 DEF Show, GateStep, Gate!Next, Gate!Announce
<1>7. QED
  BY <1>1, <1>3, <1>4, <1>6 DEF StoreKept

(* A session is written again when the call returns: what the call sent    *)
(* was shown to the caller before.                                         *)
LEMMA ReturnKeeps ==
    ASSUME NoneAssumption, StoreTypeOK, Shown, NEW c \in Call,
           In(c, "sending") \/ In(c, "reporting"),
           NEW holds \in {"nothing", "token"},
           Remember(calls[c].run, calls[c].net, calls[c].intent, holds),
           Await(c, None), UNCHANGED <<tool, announced>>
    PROVE  StoreKept /\ NoNewPlan
<1>1. calls[c] # None /\ calls[c].phase \in {"sending", "reporting"}
  BY JobOf
<1>. PICK run \in Run, net \in Net, intent \in Intent :
         calls[c].run = run /\ calls[c].net = net /\ calls[c].intent = intent
  BY JobOf
<1>2. tool # "kaspa" /\ Guarded(net) => Given(run, net, intent)
  BY <1>1 DEF Shown, CallShown
<1>3. /\ sessions' \in [Run -> Session \union {None}]
      /\ sessions'[run] = [net |-> net, intent |-> intent, holds |-> holds]
      /\ \A other \in Run : other # run => sessions'[other] = sessions[other]
  <2>1. Remember(run, net, intent, holds) /\ holds \in Holds
    BY DEF Remember, Holds
  <2>2. QED
    BY <2>1, RememberType
<1>4. /\ calls' \in [Call -> Work \union {None}]
      /\ calls'[c] = None
      /\ \A d \in Call : d # c => calls'[d] = calls[d]
  BY AwaitType
<1>5. StoreTypeOK'
  BY <1>3, <1>4 DEF StoreTypeOK
<1>6. SessionShown(run)' /\ CallShown(c)'
  BY <1>2, <1>3, <1>4 DEF SessionShown, CallShown, Guarded, Given, TicketFor
<1>7. Shown'
  BY <1>1, <1>3, <1>4, <1>6, ShownKept
<1>8. GateStep
  BY GateFinish DEF TicketOf
<1>9. NoNewPlan
  BY <1>3 DEF NoNewPlan
<1>10. QED
  BY <1>5, <1>7, <1>8, <1>9 DEF StoreKept

-----------------------------------------------------------------------------
(* The tools, one by one.                                                  *)

(* A session of another tool than NEAR and Kaspa that is for mainnet was   *)
(* shown.                                                                  *)
LEMMA ConfirmedIsShown ==
    ASSUME StoreTypeOK, Shown, tool \notin {"near", "kaspa"},
           NEW run \in Run, sessions[run] # None, Guarded(sessions[run].net)
    PROVE  Given(run, sessions[run].net, sessions[run].intent)
BY DEF Shown, SessionShown, Guarded

LEMMA StoreStays ==
    ASSUME sessions' = sessions
    PROVE  NoNewPlan
BY DEF NoNewPlan

LEMMA SuiKeeps ==
    ASSUME NoneAssumption, StoreTypeOK, Shown, tool = "sui", SuiNext
    PROVE  StoreKept /\ NoNewPlan
<1>1. CASE SuiAnalysis
  BY <1>1, AnalysisKeeps DEF SuiAnalysis
<1>2. ASSUME NEW c \in Call, SuiSimulate(c) \/ SuiFails(c) PROVE StoreKept /\ NoNewPlan
  BY <1>2, StartSimulationKeeps, ThrowsKeeps, StoreStays DEF SuiSimulate, SuiFails
<1>3. ASSUME NEW c \in Call, SuiSimulated(c) PROVE StoreKept /\ NoNewPlan
  BY <1>3, EndSimulationKeeps DEF SuiSimulated
<1>4. ASSUME NEW c \in Call, SuiExecute(c) PROVE StoreKept /\ NoNewPlan
  <2>1. PICK run \in Run, net \in Net, intent \in Intent :
            SuiConfirmed(run, net, intent) /\ Send(c, run, net, intent)
    BY <1>4 DEF SuiExecute
  <2>2. Guarded(net) => Given(run, net, intent)
    BY <2>1, ConfirmedIsShown DEF SuiConfirmed, SessionConfirmed
  <2>3. QED
    BY <2>1, <2>2, SendKeeps, StoreStays
<1>5. ASSUME NEW c \in Call, SuiSent(c) PROVE StoreKept /\ NoNewPlan
  BY <1>5, ReturnKeeps DEF SuiSent, Sent
<1>6. QED
  BY <1>1, <1>2, <1>3, <1>4, <1>5 DEF SuiNext

LEMMA EvmKeeps ==
    ASSUME NoneAssumption, StoreTypeOK, Shown, tool = "evm", EvmNext
    PROVE  StoreKept /\ NoNewPlan
<1>1. CASE EvmAnalysis
  BY <1>1, AnalysisKeeps DEF EvmAnalysis
<1>2. CASE EvmRefuses
  BY <1>2, RefuseKeeps, StoreStays DEF EvmRefuses
<1>3. ASSUME NEW c \in Call, EvmSimulate(c) \/ EvmSendFails(c) PROVE StoreKept /\ NoNewPlan
  BY <1>3, StartSimulationKeeps, ThrowsKeeps, StoreStays DEF EvmSimulate, EvmSendFails
<1>4. ASSUME NEW c \in Call, EvmSimulated(c) PROVE StoreKept /\ NoNewPlan
  BY <1>4, EndSimulationKeeps DEF EvmSimulated
<1>5. ASSUME NEW c \in Call, EvmExecute(c) PROVE StoreKept /\ NoNewPlan
  <2>1. PICK run \in Run, net \in Net, intent \in Intent :
            EvmConfirmed(run, net, intent) /\ Send(c, run, net, intent)
    BY <1>5 DEF EvmExecute
  <2>2. Guarded(net) => Given(run, net, intent)
    BY <2>1, ConfirmedIsShown DEF EvmConfirmed, SessionConfirmed
  <2>3. QED
    BY <2>1, <2>2, SendKeeps, StoreStays
<1>6. ASSUME NEW c \in Call, EvmSent(c) PROVE StoreKept /\ NoNewPlan
  BY <1>6, ReturnKeeps DEF EvmSent, Sent
<1>7. QED
  BY <1>1, <1>2, <1>3, <1>4, <1>5, <1>6 DEF EvmNext

LEMMA VenusKeeps ==
    ASSUME NoneAssumption, StoreTypeOK, Shown, tool = "venus", VenusNext
    PROVE  StoreKept /\ NoNewPlan
<1>1. ASSUME NEW c \in Call, VenusSimulate(c) \/ VenusEnds(c) PROVE StoreKept /\ NoNewPlan
  BY <1>1, StartSimulationKeeps, ThrowsKeeps, StoreStays DEF VenusSimulate, VenusEnds
<1>2. ASSUME NEW c \in Call, VenusSimulated(c) PROVE StoreKept /\ NoNewPlan
  BY <1>2, EndSimulationKeeps DEF VenusSimulated
<1>3. ASSUME NEW c \in Call, VenusExecute(c) PROVE StoreKept /\ NoNewPlan
  <2>1. PICK run \in Run :
            /\ sessions[run] # None
            /\ Guarded(sessions[run].net) =>
                   Given(run, sessions[run].net, sessions[run].intent)
            /\ Send(c, run, sessions[run].net, sessions[run].intent)
    BY <1>3 DEF VenusExecute
  <2>2. PICK net \in Net, intent \in Intent :
            net = sessions[run].net /\ intent = sessions[run].intent
    BY <2>1 DEF StoreTypeOK, Session
  <2>3. Guarded(net) => Given(run, net, intent)
    BY <2>1, <2>2
  <2>4. Send(c, run, net, intent)
    BY <2>1, <2>2
  <2>5. QED
    BY <2>3, <2>4, SendKeeps, StoreStays
<1>4. QED
  BY <1>1, <1>2, <1>3 DEF VenusNext

(* A call prepares first and asks for the token later: it was allowed, or  *)
(* was refused.                                                            *)
LEMMA PrepareKeeps ==
    ASSUME NoneAssumption, StoreTypeOK, Shown, NEW c \in Call, calls[c] = None,
           NEW run \in Run, NEW net \in Net, NEW intent \in Intent,
           NEW allowed \in BOOLEAN,
           tool # "kaspa" /\ allowed /\ Guarded(net) => Given(run, net, intent),
           Await(c, [Job(run, net, intent) EXCEPT !.phase = "preparing",
                                                  !.allowed = allowed]),
           UNCHANGED <<tool, sessions, announced>>
    PROVE  StoreKept /\ NoNewPlan
<1> DEFINE work == [Job(run, net, intent) EXCEPT !.phase = "preparing", !.allowed = allowed]
<1>1. /\ work \in Work /\ work.phase = "preparing" /\ work.allowed = allowed
      /\ work.run = run /\ work.net = net /\ work.intent = intent
  BY JobType DEF Job
<1>2. Await(c, work)
  OBVIOUS
<1> HIDE DEF work
<1>3. /\ calls' \in [Call -> Work \union {None}]
      /\ calls'[c] = work
      /\ \A d \in Call : d # c => calls'[d] = calls[d]
  BY <1>1, <1>2, AwaitType
<1>4. StoreTypeOK'
  BY <1>3 DEF StoreTypeOK
<1>5. CallShown(c)'
  BY <1>1, <1>3 DEF CallShown, Given, TicketFor, Guarded
<1>6. Shown'
  BY <1>3, <1>5, ShownKept
<1>7. GateStep
  BY <1>1, <1>2, GateFinish DEF TicketOf
<1>8. QED
  BY <1>4, <1>6, <1>7, StoreStays DEF StoreKept

LEMMA RefusedKeeps ==
    ASSUME NoneAssumption, StoreTypeOK, Shown, NEW c \in Call, In(c, "preparing"),
           Show(calls[c].run, calls[c].net, calls[c].intent),
           Await(c, None), UNCHANGED <<tool, sessions>>
    PROVE  StoreKept /\ NoNewPlan
<1>1. calls[c].phase = "preparing"
  BY JobOf
<1>. PICK run \in Run, net \in Net, intent \in Intent :
         calls[c].run = run /\ calls[c].net = net /\ calls[c].intent = intent
  BY JobOf
<1>2. Show(run, net, intent)
  OBVIOUS
<1>3. /\ announced' \in SUBSET Ticket
      /\ announced \subseteq announced'
  BY <1>2, ShowGrows
<1>4. /\ calls' \in [Call -> Work \union {None}]
      /\ calls'[c] = None
      /\ \A d \in Call : d # c => calls'[d] = calls[d]
  BY AwaitType
<1>5. StoreTypeOK'
  BY <1>3, <1>4 DEF StoreTypeOK
<1>6. CallShown(c)'
  BY <1>4 DEF CallShown
<1>7. Shown'
  BY <1>3, <1>4, <1>6, ShownKept
<1>8. TicketOf(calls[c]) = None /\ TicketOf(None) = None
  BY <1>1 DEF TicketOf
<1>9. GateStep
  BY <1>2, <1>8, GateShow
<1>10. QED
  BY <1>5, <1>7, <1>9, StoreStays DEF StoreKept

(* The call goes on to send, with its captured values.                     *)
LEMMA GoOnKeeps ==
    ASSUME NoneAssumption, StoreTypeOK, Shown, NEW c \in Call, In(c, "preparing"),
           \/ calls[c].allowed /\ tool # "kaspa"
           \/ Given(calls[c].run, calls[c].net, calls[c].intent),
           NEW work \in Work, work.phase = "sending",
           work.run = calls[c].run, work.net = calls[c].net, work.intent = calls[c].intent,
           Await(c, work), UNCHANGED <<tool, sessions, announced>>
    PROVE  StoreKept /\ NoNewPlan
<1>1. calls[c] # None /\ calls[c].phase = "preparing"
  BY JobOf
<1>2. Guarded(work.net) => Given(work.run, work.net, work.intent)
  BY <1>1 DEF Shown, CallShown
<1>3. /\ calls' \in [Call -> Work \union {None}]
      /\ calls'[c] = work
      /\ \A d \in Call : d # c => calls'[d] = calls[d]
  BY AwaitType
<1>4. StoreTypeOK'
  BY <1>3 DEF StoreTypeOK
<1>5. CallShown(c)'
  BY <1>2, <1>3 DEF CallShown, Given, TicketFor, Guarded
<1>6. Shown'
  BY <1>3, <1>5, ShownKept
<1>7. TicketOf(calls[c]) = None
  BY <1>1 DEF TicketOf
<1>8. GateStep
  BY <1>2, <1>7, GateSubmit
<1>9. QED
  BY <1>4, <1>6, <1>8, StoreStays DEF StoreKept

LEMMA SolanaKeeps ==
    ASSUME NoneAssumption, StoreTypeOK, Shown, tool = "solana", SolanaNext
    PROVE  StoreKept /\ NoNewPlan
<1>1. CASE SolanaAnalysis
  BY <1>1, AnalysisKeeps DEF SolanaAnalysis
<1>2. ASSUME NEW c \in Call, SolanaSimulate(c) \/ SolanaEnds(c) PROVE StoreKept /\ NoNewPlan
  BY <1>2, StartSimulationKeeps, ThrowsKeeps, StoreStays DEF SolanaSimulate, SolanaEnds
<1>3. ASSUME NEW c \in Call, SolanaSimulated(c) PROVE StoreKept /\ NoNewPlan
  BY <1>3, EndSimulationKeeps DEF SolanaSimulated
<1>4. ASSUME NEW c \in Call, SolanaExecute(c) PROVE StoreKept /\ NoNewPlan
  <2>1. PICK run \in Run, net \in Net, intent \in Intent, token \in BOOLEAN :
            Await(c, [Job(run, net, intent) EXCEPT !.phase = "preparing",
                         !.allowed = (Guarded(net) => token /\ Given(run, net, intent))])
    BY <1>4 DEF SolanaExecute
  <2>2. PICK allowed \in BOOLEAN :
            allowed = (Guarded(net) => token /\ Given(run, net, intent))
    OBVIOUS
  <2>3. Await(c, [Job(run, net, intent) EXCEPT !.phase = "preparing", !.allowed = allowed])
    BY <2>1, <2>2
  <2>4. allowed /\ Guarded(net) => Given(run, net, intent)
    BY <2>2
  <2>5. QED
    BY <1>4, <2>3, <2>4, PrepareKeeps DEF SolanaExecute
<1>5. ASSUME NEW c \in Call, SolanaSends(c) PROVE StoreKept /\ NoNewPlan
  <2>1. calls[c] \in Work
    BY <1>5, JobOf DEF SolanaSends
  <2>2. [calls[c] EXCEPT !.phase = "sending"] \in Work
    BY <2>1 DEF Work
  <2>3. QED
    BY <1>5, <2>1, <2>2, GoOnKeeps DEF SolanaSends, Work
<1>6. ASSUME NEW c \in Call, SolanaRefuses(c) PROVE StoreKept /\ NoNewPlan
  BY <1>6, RefusedKeeps DEF SolanaRefuses
<1>7. QED
  BY <1>1, <1>2, <1>3, <1>4, <1>5, <1>6 DEF SolanaNext

LEMMA KaspaKeeps ==
    ASSUME NoneAssumption, StoreTypeOK, Shown, tool = "kaspa", KaspaNext
    PROVE  StoreKept /\ NoNewPlan
<1>1. CASE KaspaExpires
  <2>1. PICK ticket \in announced :
            announced' = announced \ {ticket} /\ UNCHANGED <<tool, sessions, calls>>
    BY <1>1 DEF KaspaExpires
  <2>2. StoreTypeOK' /\ ticket \in Ticket
    BY <2>1 DEF StoreTypeOK
  <2>3. Shown'
    BY <2>1, ShownKept
  <2>4. submitting' = submitting
    BY <2>1 DEF submitting, Submitting, In, Guarded, TicketFor
  <2>5. GateStep
    BY <2>1, <2>2, <2>4 DEF GateStep, Gate!Next, Gate!Expire
  <2>6. QED
    BY <2>1, <2>2, <2>3, <2>5, StoreStays DEF StoreKept
<1>2. ASSUME NEW c \in Call, KaspaSimulate(c) \/ KaspaFails(c) PROVE StoreKept /\ NoNewPlan
  BY <1>2, StartSimulationKeeps, ThrowsKeeps, StoreStays DEF KaspaSimulate, KaspaFails
<1>3. ASSUME NEW c \in Call, KaspaReady(c) \/ KaspaNotReady(c) PROVE StoreKept /\ NoNewPlan
  <2>1. calls[c].phase = "simulating"
    BY <1>3, JobOf DEF KaspaReady, KaspaNotReady
  <2>. PICK run \in Run, net \in Net, intent \in Intent :
           calls[c].run = run /\ calls[c].net = net /\ calls[c].intent = intent
    BY <1>3, JobOf DEF KaspaReady, KaspaNotReady
  <2>2. PICK holds \in {"nothing", "token"} : Remember(run, net, intent, holds)
    BY <1>3 DEF KaspaReady, KaspaNotReady
  <2>3. /\ Show(run, net, intent) \/ announced' = announced
        /\ Await(c, None) /\ tool' = tool
    BY <1>3 DEF KaspaReady, KaspaNotReady
  <2>4. /\ sessions' \in [Run -> Session \union {None}]
        /\ sessions'[run] = [net |-> net, intent |-> intent, holds |-> holds]
        /\ \A other \in Run : other # run => sessions'[other] = sessions[other]
    <3>1. holds \in Holds
      BY DEF Holds
    <3>2. QED
      BY <2>2, <3>1, RememberType
  <2>5. announced' \in SUBSET Ticket /\ announced \subseteq announced'
    BY <2>3, ShowGrows DEF StoreTypeOK
  <2>6. /\ calls' \in [Call -> Work \union {None}]
        /\ calls'[c] = None
        /\ \A d \in Call : d # c => calls'[d] = calls[d]
    BY <2>3, AwaitType
  <2>7. StoreTypeOK'
    BY <2>3, <2>4, <2>5, <2>6 DEF StoreTypeOK
  <2>8. SessionShown(run)' /\ CallShown(c)'
    BY <2>3 DEF SessionShown, CallShown
  <2>9. Shown'
    BY <2>3, <2>4, <2>5, <2>6, <2>8, ShownKept
  <2>10. TicketOf(calls[c]) = None /\ TicketOf(None) = None
    BY <2>1 DEF TicketOf
  <2>11. GateStep
    BY <2>3, <2>10, GateShow
  <2>12. NoNewPlan
    BY <2>4 DEF NoNewPlan
  <2>13. QED
    BY <2>3, <2>7, <2>9, <2>11, <2>12 DEF StoreKept
<1>4. ASSUME NEW c \in Call, KaspaExecute(c) PROVE StoreKept /\ NoNewPlan
  <2>1. PICK run \in Run, net \in Net, intent \in Intent, token \in BOOLEAN :
            Await(c, [Job(run, net, intent) EXCEPT !.phase = "preparing",
                                                   !.allowed = token])
    BY <1>4 DEF KaspaExecute
  <2>2. QED
    BY <1>4, <2>1, PrepareKeeps DEF KaspaExecute
<1>5. ASSUME NEW c \in Call, KaspaSubmits(c) PROVE StoreKept /\ NoNewPlan
  <2>1. calls[c] \in Work
    BY <1>5, JobOf DEF KaspaSubmits
  <2>2. [calls[c] EXCEPT !.phase = "sending"] \in Work
    BY <2>1 DEF Work
  <2>3. QED
    BY <1>5, <2>1, <2>2, GoOnKeeps DEF KaspaSubmits, Work
<1>6. ASSUME NEW c \in Call, KaspaSent(c) PROVE StoreKept /\ NoNewPlan
  BY <1>6, ReturnKeeps DEF KaspaSent, Sent
<1>7. QED
  BY <1>1, <1>2, <1>3, <1>4, <1>5, <1>6 DEF KaspaNext

LEMMA PolymarketKeeps ==
    ASSUME NoneAssumption, StoreTypeOK, Shown, PolymarketTypeOK, tool = "polymarket",
           PolymarketNext
    PROVE  StoreKept /\ NoNewPlan
<1>1. ASSUME NEW c \in Call, PolymarketSimulate(c) \/ PolymarketFails(c)
      PROVE  StoreKept /\ NoNewPlan
  BY <1>1, StartSimulationKeeps, ThrowsKeeps, StoreStays
     DEF PolymarketSimulate, PolymarketFails
<1>2. ASSUME NEW c \in Call, PolymarketSimulated(c) PROVE StoreKept /\ NoNewPlan
  BY <1>2, EndSimulationKeeps DEF PolymarketSimulated
<1>3. ASSUME NEW c \in Call, PolymarketExecute(c) PROVE StoreKept /\ NoNewPlan
  <2>1. PICK run \in Run, net \in Net, intent \in Intent, token \in BOOLEAN :
            Await(c, [Job(run, net, intent) EXCEPT !.phase = "preparing",
                         !.allowed = \/ ~Guarded(net)
                                     \/ token /\ Given(run, net, intent)
                                     \/ ~token /\ SessionConfirmed(run, net, intent)])
    BY <1>3, RequoteAssumption DEF PolymarketExecute, RequoteAssumption
  <2>2. PICK allowed \in BOOLEAN :
            allowed = (\/ ~Guarded(net)
                       \/ token /\ Given(run, net, intent)
                       \/ ~token /\ SessionConfirmed(run, net, intent))
    OBVIOUS
  <2>3. Await(c, [Job(run, net, intent) EXCEPT !.phase = "preparing", !.allowed = allowed])
    BY <2>1, <2>2
  <2>4. allowed /\ Guarded(net) => Given(run, net, intent)
    BY <2>2, ConfirmedIsShown DEF SessionConfirmed
  <2>5. QED
    BY <1>3, <2>3, <2>4, PrepareKeeps DEF PolymarketExecute
<1>4. ASSUME NEW c \in Call, PolymarketRefuses(c) PROVE StoreKept /\ NoNewPlan
  BY <1>4, RefusedKeeps DEF PolymarketRefuses
<1>5. ASSUME NEW c \in Call, PolymarketPlaces(c) PROVE StoreKept /\ NoNewPlan
  <2>1. calls[c] \in Work
    BY <1>5, JobOf DEF PolymarketPlaces
  <2>2. [calls[c] EXCEPT !.phase = "sending"] \in Work
    BY <2>1 DEF Work
  <2>3. QED
    BY <1>5, <2>1, <2>2, GoOnKeeps DEF PolymarketPlaces, Work
<1>6. ASSUME NEW c \in Call, PolymarketCancels(c) PROVE StoreKept /\ NoNewPlan
  <2>1. calls[c] \in Work
    BY <1>6, JobOf DEF PolymarketCancels
  <2>2. attempts[calls[c].run] \in Nat
    BY <2>1 DEF PolymarketTypeOK, Work
  <2>3. PICK limit \in Limits \union {0} :
            Await(c, [calls[c] EXCEPT !.phase = "sending",
                                      !.used = attempts[calls[c].run], !.limit = limit])
    BY <1>6 DEF PolymarketCancels
  <2>4. limit \in Nat
    BY RequoteAssumption DEF RequoteAssumption
  <2>5. [calls[c] EXCEPT !.phase = "sending", !.used = attempts[calls[c].run],
                         !.limit = limit] \in Work
    BY <2>1, <2>2, <2>4 DEF Work
  <2>6. QED
    BY <1>6, <2>1, <2>3, <2>5, GoOnKeeps DEF PolymarketCancels, Work
<1>7. ASSUME NEW c \in Call, PolymarketPlaced(c) PROVE StoreKept /\ NoNewPlan
  <2> DEFINE work == [calls[c] EXCEPT !.phase = "reporting", !.used = 0, !.limit = 0]
  <2>1. calls[c] \in Work /\ calls[c] # None /\ calls[c].phase = "sending"
    BY <1>7, JobOf DEF PolymarketPlaced
  <2>2. PICK next \in Work : next = work
    BY <2>1 DEF Work
  <2>3. /\ next.phase = "reporting"
        /\ next.run = calls[c].run /\ next.net = calls[c].net
        /\ next.intent = calls[c].intent
    BY <2>1, <2>2 DEF Work
  <2>4. Await(c, next) /\ UNCHANGED <<tool, sessions, announced>>
    BY <1>7, <2>2 DEF PolymarketPlaced
  <2>5. /\ calls' \in [Call -> Work \union {None}]
        /\ calls'[c] = next
        /\ \A d \in Call : d # c => calls'[d] = calls[d]
    BY <2>4, AwaitType
  <2>6. StoreTypeOK'
    BY <2>4, <2>5 DEF StoreTypeOK
  <2>7. Guarded(next.net) => Given(next.run, next.net, next.intent)
    BY <2>1, <2>3 DEF Shown, CallShown
  <2>8. CallShown(c)'
    BY <2>4, <2>5, <2>7 DEF CallShown, Given, TicketFor, Guarded
  <2>9. Shown'
    BY <2>4, <2>5, <2>8, ShownKept
  <2>10. GateStep
    BY <2>3, <2>4, GateFinish DEF TicketOf
  <2>11. QED
    BY <2>4, <2>6, <2>9, <2>10, StoreStays DEF StoreKept
<1>8. ASSUME NEW c \in Call, PolymarketReported(c) PROVE StoreKept /\ NoNewPlan
  BY <1>8, ReturnKeeps DEF PolymarketReported
<1>9. QED
  BY <1>1, <1>2, <1>3, <1>4, <1>5, <1>6, <1>7, <1>8 DEF PolymarketNext

(* What a plan in a session says about the history.                        *)
PlanInv ==
    \A run \in Run :
        /\ handed[run] <= 1
        /\ sessions[run] # None /\ sessions[run].holds = "plan" => handed[run] = 0

LEMMA PlanKept ==
    ASSUME PlanInv, NoNewPlan, handed' = handed
    PROVE  PlanInv'
BY DEF PlanInv, NoNewPlan

LEMMA NearKeeps ==
    ASSUME NoneAssumption, StoreTypeOK, NearTypeOK, Shown, PlanInv, tool = "near", NearNext
    PROVE  StoreKept /\ PlanInv' /\ NearTypeOK'
<1>a. ASSUME StoreKept, sessions' = sessions \/ NoNewPlan, handed' = handed
      PROVE  StoreKept /\ PlanInv' /\ NearTypeOK'
  BY <1>a, StoreStays, PlanKept DEF NearTypeOK
<1>1. CASE NearAnalysis
  <2>1. PICK run \in Run, net \in Net, intent \in Intent :
            /\ Remember(run, net, intent, "nothing")
            /\ IF intent \in YieldIntent THEN UNCHANGED announced ELSE Show(run, net, intent)
            /\ UNCHANGED <<tool, calls, handed>>
    BY <1>1 DEF NearAnalysis
  <2>2. /\ sessions' \in [Run -> Session \union {None}]
        /\ sessions'[run] = [net |-> net, intent |-> intent, holds |-> "nothing"]
        /\ \A other \in Run : other # run => sessions'[other] = sessions[other]
    BY <2>1, RememberType DEF Holds
  <2>3. /\ announced' \in SUBSET Ticket
        /\ announced \subseteq announced'
        /\ Guarded(net) => intent \in YieldIntent \/ Given(run, net, intent)'
    BY <2>1, ShowGrows DEF StoreTypeOK
  <2>4. StoreTypeOK'
    BY <2>1, <2>2, <2>3 DEF StoreTypeOK
  <2>5. SessionShown(run)'
    BY <2>1, <2>2, <2>3 DEF SessionShown, Guarded
  <2>6. Shown'
    BY <2>1, <2>2, <2>3, <2>5, ShownKept
  <2>7. submitting' = submitting
    BY <2>1 DEF submitting, Submitting, In, Guarded, TicketFor
  <2>8. GateStep
    <3>1. TicketFor(run, net, intent) \in Ticket
      BY TicketForType
    <3>2. QED
      BY <2>1, <2>7, <3>1 DEF Show, GateStep, Gate!Next, Gate!Announce
  <2>9. NoNewPlan
    BY <2>2 DEF NoNewPlan
  <2>10. QED
    BY <2>1, <2>4, <2>6, <2>8, <2>9, <1>a DEF StoreKept
<1>2. CASE NearRefuses
  <2>1. StoreKept /\ sessions' = sessions
    BY <1>2, RefuseKeeps DEF NearRefuses
  <2>2. QED
    BY <1>2, <2>1, <1>a DEF NearRefuses
<1>3. ASSUME NEW run \in Run, NearHandOut(run) \/ NearPlanExpires(run)
      PROVE  StoreKept /\ PlanInv' /\ NearTypeOK'
  <2>1. sessions[run] \in Session /\ sessions[run] # None /\ sessions[run].holds = "plan"
    BY <1>3 DEF NearHandOut, NearPlanExpires, StoreTypeOK
  <2>2. PICK net \in Net, intent \in Intent :
            sessions[run].net = net /\ sessions[run].intent = intent
    BY <2>1 DEF Session
  <2>3. Given(run, net, intent)
    BY <2>1, <2>2 DEF Shown, SessionShown
  <2>4. PICK holds \in Holds : /\ holds # "plan"
                               /\ Remember(run, net, intent, holds)
    BY <1>3, <2>2 DEF NearHandOut, NearPlanExpires, Holds
  <2>5. UNCHANGED <<tool, calls, announced>>
    BY <1>3 DEF NearHandOut, NearPlanExpires
  <2>6. /\ sessions' \in [Run -> Session \union {None}]
        /\ sessions'[run] = [net |-> net, intent |-> intent, holds |-> holds]
        /\ \A other \in Run : other # run => sessions'[other] = sessions[other]
    BY <2>4, RememberType
  <2>7. StoreTypeOK'
    BY <2>5, <2>6 DEF StoreTypeOK
  <2>8. SessionShown(run)'
    BY <2>3, <2>5, <2>6 DEF SessionShown, Given, TicketFor
  <2>9. Shown'
    BY <2>5, <2>6, <2>8, ShownKept
  <2>10. GateStep
    <3>1. submitting' = submitting
      BY <2>5 DEF submitting, Submitting, In, Guarded, TicketFor
    <3>2. QED
      BY <2>5, <3>1 DEF GateStep
  <2>11. handed[run] = 0
    BY <2>1 DEF PlanInv
  <2>12. /\ handed'[run] \in {0, 1}
         /\ handed' = [handed EXCEPT ![run] = handed'[run]]
    BY <1>3, <2>11 DEF NearHandOut, NearPlanExpires, NearTypeOK
  <2>13. PlanInv' /\ NearTypeOK'
    BY <2>4, <2>6, <2>12 DEF PlanInv, NearTypeOK
  <2>14. QED
    BY <2>5, <2>7, <2>9, <2>10, <2>13 DEF StoreKept
<1>4. ASSUME NEW c \in Call, NearSimulate(c) \/ NearEnds(c)
      PROVE  StoreKept /\ PlanInv' /\ NearTypeOK'
  BY <1>4, <1>a, StartSimulationKeeps, ThrowsKeeps DEF NearSimulate, NearEnds
<1>5. ASSUME NEW c \in Call, NearSimulated(c) \/ NearComposed(c)
      PROVE  StoreKept /\ PlanInv' /\ NearTypeOK'
  <2>1. calls[c].phase = "simulating"
    BY <1>5, JobOf DEF NearSimulated, NearComposed
  <2>. PICK run \in Run, net \in Net, own \in Intent :
           calls[c].run = run /\ calls[c].net = net /\ calls[c].intent = own
    BY <1>5, JobOf DEF NearSimulated, NearComposed
  <2>2. PICK intent \in Intent :
            /\ Remember(run, net, intent, "nothing")
            /\ Show(run, net, intent) \/ announced' = announced
    BY <1>5 DEF NearSimulated, NearComposed
  <2>3. Await(c, None) /\ tool' = tool /\ handed' = handed
    BY <1>5 DEF NearSimulated, NearComposed
  <2>4. /\ sessions' \in [Run -> Session \union {None}]
        /\ sessions'[run] = [net |-> net, intent |-> intent, holds |-> "nothing"]
        /\ \A other \in Run : other # run => sessions'[other] = sessions[other]
    BY <2>2, RememberType DEF Holds
  <2>5. announced' \in SUBSET Ticket /\ announced \subseteq announced'
    BY <2>2, <2>3, ShowGrows DEF StoreTypeOK
  <2>6. /\ calls' \in [Call -> Work \union {None}]
        /\ calls'[c] = None
        /\ \A d \in Call : d # c => calls'[d] = calls[d]
    BY <2>3, AwaitType
  <2>7. StoreTypeOK'
    BY <2>3, <2>4, <2>5, <2>6 DEF StoreTypeOK
  <2>8. SessionShown(run)' /\ CallShown(c)'
    BY <2>3, <2>4, <2>6 DEF SessionShown, CallShown
  <2>9. Shown'
    BY <2>3, <2>4, <2>5, <2>6, <2>8, ShownKept
  <2>10. TicketOf(calls[c]) = None /\ TicketOf(None) = None
    BY <2>1 DEF TicketOf
  <2>11. GateStep
    BY <2>2, <2>3, <2>10, GateShow
  <2>12. NoNewPlan
    BY <2>4 DEF NoNewPlan
  <2>13. QED
    BY <1>a, <2>3, <2>7, <2>9, <2>11, <2>12 DEF StoreKept
<1>6. ASSUME NEW c \in Call, NearPlanned(c)
      PROVE  StoreKept /\ PlanInv' /\ NearTypeOK'
  <2>1. calls[c].phase = "simulating"
    BY <1>6, JobOf DEF NearPlanned
  <2>. PICK run \in Run, net \in Net, intent \in Intent :
           calls[c].run = run /\ calls[c].net = net /\ calls[c].intent = intent
    BY <1>6, JobOf DEF NearPlanned
  <2>2. PICK holds \in Holds : Remember(run, net, intent, holds)
    BY <1>6 DEF NearPlanned, Holds
  <2>3. /\ announced' = announced \union {TicketFor(run, net, intent)}
        /\ handed' = [handed EXCEPT ![run] = 0]
        /\ Await(c, None) /\ tool' = tool
    BY <1>6 DEF NearPlanned
  <2>4. /\ sessions' \in [Run -> Session \union {None}]
        /\ sessions'[run] = [net |-> net, intent |-> intent, holds |-> holds]
        /\ \A other \in Run : other # run => sessions'[other] = sessions[other]
    BY <2>2, RememberType
  <2>5. /\ announced' \in SUBSET Ticket /\ announced \subseteq announced'
        /\ Given(run, net, intent)'
    <3>1. TicketFor(run, net, intent) \in Ticket
      BY TicketForType
    <3>2. QED
      BY <2>3, <3>1 DEF StoreTypeOK, Given, TicketFor
  <2>6. /\ calls' \in [Call -> Work \union {None}]
        /\ calls'[c] = None
        /\ \A d \in Call : d # c => calls'[d] = calls[d]
    BY <2>3, AwaitType
  <2>7. StoreTypeOK'
    BY <2>3, <2>4, <2>5, <2>6 DEF StoreTypeOK
  <2>8. SessionShown(run)' /\ CallShown(c)'
    BY <2>4, <2>5, <2>6 DEF SessionShown, CallShown
  <2>9. Shown'
    BY <2>3, <2>4, <2>5, <2>6, <2>8, ShownKept
  <2>10. TicketOf(calls[c]) = None /\ TicketOf(None) = None
    BY <2>1 DEF TicketOf
  <2>11. GateStep
    BY <2>3, <2>10, GateShow
  <2>12. PlanInv' /\ NearTypeOK'
    BY <2>3, <2>4 DEF PlanInv, NearTypeOK
  <2>13. QED
    BY <2>3, <2>7, <2>9, <2>11, <2>12 DEF StoreKept
<1>7. ASSUME NEW c \in Call, NearExecute(c)
      PROVE  StoreKept /\ PlanInv' /\ NearTypeOK'
  <2>1. PICK run \in Run, net \in Net, intent \in Intent :
            /\ Guarded(net) => Given(run, net, intent)
            /\ Send(c, run, net, intent)
    BY <1>7 DEF NearExecute
  <2>2. StoreKept /\ sessions' = sessions
    BY <2>1, SendKeeps
  <2>3. QED
    BY <1>7, <2>2, <1>a DEF NearExecute
<1>8. QED
  BY <1>1, <1>2, <1>3, <1>4, <1>5, <1>6, <1>7 DEF NearNext

LEMMA RestartKeeps ==
    ASSUME NoneAssumption, StoreTypeOK, Shown, LoseStore
    PROVE  StoreKept /\ NoNewPlan
<1>1. /\ sessions' = [r \in Run |-> None]
      /\ calls' = [c \in Call |-> None]
      /\ UNCHANGED <<tool, announced>>
  BY DEF LoseStore
<1>2. StoreTypeOK'
  BY <1>1 DEF StoreTypeOK
<1>3. Shown'
  BY <1>1 DEF Shown, SessionShown, CallShown
<1>4. submitting' = [c \in Call |-> None]
  BY <1>1 DEF submitting, Submitting, In
<1>5. GateStep
  BY <1>1, <1>4 DEF GateStep, Gate!Next, Gate!Restart
<1>6. NoNewPlan
  BY <1>1 DEF NoNewPlan
<1>7. QED
  BY <1>1, <1>2, <1>3, <1>5, <1>6 DEF StoreKept

-----------------------------------------------------------------------------
(* The requotes of Polymarket.  While the requotes of a run do not overlap *)
(* the one in flight has read the attempts, and they are below its limit.  *)
(* The orders a limit counts were placed before some restart, n for each   *)
(* that lost the attempts, or are among the attempts and among n.          *)

RequoteInv ==
    /\ \A run \in Run \ overlapped, n \in Limits :
           /\ placed[run][n] <= n * forgotten[run] + attempts[run]
           /\ placed[run][n] <= n * forgotten[run] + n
    /\ tool = "polymarket" =>
           \A run \in Run \ overlapped, c \in Call : Requoting(c, run) =>
               /\ calls[c].used = attempts[run]
               /\ calls[c].limit # 0 => attempts[run] < calls[c].limit
               /\ \A d \in Call : Requoting(d, run) => d = c

LEMMA BaseIsNat ==
    ASSUME NEW n \in Limits, NEW f \in Nat
    PROVE  /\ n \in Nat /\ n * f \in Nat
           /\ n * (f + 1) = n * f + n
BY RequoteAssumption DEF RequoteAssumption

(* The attempts lost with the process are paid for by what they forgot.    *)
LEMMA RequoteRestart ==
    ASSUME PolymarketTypeOK, RequoteInv, Restart
    PROVE  RequoteInv' /\ PolymarketTypeOK'
<1>1. /\ attempts \in [Run -> Nat] /\ placed \in [Run -> [Limits -> Nat]]
      /\ forgotten \in [Run -> Nat]
  BY DEF PolymarketTypeOK
<1>2. /\ attempts' = [r \in Run |-> 0]
      /\ forgotten' = [r \in Run |-> IF attempts[r] > 0 THEN forgotten[r] + 1
                                                         ELSE forgotten[r]]
      /\ UNCHANGED <<placed, overlapped>>
      /\ calls' = [c \in Call |-> None]
  BY DEF Restart, LoseStore, PolymarketRestart
<1>3. PolymarketTypeOK'
  BY <1>1, <1>2 DEF PolymarketTypeOK
<1>4. \A c \in Call, run \in Run : ~Requoting(c, run)'
  BY <1>2 DEF Requoting, In
<1>5. ASSUME NEW run \in Run \ overlapped, NEW n \in Limits
      PROVE  placed[run][n] <= n * forgotten'[run]
  <2> DEFINE f == forgotten[run]
             before == placed[run][n]
             base == n * f
  <2>1. before <= base + attempts[run] /\ before <= base + n
    BY DEF RequoteInv
  <2>2. f \in Nat /\ before \in Nat
    BY <1>1
  <2>3. base \in Nat /\ n \in Nat /\ n * (f + 1) = base + n
    BY <2>2, BaseIsNat
  <2>4. CASE attempts[run] > 0
    <3>1. forgotten'[run] = f + 1
      BY <1>2, <2>4
    <3>2. QED
      BY <2>1, <2>3, <3>1
  <2>5. CASE ~(attempts[run] > 0)
    <3>1. forgotten'[run] = f /\ attempts[run] = 0
      BY <1>1, <1>2, <2>5
    <3>2. n * forgotten'[run] = base
      BY <3>1
    <3> HIDE DEF base, before, f
    <3>3. before <= base
      BY <2>1, <2>2, <2>3, <3>1
    <3>4. QED
      BY <3>2, <3>3 DEF before
  <2>6. QED
    BY <2>4, <2>5
<1>6. ASSUME NEW run \in Run \ overlapped', NEW n \in Limits
      PROVE  /\ placed'[run][n] <= n * forgotten'[run] + attempts'[run]
             /\ placed'[run][n] <= n * forgotten'[run] + n
  <2> DEFINE base == n * forgotten'[run]
             before == placed[run][n]
  <2>1. forgotten'[run] \in Nat /\ before \in Nat
    BY <1>1, <1>3 DEF PolymarketTypeOK
  <2>2. base \in Nat /\ n \in Nat
    BY <2>1, BaseIsNat
  <2>3. placed'[run][n] = before /\ attempts'[run] = 0
    BY <1>2
  <2>4. before <= base
    BY <1>2, <1>5
  <2> HIDE DEF base, before
  <2>5. placed'[run][n] <= base + attempts'[run] /\ placed'[run][n] <= base + n
    BY <2>1, <2>2, <2>3, <2>4
  <2>6. QED
    BY <2>5 DEF base
<1>7. QED
  BY <1>3, <1>4, <1>6 DEF RequoteInv

(* No requote begins and none counts.                                      *)
LEMMA RequoteLocal ==
    ASSUME RequoteInv, UNCHANGED <<tool, requoteVars>>,
           \A c \in Call : \/ calls'[c] = calls[c]
                            \/ \A run \in Run : ~Requoting(c, run)'
    PROVE  RequoteInv'
<1>1. \A c \in Call, run \in Run :
          Requoting(c, run)' => Requoting(c, run) /\ calls'[c] = calls[c]
  BY DEF Requoting, In
<1>2. UNCHANGED <<attempts, overlapped, placed, forgotten>>
  BY DEF requoteVars
<1>3. QED
  BY <1>1, <1>2 DEF RequoteInv

LEMMA RequoteStep ==
    ASSUME NoneAssumption, RequoteAssumption, StoreTypeOK, PolymarketTypeOK, RequoteInv,
           tool = "polymarket", PolymarketNext
    PROVE  RequoteInv' /\ PolymarketTypeOK'
<1>a. /\ attempts \in [Run -> Nat] /\ placed \in [Run -> [Limits -> Nat]]
      /\ forgotten \in [Run -> Nat] /\ Limits \subseteq Nat \ {0}
      /\ calls \in [Call -> Work \union {None}]
  BY DEF PolymarketTypeOK, StoreTypeOK, RequoteAssumption
<1>b. ASSUME NEW c \in Call, NEW work, Await(c, work), UNCHANGED <<tool, requoteVars>>,
             work # None /\ work.phase = "sending" => work.intent \notin RequoteIntent
      PROVE  RequoteInv' /\ PolymarketTypeOK'
  <2>1. calls'[c] = work /\ \A d \in Call : d # c => calls'[d] = calls[d]
    BY <1>a, <1>b DEF Await
  <2>2. \A run \in Run : ~Requoting(c, run)'
    BY <1>b, <2>1 DEF Requoting, In
  <2>3. QED
    BY <1>b, <2>1, <2>2, RequoteLocal DEF PolymarketTypeOK, requoteVars
<1>1. ASSUME NEW c \in Call, PolymarketSimulate(c) PROVE RequoteInv' /\ PolymarketTypeOK'
  <2>1. PICK run \in Run, net \in Net, intent \in Intent :
            Await(c, [Job(run, net, intent) EXCEPT !.phase = "simulating"])
    BY <1>1 DEF PolymarketSimulate, StartSimulation
  <2>2. [Job(run, net, intent) EXCEPT !.phase = "simulating"].phase = "simulating"
    BY DEF Job
  <2>3. QED
    BY <1>1, <1>b, <2>1, <2>2 DEF PolymarketSimulate, StartSimulation
<1>2. ASSUME NEW c \in Call,
             \/ PolymarketSimulated(c) \/ PolymarketRefuses(c)
             \/ PolymarketReported(c) \/ PolymarketFails(c)
      PROVE  RequoteInv' /\ PolymarketTypeOK'
  BY <1>2, <1>b DEF PolymarketSimulated, PolymarketRefuses, PolymarketReported,
                    PolymarketFails, EndSimulation, Throws
<1>3. ASSUME NEW c \in Call, PolymarketExecute(c) PROVE RequoteInv' /\ PolymarketTypeOK'
  <2>1. PICK run \in Run, net \in Net, intent \in Intent, token \in BOOLEAN :
            Await(c, [Job(run, net, intent) EXCEPT !.phase = "preparing",
                         !.allowed = \/ ~Guarded(net)
                                     \/ token /\ Given(run, net, intent)
                                     \/ ~token /\ SessionConfirmed(run, net, intent)])
    BY <1>3, RequoteAssumption DEF PolymarketExecute, RequoteAssumption
  <2>2. PICK allowed : Await(c, [Job(run, net, intent) EXCEPT !.phase = "preparing",
                                                              !.allowed = allowed])
    BY <2>1
  <2>3. [Job(run, net, intent) EXCEPT !.phase = "preparing",
                                      !.allowed = allowed].phase = "preparing"
    BY DEF Job
  <2>4. QED
    BY <1>3, <1>b, <2>2, <2>3 DEF PolymarketExecute
<1>4. ASSUME NEW c \in Call, PolymarketPlaces(c) PROVE RequoteInv' /\ PolymarketTypeOK'
  <2>1. PICK work : Await(c, work) /\ work.intent = calls[c].intent
    <3>1. calls[c] \in Work
      BY <1>4, JobOf DEF PolymarketPlaces
    <3>2. [calls[c] EXCEPT !.phase = "sending"].intent = calls[c].intent
      BY <3>1 DEF Work
    <3>3. QED
      BY <1>4, <3>2 DEF PolymarketPlaces
  <2>2. QED
    BY <1>4, <1>b, <2>1 DEF PolymarketPlaces
<1>5. ASSUME NEW c \in Call, PolymarketCancels(c) PROVE RequoteInv' /\ PolymarketTypeOK'
  <2> DEFINE now == calls[c].run
  <2>1. /\ calls[c] \in Work /\ calls[c].phase = "preparing"
        /\ now \in Run /\ attempts[now] \in Nat
    BY <1>5, <1>a, JobOf DEF PolymarketCancels, Work
  <2>2. PICK limit \in Limits \union {0} :
            /\ ~BlockedByAttempts(now, limit)
            /\ Await(c, [calls[c] EXCEPT !.phase = "sending", !.used = attempts[now],
                                          !.limit = limit])
    BY <1>5 DEF PolymarketCancels
  <2>3. UNCHANGED <<tool, attempts, forgotten>>
    BY <1>5 DEF PolymarketCancels
  <2>4. /\ calls'[c].run = now /\ calls'[c].used = attempts[now] /\ calls'[c].limit = limit
        /\ \A d \in Call : d # c => calls'[d] = calls[d]
    BY <1>a, <2>1, <2>2 DEF Await, Work
  <2>5. limit # 0 => attempts[now] < limit
    BY <1>a, <2>1, <2>2 DEF BlockedByAttempts
  <2>6. \A run \in Run : ~Requoting(c, run)
    BY <2>1 DEF Requoting, In
  <2>7. CASE \E other \in Call : Requoting(other, now)
    <3>1. /\ overlapped' = overlapped \union {now}
          /\ placed' = [placed EXCEPT ![now] = [n \in Limits |-> 0]]
      BY <1>5, <2>7 DEF PolymarketCancels
    <3>2. PolymarketTypeOK'
      BY <1>a, <2>1, <2>3, <3>1 DEF PolymarketTypeOK
    <3>3. ASSUME NEW run \in Run \ overlapped' PROVE run # now /\ placed'[run] = placed[run]
      BY <1>a, <2>1, <3>1
    <3>4. ASSUME NEW run \in Run, run # now, NEW d \in Call, Requoting(d, run)'
          PROVE  d # c /\ Requoting(d, run)
      BY <2>4, <3>4 DEF Requoting, In
    <3>5. QED
      BY <2>3, <2>4, <3>1, <3>2, <3>3, <3>4 DEF RequoteInv
  <2>8. CASE ~\E other \in Call : Requoting(other, now)
    <3>1. UNCHANGED <<overlapped, placed>>
      BY <1>5, <2>8 DEF PolymarketCancels
    <3>2. PolymarketTypeOK'
      BY <2>3, <3>1 DEF PolymarketTypeOK
    <3>3. ASSUME NEW run \in Run, NEW d \in Call, Requoting(d, run)'
          PROVE  \/ d = c /\ run = now
                 \/ d # c /\ run # now /\ Requoting(d, run)
      BY <2>4, <2>8, <3>3 DEF Requoting, In
    <3>4. QED
      BY <2>3, <2>4, <2>5, <3>1, <3>2, <3>3 DEF RequoteInv
  <2>9. QED
    BY <2>7, <2>8
<1>6. ASSUME NEW c \in Call, PolymarketPlaced(c) PROVE RequoteInv' /\ PolymarketTypeOK'
  <2> DEFINE now == calls[c].run
             limit == calls[c].limit
  <2>1. /\ calls[c] \in Work /\ calls[c] # None /\ calls[c].phase = "sending"
        /\ now \in Run /\ calls[c].used \in Nat /\ limit \in Nat
    BY <1>6, <1>a, JobOf DEF PolymarketPlaced, Work
  <2>2. /\ Await(c, [calls[c] EXCEPT !.phase = "reporting", !.used = 0, !.limit = 0])
        /\ UNCHANGED <<tool, overlapped, forgotten>>
    BY <1>6 DEF PolymarketPlaced
  <2>3. /\ calls'[c].phase = "reporting"
        /\ \A d \in Call : d # c => calls'[d] = calls[d]
    BY <1>a, <2>1, <2>2 DEF Await, Work
  <2>4. ASSUME NEW run \in Run, NEW d \in Call, Requoting(d, run)'
        PROVE  d # c /\ Requoting(d, run)
    BY <2>3, <2>4 DEF Requoting, In
  <2>5. CASE calls[c].intent \notin RequoteIntent
    <3>1. UNCHANGED <<attempts, placed>>
      BY <1>6, <2>5 DEF PolymarketPlaced
    <3>2. QED
      BY <2>2, <2>3, <2>4, <3>1 DEF RequoteInv, PolymarketTypeOK
  <2>6. CASE calls[c].intent \in RequoteIntent
    <3>1. Requoting(c, now)
      BY <2>1, <2>6 DEF Requoting, In
    <3>2. /\ attempts' = [attempts EXCEPT ![now] = calls[c].used + 1]
          /\ placed' = IF now \in overlapped THEN placed
                       ELSE [placed EXCEPT ![now] = Counted(placed[now], limit)]
      BY <1>6, <2>6 DEF PolymarketPlaced
    <3>3. Counted(placed[now], limit) \in [Limits -> Nat]
      BY <1>a, <2>1 DEF Counted
    <3>4. PolymarketTypeOK'
      BY <1>a, <2>1, <2>2, <3>2, <3>3 DEF PolymarketTypeOK
    <3>5. now \notin overlapped => /\ calls[c].used = attempts[now]
                                   /\ limit # 0 => attempts[now] < limit
                                   /\ \A d \in Call : Requoting(d, now) => d = c
      BY <2>1, <3>1 DEF RequoteInv
    <3>6. ASSUME NEW run \in Run \ overlapped, NEW n \in Limits
          PROVE  /\ placed'[run][n] <= n * forgotten[run] + attempts'[run]
                 /\ placed'[run][n] <= n * forgotten[run] + n
      <4>1. /\ placed[run][n] <= n * forgotten[run] + attempts[run]
            /\ placed[run][n] <= n * forgotten[run] + n
        BY DEF RequoteInv
      <4>2. CASE run # now
        BY <1>a, <3>2, <4>1, <4>2
      <4>3. CASE run = now
        <5> DEFINE base == n * forgotten[run]
                   before == placed[run][n]
                   att == attempts[run]
        <5>1. base \in Nat /\ before \in Nat /\ att \in Nat /\ n \in Nat
          BY <1>a, BaseIsNat
        <5>2. placed'[run] = Counted(placed[run], limit) /\ attempts'[run] = att + 1
          BY <1>a, <2>1, <3>2, <3>5, <4>3
        <5>3. placed'[run][n] = IF limit # 0 /\ limit <= n THEN before + 1 ELSE before
          BY <5>2 DEF Counted
        <5>4. before <= base + att /\ before <= base + n /\ (limit # 0 => att < limit)
          BY <3>5, <4>1, <4>3
        <5> HIDE DEF base, before, att, limit
        <5>5. placed'[run][n] <= base + (att + 1) /\ placed'[run][n] <= base + n
          BY <2>1, <5>1, <5>3, <5>4
        <5>6. QED
          BY <5>2, <5>5 DEF base
      <4>4. QED
        BY <4>2, <4>3
    <3>7. ASSUME NEW run \in Run \ overlapped, NEW d \in Call, Requoting(d, run)'
          PROVE  /\ calls'[d].used = attempts'[run]
                 /\ calls'[d].limit # 0 => attempts'[run] < calls'[d].limit
                 /\ \A e \in Call : Requoting(e, run)' => e = d
      <4>1. d # c /\ Requoting(d, run)
        BY <2>4, <3>7
      <4>2. run # now
        BY <3>5, <4>1
      <4>3. attempts'[run] = attempts[run] /\ calls'[d] = calls[d]
        BY <1>a, <2>3, <3>2, <4>1, <4>2
      <4>4. /\ calls[d].used = attempts[run]
            /\ calls[d].limit # 0 => attempts[run] < calls[d].limit
            /\ \A e \in Call : Requoting(e, run) => e = d
        BY <4>1 DEF RequoteInv
      <4>5. QED
        BY <2>4, <4>3, <4>4
    <3>8. QED
      BY <2>2, <3>4, <3>6, <3>7 DEF RequoteInv
  <2>7. QED
    BY <2>5, <2>6
<1>7. QED
  BY <1>1, <1>2, <1>3, <1>4, <1>5, <1>6 DEF PolymarketNext

-----------------------------------------------------------------------------
(* The theorems.                                                           *)

IInv == TypeOK /\ Shown /\ PlanInv /\ RequoteInv

LEMMA InvInit == NoneAssumption /\ RequoteAssumption => (Init => IInv /\ Gate!Init)
<1> SUFFICES ASSUME NoneAssumption, RequoteAssumption, Init PROVE IInv /\ Gate!Init
  OBVIOUS
<1>1. /\ sessions = [r \in Run |-> None] /\ calls = [c \in Call |-> None]
      /\ announced = {} /\ tool \in Tool
  BY DEF Init, StoreInit
<1>2. /\ handed = [r \in Run |-> 0] /\ overlapped = {}
      /\ attempts = [r \in Run |-> 0] /\ placed = [r \in Run |-> [n \in Limits |-> 0]]
      /\ forgotten = [r \in Run |-> 0]
  BY DEF Init, NearInit, PolymarketInit
<1>3. TypeOK
  BY <1>1, <1>2 DEF TypeOK, StoreTypeOK, NearTypeOK, PolymarketTypeOK
<1>4. Shown /\ PlanInv
  BY <1>1, <1>2 DEF Shown, SessionShown, CallShown, PlanInv
<1>5. RequoteInv
  <2>1. \A run \in Run, c \in Call : ~Requoting(c, run)
    BY <1>1 DEF Requoting, In
  <2>2. ASSUME NEW run \in Run, NEW n \in Limits
        PROVE  /\ placed[run][n] <= n * forgotten[run] + attempts[run]
               /\ placed[run][n] <= n * forgotten[run] + n
    <3>1. placed[run][n] = 0 /\ attempts[run] = 0 /\ forgotten[run] = 0
      BY <1>2
    <3>2. n \in Nat /\ n * 0 = 0
      BY DEF RequoteAssumption
    <3>3. QED
      BY <3>1, <3>2
  <2>3. QED
    BY <2>1, <2>2 DEF RequoteInv
<1>6. Gate!Init
  BY <1>1 DEF Gate!Init, submitting, Submitting, In
<1>7. QED
  BY <1>3, <1>4, <1>5, <1>6 DEF IInv

LEMMA InvStep ==
    ASSUME NoneAssumption, RequoteAssumption, IInv, [Next]_vars
    PROVE  IInv' /\ GateStep
<1> USE DEF TypeOK, IInv
<1>1. CASE UNCHANGED vars
  <2>1. UNCHANGED <<tool, sessions, calls, announced, handed, attempts, overlapped, placed,
                  forgotten>>
    BY <1>1 DEF vars, sessionVars, requoteVars
  <2>2. TypeOK'
    BY <2>1 DEF StoreTypeOK, NearTypeOK, PolymarketTypeOK
  <2>3. Shown' /\ PlanInv'
    BY <2>1, ShownKept DEF PlanInv
  <2>4. RequoteInv'
    BY <2>1, RequoteLocal DEF requoteVars
  <2>5. GateStep
    BY <2>1 DEF GateStep, submitting, Submitting, In, Guarded, TicketFor
  <2>6. QED
    BY <2>2, <2>3, <2>4, <2>5
<1>2. CASE Plain
  <2>1. /\ StoreKept /\ NoNewPlan /\ UNCHANGED <<handed, requoteVars>>
        /\ tool \notin {"near", "polymarket"} /\ tool' = tool
    BY <1>2, SuiKeeps, EvmKeeps, VenusKeeps, SolanaKeeps, KaspaKeeps DEF Plain, StoreKept
  <2>2. PlanInv' /\ NearTypeOK' /\ PolymarketTypeOK'
    BY <2>1, PlanKept DEF NearTypeOK, PolymarketTypeOK, requoteVars
  <2>3. RequoteInv'
    BY <2>1 DEF RequoteInv, requoteVars
  <2>4. QED
    BY <2>1, <2>2, <2>3 DEF StoreKept
<1>3. CASE Polymarket
  <2>1. StoreKept /\ NoNewPlan /\ handed' = handed
    BY <1>3, PolymarketKeeps DEF Polymarket
  <2>2. RequoteInv' /\ PolymarketTypeOK'
    BY <1>3, RequoteStep DEF Polymarket
  <2>3. PlanInv' /\ NearTypeOK'
    BY <2>1, PlanKept DEF NearTypeOK
  <2>4. QED
    BY <2>1, <2>2, <2>3 DEF StoreKept
<1>4. CASE Near
  <2>1. StoreKept /\ PlanInv' /\ NearTypeOK'
    BY <1>4, NearKeeps DEF Near
  <2>2. RequoteInv' /\ PolymarketTypeOK'
    BY <1>4, <2>1 DEF Near, StoreKept, RequoteInv, PolymarketTypeOK, requoteVars
  <2>3. QED
    BY <2>1, <2>2 DEF StoreKept
<1>5. CASE Restart
  <2>1. StoreKept /\ NoNewPlan /\ handed' = handed
    BY <1>5, RestartKeeps DEF Restart
  <2>2. PlanInv' /\ NearTypeOK'
    BY <2>1, PlanKept DEF NearTypeOK
  <2>3. RequoteInv' /\ PolymarketTypeOK'
    BY <1>5, RequoteRestart
  <2>4. QED
    BY <2>1, <2>2, <2>3 DEF StoreKept
<1>6. QED
  BY <1>1, <1>2, <1>3, <1>4, <1>5 DEF Next

LEMMA InvariantHolds == Spec => []IInv
<1>1. Init => IInv
  BY InvInit, NoneAssumption, RequoteAssumption
<1>2. IInv /\ [Next]_vars => IInv'
  BY InvStep, NoneAssumption, RequoteAssumption
<1>3. QED
  BY <1>1, <1>2, PTL DEF Spec

(* Every variable keeps its type, for any number of runs, intents, calls   *)
(* and attempts.                                                           *)
THEOREM TypeCorrect == Spec => []TypeOK
<1>1. IInv => TypeOK
  BY DEF IInv
<1>2. QED
  BY <1>1, InvariantHolds, PTL

(* No session holds, for mainnet or as a plan, what its caller was not     *)
(* shown, whichever calls interleave and fail.                             *)
THEOREM SessionsAreShown == Spec => []SessionsShown
<1>1. IInv => SessionsShown
  BY DEF IInv, Shown, SessionShown, SessionsShown
<1>2. QED
  BY <1>1, InvariantHolds, PTL

(* Every workflow tool implements the confirmation gate: what it sends to  *)
(* a guarded network was announced before, for that run, network and       *)
(* intent, and did not expire.                                             *)
THEOREM GateImplemented == Spec => ConfirmedOnly
<1>1. Init => Gate!Init
  BY InvInit, NoneAssumption, RequoteAssumption
<1>2. IInv /\ [Next]_vars => [Gate!Next]_(Gate!gateVars)
  BY InvStep, NoneAssumption, RequoteAssumption DEF GateStep, Gate!gateVars
<1>3. QED
  BY <1>1, <1>2, InvariantHolds, PTL DEF Spec, ConfirmedOnly, Gate!Spec

(* A stable-yield plan is handed out at most once per simulation.          *)
THEOREM HandedOutOnce == Spec => []PlanHandedOutOnce
<1>1. IInv => PlanHandedOutOnce
  BY DEF IInv, PlanInv, PlanHandedOutOnce
<1>2. QED
  BY <1>1, InvariantHolds, PTL

(* Calls with a limit of at most n place at most n orders for a run, and n *)
(* more for each restart that lost the attempts, while its requotes have   *)
(* never overlapped: for any limits of the other calls, and none.          *)
THEOREM RequotesAreBounded == Spec => []RequotesBounded
<1>1. IInv => RequotesBounded
  <2>1. ASSUME IInv, NEW run \in Run \ overlapped, NEW n \in Limits
        PROVE  placed[run][n] <= n * (forgotten[run] + 1)
    <3>1. forgotten[run] \in Nat
      BY <2>1 DEF IInv, TypeOK, PolymarketTypeOK
    <3>2. n * (forgotten[run] + 1) = n * forgotten[run] + n
      BY <3>1, BaseIsNat
    <3>3. placed[run][n] <= n * forgotten[run] + n
      BY <2>1 DEF IInv, RequoteInv
    <3>4. QED
      BY <3>2, <3>3
  <2>2. QED
    BY <2>1 DEF RequotesBounded
<1>2. QED
  BY <1>1, InvariantHolds, PTL
=============================================================================
