-------------------------- MODULE AutonomousCycle --------------------------
(***************************************************************************)
(* The live safety lock of scripts/hyperliquid-autonomous-cycle.mjs: every *)
(* invocation is a process of its own, and all share one state file with   *)
(* the run that is live, the time of the last successful run, and a row    *)
(* for every run-id seen.  A process loads the file, decides on its copy,  *)
(* marks the copy and writes it; after the live command it finalises that  *)
(* same copy and writes it again.  Nothing locks the file in between.      *)
(*                                                                         *)
(* Time is kept as ages: what the code compares with Date.now() is how old *)
(* a time stamp is, and an age past its threshold changes no more.         *)
(* A dry run reads the file and writes nothing, so it has no action.       *)
(***************************************************************************)
EXTENDS Integers, Sequences

CONSTANTS
    Proc,         (* invocations of the script in live mode *)
    RunId,        (* values of --run-id *)
    RunOf,        (* the run-id each process was given *)
    None,         (* no live run *)
    LockTtl,      (* lockTtlSeconds: 900 *)
    MinInterval,  (* minIntervalSeconds: 300 *)
    MaxRun,       (* time from the mark to the final write: 120 s for the
                     command and 20 s for each snapshot, by default *)
    ReplayCap,    (* rows kept: 200, never fewer than 20 *)
    MaxCrashes    (* bound of the model on crashes *)

ASSUME CycleAssumption ==
    /\ RunOf \in [Proc -> RunId]
    /\ None \notin RunId
    /\ LockTtl \in Nat /\ MinInterval \in Nat /\ MaxRun \in Nat
    /\ ReplayCap \in Nat \ {0}
    /\ MaxCrashes \in Nat

(* The time-outs of the commands end a run before its lock expires.        *)
ASSUME RunsShorterThanLock == MaxRun <= LockTtl

VARIABLES
    file,       (* the state file *)
    mem,        (* the copy each process loaded *)
    pc,         (* where each process is *)
    ok,         (* whether the run of a process is to be reported as ok *)
    runAge,     (* how long ago each process marked its run *)
    okAge,      (* history: how long ago each process finalised a success *)
    stale,      (* history: the file was written since the process loaded it *)
    raced,      (* history: a process marked a run on a stale copy *)
    sinceOk,    (* history: how long ago a successful run was recorded *)
    executed,   (* history: how often each run-id's command was started *)
    forgotten,  (* history: run-ids whose row was dropped *)
    crashes     (* history: crashes so far *)

history == <<stale, raced, sinceOk, executed, forgotten, crashes>>
vars == <<file, mem, pc, ok, runAge, okAge, history>>

Age(limit) == 0..limit
CycleState == [active : RunId \union {None}, activeAge : Age(LockTtl + 1),
               liveAge : Age(MinInterval), rows : Seq(RunId)]

(* Where a process is: it has loaded the file; the mark is being written;  *)
(* the mark is written; the command runs; the proof is being written (in   *)
(* the hold path, outside the try block); the final copy is being written  *)
(* (again, after a failed write); it is over, or crashed.                  *)
Marked == {"marking", "marked", "running", "reporting", "holding",
           "finalised", "held", "retrying"}
Location == {"idle", "loaded", "done", "dead"} \union Marked

TypeOK ==
    /\ file \in CycleState
    /\ mem \in [Proc -> CycleState]
    /\ pc \in [Proc -> Location]
    /\ ok \in [Proc -> BOOLEAN]
    /\ runAge \in [Proc -> Age(MaxRun)]
    /\ okAge \in [Proc -> Age(MinInterval)]
    /\ stale \in [Proc -> BOOLEAN]
    /\ raced \in BOOLEAN
    /\ sinceOk \in Age(MinInterval)
    /\ executed \in [RunId -> Nat]
    /\ forgotten \subseteq RunId
    /\ crashes \in 0..MaxCrashes

-----------------------------------------------------------------------------
(* The state file and its copies.                                          *)

(* No live run so far: nothing for the interval to wait for.               *)
InitialState ==
    [active |-> None, activeAge |-> 0, liveAge |-> MinInterval, rows |-> << >>]

Rows(s) == {s.rows[i] : i \in DOMAIN s.rows}

(* compactReplayRuns keeps the most recently updated rows.                 *)
CompactReplayRuns(rows) ==
    IF Len(rows) > ReplayCap THEN SubSeq(rows, 1, ReplayCap) ELSE rows

Without(rows, run) ==
    IF \E i \in DOMAIN rows : rows[i] = run
    THEN LET i == CHOOSE j \in DOMAIN rows : rows[j] = run
         IN  SubSeq(rows, 1, i - 1) \o SubSeq(rows, i + 1, Len(rows))
    ELSE rows

(* A row written for the run: it becomes the most recent one.              *)
WithRow(rows, run) == CompactReplayRuns(<<run>> \o Without(rows, run))

(* Mutants: the lock expires while a run still fits in it; it never does.  *)
LockedBriefly(s, run) == s.active \notin {None, run} /\ s.activeAge < LockTtl
LockedForever(s, run) == s.active \notin {None, run}

(* What guardAndMarkLiveRun throws for: a row of the run-id, another run's *)
(* lock that has not expired, and the minimum interval.                    *)
Replayed(s, run) == run \in Rows(s)
Locked(s, run) == s.active \notin {None, run} /\ s.activeAge <= LockTtl
TooSoon(s) == s.liveAge < MinInterval
Blocked(s, run) == Replayed(s, run) \/ Locked(s, run) \/ TooSoon(s)

MarkedState(s, run) ==
    [active |-> run, activeAge |-> 0, liveAge |-> s.liveAge,
     rows |-> WithRow(s.rows, run)]

(* Mutant: lastLiveAt is not moved.                                        *)
FinalStateUntimed(s, run, success) ==
    [active |-> IF s.active = run THEN None ELSE s.active,
     activeAge |-> IF s.active = run THEN 0 ELSE s.activeAge,
     liveAge |-> s.liveAge,
     rows |-> WithRow(s.rows, run)]

(* finalizeLiveRunState: only a successful run moves lastLiveAt.           *)
FinalState(s, run, success) ==
    [active |-> IF s.active = run THEN None ELSE s.active,
     activeAge |-> IF s.active = run THEN 0 ELSE s.activeAge,
     liveAge |-> IF success THEN 0 ELSE s.liveAge,
     rows |-> WithRow(s.rows, run)]

(* writeJsonAtomic replaces the whole file by the copy.                    *)
WriteFile(p) ==
    /\ file' = mem[p]
    /\ stale' = [q \in Proc |-> q # p /\ pc[q] \in {"loaded", "marking"}]
    /\ forgotten' = forgotten \union (Rows(file) \ Rows(mem[p]))

Goto(p, location) == pc' = [pc EXCEPT ![p] = location]

(* The process ends, and its copy with it.                                 *)
End(p, location) ==
    /\ Goto(p, location)
    /\ mem' = [mem EXCEPT ![p] = InitialState]
    /\ ok' = [ok EXCEPT ![p] = FALSE]
    /\ runAge' = [runAge EXCEPT ![p] = 0]
    /\ okAge' = [okAge EXCEPT ![p] = MinInterval]

Finalise(p, success) ==
    /\ mem' = [mem EXCEPT ![p] = FinalState(@, RunOf[p], success)]
    /\ okAge' = IF success THEN [okAge EXCEPT ![p] = 0] ELSE okAge

-----------------------------------------------------------------------------
(* The steps of runBscAutonomousCycle in live mode.                        *)

Init ==
    /\ file = InitialState
    /\ mem = [p \in Proc |-> InitialState]
    /\ pc = [p \in Proc |-> "idle"]
    /\ ok = [p \in Proc |-> FALSE]
    /\ runAge = [p \in Proc |-> 0]
    /\ okAge = [p \in Proc |-> MinInterval]
    /\ stale = [p \in Proc |-> FALSE]
    /\ raced = FALSE
    /\ sinceOk = MinInterval
    /\ executed = [r \in RunId |-> 0]
    /\ forgotten = {}
    /\ crashes = 0

Load(p) ==
    /\ pc[p] = "idle"
    /\ mem' = [mem EXCEPT ![p] = file]
    /\ stale' = [stale EXCEPT ![p] = FALSE]
    /\ Goto(p, "loaded")
    /\ UNCHANGED <<file, ok, runAge, okAge, raced, sinceOk, executed, forgotten, crashes>>

(* The guard throws.  The operator or a scheduler may invoke the script    *)
(* with this run-id again.                                                 *)
Refuse(p) ==
    /\ pc[p] = "loaded"
    /\ Blocked(mem[p], RunOf[p])
    /\ End(p, "idle")
    /\ UNCHANGED <<file, history>>

GuardAndMark(p) ==
    /\ pc[p] = "loaded"
    /\ ~Blocked(mem[p], RunOf[p])
    /\ mem' = [mem EXCEPT ![p] = MarkedState(@, RunOf[p])]
    /\ Goto(p, "marking")
    /\ UNCHANGED <<file, ok, runAge, okAge, history>>

WriteMark(p) ==
    /\ pc[p] = "marking"
    /\ WriteFile(p)
    /\ raced' = (raced \/ stale[p])
    /\ Goto(p, "marked")
    /\ UNCHANGED <<mem, ok, runAge, okAge, sinceOk, executed, crashes>>

(* The on-chain trigger is required, cannot be verified, and there is no   *)
(* contract entrypoint: a proof that is not ok is written, outside the try *)
(* block.                                                                  *)
HoldBlocked(p) ==
    /\ pc[p] = "marked"
    /\ Goto(p, "holding")
    /\ UNCHANGED <<file, mem, ok, runAge, okAge, history>>

(* runHyperliquidExecSafe refuses: amount over the cap, no confirmation,   *)
(* binding not active or no live command; or a snapshot throws.            *)
ExecRefused(p) ==
    /\ pc[p] = "marked"
    /\ Goto(p, "reporting")
    /\ UNCHANGED <<file, mem, ok, runAge, okAge, history>>

StartCommand(p) ==
    /\ pc[p] = "marked"
    /\ executed' = [executed EXCEPT ![RunOf[p]] = @ + 1]
    /\ Goto(p, "running")
    /\ UNCHANGED <<file, mem, ok, runAge, okAge, stale, raced, sinceOk, forgotten,
                   crashes>>

(* spawnSync returns: exit code 0, another code, or killed by the time-out. *)
EndCommand(p) ==
    /\ pc[p] = "running"
    /\ \E success \in BOOLEAN : ok' = [ok EXCEPT ![p] = success]
    /\ Goto(p, "reporting")
    /\ UNCHANGED <<file, mem, runAge, okAge, history>>

(* The proof and its history copy are written, or a write throws and the   *)
(* catch block finalises the run as failed.                                *)
Report(p) ==
    /\ pc[p] = "reporting"
    /\ \E success \in {FALSE, ok[p]} : Finalise(p, success)
    /\ Goto(p, "finalised")
    /\ UNCHANGED <<file, ok, runAge, history>>

(* In the hold path a failed write ends the process with the lock held.    *)
HoldReport(p) ==
    /\ pc[p] = "holding"
    /\ \/ Finalise(p, FALSE) /\ Goto(p, "held") /\ UNCHANGED <<ok, runAge>>
       \/ End(p, "dead")
    /\ UNCHANGED <<file, history>>

WriteFinal(p) ==
    /\ pc[p] \in {"finalised", "held", "retrying"}
    /\ WriteFile(p)
    /\ sinceOk' = IF okAge[p] < sinceOk THEN okAge[p] ELSE sinceOk
    /\ End(p, "done")
    /\ UNCHANGED <<raced, executed, crashes>>

(* The final write throws.  In the try block the catch finalises the same  *)
(* copy once more, as failed, and writes again; otherwise the process ends. *)
WriteFinalFails(p) ==
    /\ \/ /\ pc[p] = "finalised"
          /\ Finalise(p, FALSE)
          /\ Goto(p, "retrying")
          /\ UNCHANGED <<ok, runAge>>
       \/ pc[p] \in {"held", "retrying"} /\ End(p, "dead")
    /\ UNCHANGED <<file, history>>

(* A crash before the mark leaves no trace: the process never ran.         *)
Crash(p) ==
    /\ pc[p] \in Marked
    /\ crashes < MaxCrashes
    /\ crashes' = crashes + 1
    /\ End(p, "dead")
    /\ UNCHANGED <<file, stale, raced, sinceOk, executed, forgotten>>

(* Everything grows older.  A marked run ends within MaxRun.               *)
Older(age, limit) == IF age < limit THEN age + 1 ELSE age
OlderState(s) ==
    [active |-> s.active,
     activeAge |-> IF s.active = None THEN 0 ELSE Older(s.activeAge, LockTtl + 1),
     liveAge |-> Older(s.liveAge, MinInterval),
     rows |-> s.rows]

Tick ==
    /\ \A p \in Proc : pc[p] \in Marked => runAge[p] < MaxRun
    /\ file' = OlderState(file)
    /\ mem' = [p \in Proc |-> OlderState(mem[p])]
    /\ runAge' = [p \in Proc |->
                    IF pc[p] \in Marked THEN runAge[p] + 1 ELSE runAge[p]]
    /\ okAge' = [p \in Proc |-> Older(okAge[p], MinInterval)]
    /\ sinceOk' = Older(sinceOk, MinInterval)
    /\ UNCHANGED <<pc, ok, stale, raced, executed, forgotten, crashes>>

Step(p) ==
    \/ Load(p) \/ Refuse(p) \/ GuardAndMark(p) \/ WriteMark(p)
    \/ HoldBlocked(p) \/ ExecRefused(p) \/ StartCommand(p) \/ EndCommand(p)
    \/ Report(p) \/ HoldReport(p) \/ WriteFinal(p) \/ WriteFinalFails(p)

Next == Tick \/ \E p \in Proc : Step(p) \/ Crash(p)

(* A process runs on, and time passes.                                     *)
Fairness == WF_vars(Tick) /\ \A p \in Proc : WF_vars(Step(p))

Spec == Init /\ [][Next]_vars
FairSpec == Spec /\ Fairness

-----------------------------------------------------------------------------
(* Properties.                                                             *)

(* From the mark in the file to the final write.                           *)
Live(p) == pc[p] \in Marked \ {"marking"}

(* As long as no process marked a run on a copy of the file that had been  *)
(* overwritten, the lock keeps what it promises across crashes, failed     *)
(* writes and expiry: one process at a time is between its mark and its    *)
(* final write (guardAndMarkLiveRun, lock), and it decides on the file     *)
(* nobody else is about to overwrite.                                      *)
OneLiveRun == ~raced => \A p, q \in Proc : Live(p) /\ Live(q) => p = q

(* Under the same condition the live command of a run-id is started once,  *)
(* unless ReplayCap other rows pushed its row out of the file              *)
(* (guardAndMarkLiveRun, replay; compactReplayRuns).                       *)
CommandOnce == ~raced => \A r \in RunId \ forgotten : executed[r] <= 1

UnracedLock == OneLiveRun /\ CommandOnce

(* Under the same condition no live command is started within the minimum  *)
(* interval after a successful run was recorded, whatever copy was written *)
(* over the record since (guardAndMarkLiveRun, rate lock).                 *)
IntervalKept ==
    [][\A p \in Proc : StartCommand(p) /\ ~raced => sinceOk >= MinInterval]_vars

(* The file's lock belongs to a run whose process has ended.               *)
Orphaned ==
    /\ file.active # None
    /\ \A p \in Proc : RunOf[p] = file.active => pc[p] \notin Marked

(* An invocation that the replay guard does not stop.                      *)
Waiting ==
    \E p \in Proc : pc[p] \in {"idle", "loaded"} /\ ~Replayed(file, RunOf[p])

(* A lock left by a crash or by a failed write does not stop the others    *)
(* for ever: invocations that are repeated take it over in the end.        *)
LockExpires == Orphaned /\ Waiting ~> ~Orphaned \/ ~Waiting
=============================================================================
