----------------------- MODULE AutonomousCycleProofs -----------------------
(***************************************************************************)
(* Proofs about AutonomousCycle: the state file's lock admits one live run *)
(* at a time and keeps the minimum interval, in every execution in which   *)
(* no process marks a run on a copy that has been overwritten.             *)
(***************************************************************************)
EXTENDS AutonomousCycle, TLAPS

-----------------------------------------------------------------------------
(* The operators on the state.                                             *)

LEMMA WithoutType ==
    ASSUME NEW rows \in Seq(RunId), NEW run \in RunId
    PROVE  Without(rows, run) \in Seq(RunId)
<1>1. CASE \E i \in DOMAIN rows : rows[i] = run
  <2> DEFINE i == CHOOSE j \in DOMAIN rows : rows[j] = run
  <2>1. i \in DOMAIN rows
    BY <1>1
  <2> HIDE DEF i
  <2>2. i \in 1..Len(rows) /\ Len(rows) \in Nat
    BY <2>1
  <2>3. SubSeq(rows, 1, i - 1) \in Seq(RunId)
    BY <2>2
  <2>4. SubSeq(rows, i + 1, Len(rows)) \in Seq(RunId)
    BY <2>2
  <2>5. SubSeq(rows, 1, i - 1) \o SubSeq(rows, i + 1, Len(rows)) \in Seq(RunId)
    BY <2>3, <2>4
  <2>6. Without(rows, run) = SubSeq(rows, 1, i - 1) \o SubSeq(rows, i + 1, Len(rows))
    BY <1>1 DEF Without, i
  <2>7. QED
    BY <2>5, <2>6
<1>2. QED
  BY <1>1 DEF Without

LEMMA WithRowFirst ==
    ASSUME CycleAssumption, NEW rows \in Seq(RunId), NEW run \in RunId
    PROVE  /\ WithRow(rows, run) \in Seq(RunId)
           /\ 1 \in DOMAIN WithRow(rows, run)
           /\ WithRow(rows, run)[1] = run
<1> DEFINE rest == Without(rows, run)
           new == <<run>> \o rest
<1>1. rest \in Seq(RunId)
  BY WithoutType
<1>2. new \in Seq(RunId) /\ Len(new) >= 1 /\ new[1] = run
  BY <1>1
<1>3. WithRow(rows, run) = IF Len(new) > ReplayCap THEN SubSeq(new, 1, ReplayCap) ELSE new
  BY DEF WithRow, CompactReplayRuns
<1>4. ReplayCap \in Nat /\ ReplayCap >= 1
  BY DEF CycleAssumption
<1>5. CASE Len(new) > ReplayCap
  <2> HIDE DEF new
  <2>1. SubSeq(new, 1, ReplayCap) \in Seq(RunId)
    BY <1>2, <1>4, <1>5
  <2>2. Len(SubSeq(new, 1, ReplayCap)) = ReplayCap
    BY <1>2, <1>4, <1>5
  <2>3. SubSeq(new, 1, ReplayCap)[1] = new[1]
    BY <1>2, <1>4, <1>5
  <2>4. QED
    BY <1>2, <1>3, <1>4, <1>5, <2>1, <2>2, <2>3
<1>6. CASE ~(Len(new) > ReplayCap)
  <2> HIDE DEF new
  <2>1. QED
    BY <1>2, <1>3, <1>6
<1>7. QED
  BY <1>5, <1>6

LEMMA MarkedType ==
    ASSUME CycleAssumption, NEW s \in CycleState, NEW run \in RunId
    PROVE  /\ MarkedState(s, run) \in CycleState
           /\ MarkedState(s, run).active = run
           /\ MarkedState(s, run).activeAge = 0
           /\ MarkedState(s, run).liveAge = s.liveAge
           /\ run \in Rows(MarkedState(s, run))
<1>1. s.rows \in Seq(RunId)
  BY DEF CycleState
<1>2. /\ WithRow(s.rows, run) \in Seq(RunId)
      /\ 1 \in DOMAIN WithRow(s.rows, run)
      /\ WithRow(s.rows, run)[1] = run
  BY <1>1, WithRowFirst
<1>3. MarkedState(s, run).rows = WithRow(s.rows, run)
  BY DEF MarkedState, CycleState
<1>4. run \in Rows(MarkedState(s, run))
  BY <1>2, <1>3 DEF Rows
<1>5. QED
  BY <1>2, <1>4 DEF MarkedState, CycleState, CycleAssumption, Age

LEMMA FinalType ==
    ASSUME CycleAssumption, NEW s \in CycleState, NEW run \in RunId, NEW success \in BOOLEAN
    PROVE  FinalState(s, run, success) \in CycleState
<1>1. WithRow(s.rows, run) \in Seq(RunId)
  BY WithRowFirst DEF CycleState
<1>2. /\ s.active \in RunId \union {None}
      /\ s.activeAge \in 0..(LockTtl + 1)
      /\ s.liveAge \in 0..MinInterval
      /\ LockTtl \in Nat /\ MinInterval \in Nat
  BY DEF CycleState, CycleAssumption, Age
<1>3. QED
  BY <1>1, <1>2 DEF FinalState, CycleState, Age

LEMMA OlderType ==
    ASSUME CycleAssumption, NEW s \in CycleState
    PROVE  /\ OlderState(s) \in CycleState
           /\ OlderState(s).active = s.active
           /\ OlderState(s).rows = s.rows
           /\ OlderState(s).activeAge <= s.activeAge + 1
           /\ OlderState(s).liveAge = Older(s.liveAge, MinInterval)
<1>1. /\ s.active \in RunId \union {None}
      /\ s.activeAge \in 0..(LockTtl + 1)
      /\ s.liveAge \in 0..MinInterval
      /\ s.rows \in Seq(RunId)
      /\ LockTtl \in Nat /\ MinInterval \in Nat
  BY DEF CycleState, CycleAssumption, Age
<1>2. /\ Older(s.activeAge, LockTtl + 1) \in 0..(LockTtl + 1)
      /\ Older(s.activeAge, LockTtl + 1) <= s.activeAge + 1
      /\ Older(s.liveAge, MinInterval) \in 0..MinInterval
      /\ 0 \in 0..(LockTtl + 1)
      /\ 0 <= s.activeAge + 1
  BY <1>1 DEF Older
<1>3. QED
  BY <1>1, <1>2 DEF OlderState, CycleState, Age

LEMMA InitialType == ASSUME CycleAssumption PROVE InitialState \in CycleState
<1>1. LockTtl \in Nat /\ MinInterval \in Nat
  BY DEF CycleAssumption
<1>2. 0 \in 0..(LockTtl + 1) /\ MinInterval \in 0..MinInterval
  BY <1>1
<1>3. << >> \in Seq(RunId)
  OBVIOUS
<1>4. QED
  BY <1>2, <1>3 DEF InitialState, CycleState, Age

LEMMA RowsType ==
    ASSUME NEW s \in CycleState
    PROVE  Rows(s) \subseteq RunId
<1>1. s.rows \in Seq(RunId)
  BY DEF CycleState
<1>2. QED
  BY <1>1 DEF Rows

-----------------------------------------------------------------------------
(* Type correctness.                                                       *)

LEMMA TypeInit == ASSUME CycleAssumption PROVE Init => TypeOK
<1>1. /\ MinInterval \in Age(MinInterval) /\ 0 \in Age(MaxRun)
      /\ 0 \in 0..MaxCrashes /\ 0 \in Nat
  BY DEF CycleAssumption, Age
<1> SUFFICES ASSUME Init PROVE TypeOK
  OBVIOUS
<1>2. file \in CycleState /\ mem \in [Proc -> CycleState]
  BY InitialType DEF Init
<1>3. /\ pc \in [Proc -> Location] /\ ok \in [Proc -> BOOLEAN]
      /\ stale \in [Proc -> BOOLEAN] /\ raced \in BOOLEAN
  BY DEF Init, Location
<1>4. /\ runAge \in [Proc -> Age(MaxRun)] /\ sinceOk \in Age(MinInterval)
      /\ okAge \in [Proc -> Age(MinInterval)]
      /\ executed \in [RunId -> Nat] /\ forgotten \subseteq RunId
      /\ crashes \in 0..MaxCrashes
  BY <1>1 DEF Init
<1>5. QED
  BY <1>2, <1>3, <1>4 DEF TypeOK

LEMMA WriteFileType ==
    ASSUME TypeOK, NEW p \in Proc, WriteFile(p)
    PROVE  /\ file' \in CycleState
           /\ stale' \in [Proc -> BOOLEAN]
           /\ forgotten' \subseteq RunId
<1>1. file \in CycleState /\ mem[p] \in CycleState
  BY DEF TypeOK
<1>2. Rows(file) \subseteq RunId
  BY <1>1, RowsType
<1>3. QED
  BY <1>1, <1>2 DEF WriteFile, TypeOK

LEMMA EndType ==
    ASSUME CycleAssumption, TypeOK, NEW p \in Proc, NEW l \in Location, End(p, l)
    PROVE  /\ pc' \in [Proc -> Location]
           /\ mem' \in [Proc -> CycleState]
           /\ ok' \in [Proc -> BOOLEAN]
           /\ runAge' \in [Proc -> Age(MaxRun)]
           /\ okAge' \in [Proc -> Age(MinInterval)]
<1>1. 0 \in Age(MaxRun) /\ MinInterval \in Age(MinInterval)
  BY DEF CycleAssumption, Age
<1>2. QED
  BY <1>1, InitialType DEF End, Goto, TypeOK

LEMMA FinaliseType ==
    ASSUME CycleAssumption, TypeOK, NEW p \in Proc, NEW success \in BOOLEAN,
           Finalise(p, success)
    PROVE  mem' \in [Proc -> CycleState] /\ okAge' \in [Proc -> Age(MinInterval)]
<1>1. mem[p] \in CycleState /\ RunOf[p] \in RunId /\ 0 \in Age(MinInterval)
  BY DEF TypeOK, CycleAssumption, Age
<1>2. FinalState(mem[p], RunOf[p], success) \in CycleState
  BY <1>1, FinalType
<1>3. QED
  BY <1>1, <1>2 DEF Finalise, TypeOK

LEMMA TypeStep ==
    ASSUME CycleAssumption, TypeOK, NEW p \in Proc, Step(p) \/ Crash(p)
    PROVE  TypeOK'
<1> USE DEF TypeOK, Goto
<1>1. CASE Load(p)
  BY <1>1 DEF Load, Location
<1>2. CASE Refuse(p)
  BY <1>2, EndType DEF Refuse, history, Location
<1>3. CASE GuardAndMark(p)
  <2>1. mem[p] \in CycleState /\ RunOf[p] \in RunId
    BY DEF CycleAssumption
  <2>2. MarkedState(mem[p], RunOf[p]) \in CycleState
    BY <2>1, MarkedType
  <2>3. QED
    BY <1>3, <2>2 DEF GuardAndMark, history, Location, Marked
<1>4. CASE WriteMark(p)
  BY <1>4, WriteFileType DEF WriteMark, Location, Marked
<1>5. CASE HoldBlocked(p)
  BY <1>5 DEF HoldBlocked, history, Location, Marked
<1>6. CASE ExecRefused(p)
  BY <1>6 DEF ExecRefused, history, Location, Marked
<1>7. CASE StartCommand(p)
  <2>1. executed' \in [RunId -> Nat]
    BY <1>7 DEF StartCommand, CycleAssumption
  <2>2. QED
    BY <1>7, <2>1 DEF StartCommand, Location, Marked
<1>8. CASE EndCommand(p)
  BY <1>8 DEF EndCommand, history, Location, Marked
<1>9. CASE Report(p)
  <2>1. PICK success \in {FALSE, ok[p]} : Finalise(p, success)
    BY <1>9 DEF Report
  <2>2. success \in BOOLEAN
    OBVIOUS
  <2>3. mem' \in [Proc -> CycleState] /\ okAge' \in [Proc -> Age(MinInterval)]
    BY <2>1, <2>2, FinaliseType
  <2>4. QED
    BY <1>9, <2>3 DEF Report, history, Location, Marked
<1>10. CASE HoldReport(p)
  <2>1. CASE Finalise(p, FALSE) /\ Goto(p, "held") /\ UNCHANGED <<ok, runAge>>
    <3>1. mem' \in [Proc -> CycleState] /\ okAge' \in [Proc -> Age(MinInterval)]
      BY <2>1, FinaliseType
    <3>2. QED
      BY <1>10, <2>1, <3>1 DEF HoldReport, history, Location, Marked
  <2>2. CASE End(p, "dead")
    BY <1>10, <2>2, EndType DEF HoldReport, history, Location
  <2>3. QED
    BY <1>10, <2>1, <2>2 DEF HoldReport
<1>11. CASE WriteFinal(p)
  <2>1. sinceOk' \in Age(MinInterval)
    BY <1>11 DEF WriteFinal
  <2>2. QED
    BY <1>11, <2>1, WriteFileType, EndType DEF WriteFinal, Location
<1>12. CASE WriteFinalFails(p)
  <2>1. CASE Finalise(p, FALSE) /\ Goto(p, "retrying") /\ UNCHANGED <<ok, runAge>>
    <3>1. mem' \in [Proc -> CycleState] /\ okAge' \in [Proc -> Age(MinInterval)]
      BY <2>1, FinaliseType
    <3>2. QED
      BY <1>12, <2>1, <3>1 DEF WriteFinalFails, history, Location, Marked
  <2>2. CASE End(p, "dead")
    BY <1>12, <2>2, EndType DEF WriteFinalFails, history, Location
  <2>3. QED
    BY <1>12, <2>1, <2>2 DEF WriteFinalFails
<1>13. CASE Crash(p)
  <2>1. crashes' \in 0..MaxCrashes
    BY <1>13 DEF Crash, CycleAssumption
  <2>2. QED
    BY <1>13, <2>1, EndType DEF Crash, Location
<1>14. QED
  BY <1>1, <1>2, <1>3, <1>4, <1>5, <1>6, <1>7, <1>8, <1>9, <1>10, <1>11, <1>12,
     <1>13 DEF Step

LEMMA TypeTick == ASSUME CycleAssumption, TypeOK, Tick PROVE TypeOK'
<1>1. file' \in CycleState /\ mem' \in [Proc -> CycleState]
  BY OlderType DEF Tick, TypeOK
<1>2. runAge' \in [Proc -> Age(MaxRun)]
  <2>1. ASSUME NEW p \in Proc
        PROVE (IF pc[p] \in Marked THEN runAge[p] + 1 ELSE runAge[p]) \in Age(MaxRun)
    <3>1. runAge[p] \in 0..MaxRun /\ MaxRun \in Nat
      BY DEF TypeOK, CycleAssumption, Age
    <3>2. pc[p] \in Marked => runAge[p] < MaxRun
      BY DEF Tick
    <3>3. QED
      BY <3>1, <3>2 DEF Age
  <2>2. QED
    BY <2>1 DEF Tick
<1>3. sinceOk' \in Age(MinInterval) /\ okAge' \in [Proc -> Age(MinInterval)]
  BY DEF Tick, TypeOK, Older, Age, CycleAssumption
<1>4. QED
  BY <1>1, <1>2, <1>3 DEF Tick, TypeOK

(* Every variable keeps its type: in particular the bound on a run's age,  *)
(* which the argument about the lock's expiry needs.                       *)
THEOREM TypeCorrect == Spec => []TypeOK
<1>1. Init => TypeOK
  BY TypeInit, CycleAssumption
<1>2. TypeOK /\ [Next]_vars => TypeOK'
  <2>1. CASE UNCHANGED vars
    BY <2>1 DEF vars, history, TypeOK
  <2>2. QED
    BY <2>1, TypeStep, TypeTick, CycleAssumption DEF Next
<1>3. QED
  BY <1>1, <1>2, PTL DEF Spec

-----------------------------------------------------------------------------
(* The lock.  In a file that no marking process overwrote unseen, a live   *)
(* run is the active one, its lock is no older than the run, its row is    *)
(* there, and the interval since the last success has passed; a copy that  *)
(* is not stale is the file, and one that is marked and not stale was      *)
(* marked when nothing was live.                                           *)

LiveRecorded ==
    \A p \in Proc : Live(p) =>
        /\ file.active = RunOf[p]
        /\ file.activeAge <= runAge[p]
        /\ RunOf[p] \in Rows(file)
        /\ sinceOk >= MinInterval

CopyFresh == \A p \in Proc : pc[p] = "loaded" /\ ~stale[p] => mem[p] = file

MarkFresh ==
    \A p \in Proc : pc[p] = "marking" /\ ~stale[p] =>
        /\ \A q \in Proc : ~Live(q)
        /\ mem[p].active = RunOf[p]
        /\ mem[p].activeAge <= runAge[p]
        /\ RunOf[p] \in Rows(mem[p])
        /\ sinceOk >= MinInterval

LockInv ==
    ~raced => /\ \A p, q \in Proc : Live(p) /\ Live(q) => p = q
              /\ LiveRecorded
              /\ CopyFresh
              /\ MarkFresh
              /\ file.liveAge <= sinceOk

LEMMA LockInit == ASSUME CycleAssumption PROVE Init => LockInv
<1>1. MinInterval <= MinInterval
  BY DEF CycleAssumption
<1>2. QED
  BY <1>1 DEF Init, LockInv, LiveRecorded, CopyFresh, MarkFresh, Live, Marked, InitialState

(* A live run's lock has not expired and its row is in the file, so a      *)
(* fresh copy passes the guard only when nothing is live.                  *)
LEMMA GuardSeesLive ==
    ASSUME CycleAssumption, RunsShorterThanLock, TypeOK, LockInv, ~raced,
           NEW p \in Proc, pc[p] = "loaded", ~stale[p], ~Blocked(mem[p], RunOf[p])
    PROVE  (\A q \in Proc : ~Live(q)) /\ sinceOk >= MinInterval
<1>1. mem[p] = file
  BY DEF LockInv, CopyFresh
<1>2. ASSUME NEW q \in Proc, Live(q) PROVE FALSE
  <2>1. /\ file.active = RunOf[q]
        /\ file.activeAge <= runAge[q]
        /\ RunOf[q] \in Rows(file)
    BY <1>2 DEF LockInv, LiveRecorded
  <2>2. /\ runAge[q] \in 0..MaxRun /\ file.activeAge \in 0..(LockTtl + 1)
        /\ MaxRun \in Nat /\ LockTtl \in Nat /\ MaxRun <= LockTtl
        /\ RunOf[q] # None
    BY DEF TypeOK, CycleState, Age, CycleAssumption, RunsShorterThanLock
  <2>3. file.activeAge <= LockTtl
    BY <2>1, <2>2
  <2>4. CASE RunOf[p] = RunOf[q]
    BY <1>1, <2>1, <2>4 DEF Blocked, Replayed
  <2>5. CASE RunOf[p] # RunOf[q]
    BY <1>1, <2>1, <2>2, <2>3, <2>5 DEF Blocked, Locked
  <2>6. QED
    BY <2>4, <2>5
<1>3. ~(file.liveAge < MinInterval) /\ file.liveAge <= sinceOk
  BY <1>1 DEF LockInv, Blocked, TooSoon
<1>4. file.liveAge \in 0..MinInterval /\ sinceOk \in 0..MinInterval /\ MinInterval \in Nat
  BY DEF TypeOK, CycleState, Age, CycleAssumption
<1>5. QED
  BY <1>2, <1>3, <1>4

(* A copy knows every success that its process finalised, whatever it      *)
(* loaded: its liveAge is at most the age of that success.                 *)
SuccessKnown ==
    \A p \in Proc : /\ mem[p].liveAge <= okAge[p]
                    /\ pc[p] = "idle" => okAge[p] = MinInterval

LEMMA SuccessInit == ASSUME CycleAssumption PROVE Init => SuccessKnown
<1> SUFFICES ASSUME Init, NEW p \in Proc
             PROVE  mem[p].liveAge <= okAge[p] /\ okAge[p] = MinInterval
  BY DEF SuccessKnown
<1>1. mem[p] = InitialState /\ okAge[p] = MinInterval /\ MinInterval \in Nat
  BY DEF Init, CycleAssumption
<1>2. QED
  BY <1>1 DEF InitialState

LEMMA SuccessTick ==
    ASSUME CycleAssumption, TypeOK, SuccessKnown, Tick
    PROVE  SuccessKnown'
<1> SUFFICES ASSUME NEW p \in Proc
             PROVE  /\ mem'[p].liveAge <= okAge'[p]
                    /\ pc[p] = "idle" => okAge'[p] = MinInterval
  BY DEF SuccessKnown, Tick
<1>1. /\ mem[p] \in CycleState /\ mem[p].liveAge <= okAge[p]
      /\ pc[p] = "idle" => okAge[p] = MinInterval
  BY DEF TypeOK, SuccessKnown
<1>2. /\ mem[p].liveAge \in 0..MinInterval /\ okAge[p] \in 0..MinInterval
      /\ MinInterval \in Nat
  BY <1>1 DEF TypeOK, CycleState, Age, CycleAssumption
<1>3. /\ mem'[p].liveAge = Older(mem[p].liveAge, MinInterval)
      /\ okAge'[p] = Older(okAge[p], MinInterval)
  BY <1>1, OlderType DEF Tick
<1>4. QED
  BY <1>1, <1>2, <1>3 DEF Older

(* A step leaves the copy and the age alone; or it ends the process, loads *)
(* the file, marks the copy or finalises it.                               *)
LEMMA SuccessStep ==
    ASSUME CycleAssumption, TypeOK, SuccessKnown, NEW p \in Proc, Step(p) \/ Crash(p)
    PROVE  SuccessKnown'
<1> USE DEF Goto
<1>a. /\ mem \in [Proc -> CycleState] /\ okAge \in [Proc -> 0..MinInterval]
      /\ pc \in [Proc -> Location] /\ file \in CycleState /\ ok \in [Proc -> BOOLEAN]
      /\ MinInterval \in Nat /\ RunOf[p] \in RunId
  BY DEF TypeOK, Age, CycleAssumption
<1>b. ASSUME NEW location, End(p, location) PROVE SuccessKnown'
  <2>1. mem'[p] = InitialState /\ okAge'[p] = MinInterval
    BY <1>a, <1>b DEF End
  <2>2. \A q \in Proc \ {p} : mem'[q] = mem[q] /\ okAge'[q] = okAge[q] /\ pc'[q] = pc[q]
    BY <1>a, <1>b DEF End
  <2>3. mem'[p].liveAge <= okAge'[p]
    BY <1>a, <2>1 DEF InitialState
  <2>4. QED
    BY <2>1, <2>2, <2>3 DEF SuccessKnown
<1>c. ASSUME NEW success \in BOOLEAN, Finalise(p, success),
             NEW location \in Marked, pc' = [pc EXCEPT ![p] = location]
      PROVE  SuccessKnown'
  <2>1. mem'[p].liveAge = IF success THEN 0 ELSE mem[p].liveAge
    BY <1>a, <1>c DEF Finalise, FinalState
  <2>2. okAge'[p] = IF success THEN 0 ELSE okAge[p]
    BY <1>a, <1>c DEF Finalise
  <2>3. \A q \in Proc \ {p} : mem'[q] = mem[q] /\ okAge'[q] = okAge[q] /\ pc'[q] = pc[q]
    BY <1>a, <1>c DEF Finalise
  <2>4. mem'[p].liveAge <= okAge'[p] /\ pc'[p] # "idle"
    BY <1>a, <1>c, <2>1, <2>2 DEF SuccessKnown, Marked
  <2>5. QED
    BY <2>3, <2>4 DEF SuccessKnown
<1>d. ASSUME mem' = mem, okAge' = okAge,
             NEW location \in Marked, pc' = [pc EXCEPT ![p] = location]
      PROVE  SuccessKnown'
  BY <1>a, <1>d DEF SuccessKnown, Marked
<1>1. CASE Load(p)
  <2>1. /\ pc[p] = "idle" /\ okAge' = okAge
        /\ mem'[p] = file /\ pc'[p] = "loaded"
        /\ \A q \in Proc \ {p} : mem'[q] = mem[q] /\ pc'[q] = pc[q]
    BY <1>1, <1>a DEF Load
  <2>2. file.liveAge \in 0..MinInterval
    BY <1>a DEF CycleState, Age
  <2>3. mem'[p].liveAge <= okAge'[p]
    BY <1>a, <2>1, <2>2 DEF SuccessKnown
  <2>4. QED
    BY <2>1, <2>3 DEF SuccessKnown
<1>2. CASE GuardAndMark(p)
  <2>1. /\ okAge' = okAge
        /\ mem'[p] = MarkedState(mem[p], RunOf[p]) /\ pc'[p] = "marking"
        /\ \A q \in Proc \ {p} : mem'[q] = mem[q] /\ pc'[q] = pc[q]
    BY <1>2, <1>a DEF GuardAndMark
  <2>2. MarkedState(mem[p], RunOf[p]).liveAge = mem[p].liveAge
    BY <1>a, MarkedType
  <2>3. QED
    BY <2>1, <2>2 DEF SuccessKnown
<1>3. CASE Report(p)
  <2>1. PICK success \in {FALSE, ok[p]} : Finalise(p, success)
    BY <1>3 DEF Report
  <2>2. success \in BOOLEAN
    BY <1>a
  <2>3. QED
    BY <1>3, <1>c, <2>1, <2>2 DEF Report, Marked
<1>4. CASE HoldReport(p) \/ WriteFinalFails(p)
  BY <1>4, <1>b, <1>c DEF HoldReport, WriteFinalFails, Marked
<1>5. CASE Refuse(p) \/ WriteFinal(p) \/ Crash(p)
  BY <1>5, <1>b DEF Refuse, WriteFinal, Crash
<1>6. CASE WriteMark(p) \/ HoldBlocked(p) \/ ExecRefused(p) \/ StartCommand(p)
           \/ EndCommand(p)
  BY <1>6, <1>d DEF WriteMark, HoldBlocked, ExecRefused, StartCommand, EndCommand, Marked
<1>7. QED
  BY <1>1, <1>2, <1>3, <1>4, <1>5, <1>6 DEF Step

LEMMA LockTick ==
    ASSUME CycleAssumption, TypeOK, LockInv, Tick
    PROVE  LockInv'
<1> SUFFICES ASSUME ~raced PROVE LockInv'
  BY DEF Tick, LockInv
<1>1. /\ file' = OlderState(file)
      /\ \A p \in Proc : mem'[p] = OlderState(mem[p])
      /\ file \in CycleState /\ \A p \in Proc : mem[p] \in CycleState
      /\ pc' = pc /\ stale' = stale /\ raced' = raced
  BY DEF Tick, TypeOK
<1>2. \A s \in CycleState : Rows(OlderState(s)) = Rows(s)
  BY OlderType DEF Rows
<1>3. \A p \in Proc : Live(p)' <=> Live(p)
  BY <1>1 DEF Live
<1>4. \A p \in Proc : pc[p] \in Marked =>
          runAge'[p] = runAge[p] + 1 /\ runAge[p] \in Int
  BY DEF Tick, TypeOK, Age, CycleAssumption
<1>5. sinceOk' = Older(sinceOk, MinInterval) /\ sinceOk \in 0..MinInterval
      /\ MinInterval \in Nat
  BY DEF Tick, TypeOK, Age, CycleAssumption
<1>6. sinceOk >= MinInterval => sinceOk' >= MinInterval
  BY <1>5 DEF Older
<1>7. \A p, q \in Proc : Live(p)' /\ Live(q)' => p = q
  BY <1>3 DEF LockInv
<1>8. LiveRecorded'
  <2> SUFFICES ASSUME NEW p \in Proc, Live(p)
               PROVE  /\ file'.active = RunOf[p]
                      /\ file'.activeAge <= runAge'[p]
                      /\ RunOf[p] \in Rows(file')
                      /\ sinceOk' >= MinInterval
    BY <1>3 DEF LiveRecorded
  <2>1. /\ file.active = RunOf[p] /\ file.activeAge <= runAge[p]
        /\ RunOf[p] \in Rows(file) /\ sinceOk >= MinInterval
    BY DEF LockInv, LiveRecorded
  <2>2. file'.active = file.active /\ file'.activeAge <= file.activeAge + 1
        /\ Rows(file') = Rows(file)
    BY <1>1, <1>2, OlderType
  <2>3. file.activeAge \in Int /\ file'.activeAge \in Int
    BY <1>1, OlderType DEF CycleState, Age, CycleAssumption
  <2>4. runAge'[p] = runAge[p] + 1 /\ runAge[p] \in Int
    BY <1>4 DEF Live
  <2>5. QED
    BY <1>6, <2>1, <2>2, <2>3, <2>4
<1>9. CopyFresh'
  BY <1>1 DEF LockInv, CopyFresh
<1>10. MarkFresh'
  <2> SUFFICES ASSUME NEW p \in Proc, pc[p] = "marking", ~stale[p]
               PROVE  /\ \A q \in Proc : ~Live(q)
                      /\ mem'[p].active = RunOf[p]
                      /\ mem'[p].activeAge <= runAge'[p]
                      /\ RunOf[p] \in Rows(mem'[p])
                      /\ sinceOk' >= MinInterval
    BY <1>1, <1>3 DEF MarkFresh
  <2>1. /\ \A q \in Proc : ~Live(q)
        /\ mem[p].active = RunOf[p] /\ mem[p].activeAge <= runAge[p]
        /\ RunOf[p] \in Rows(mem[p]) /\ sinceOk >= MinInterval
    BY DEF LockInv, MarkFresh
  <2>2. mem'[p].active = mem[p].active /\ mem'[p].activeAge <= mem[p].activeAge + 1
        /\ Rows(mem'[p]) = Rows(mem[p])
    BY <1>1, <1>2, OlderType
  <2>3. mem[p].activeAge \in Int /\ mem'[p].activeAge \in Int
    <3>1. mem[p] \in CycleState /\ mem'[p] \in CycleState
      BY <1>1, OlderType
    <3>2. LockTtl \in Nat
      BY DEF CycleAssumption
    <3>3. QED
      BY <3>1, <3>2 DEF CycleState, Age
  <2>4. runAge'[p] = runAge[p] + 1 /\ runAge[p] \in Int
    BY <1>4 DEF Marked
  <2>5. QED
    BY <1>6, <2>1, <2>2, <2>3, <2>4
<1>11. file'.liveAge <= sinceOk'
  <2>1. file.liveAge \in 0..MinInterval /\ file.liveAge <= sinceOk
    BY <1>1 DEF CycleState, Age, LockInv
  <2>2. file'.liveAge = Older(file.liveAge, MinInterval)
    BY <1>1, OlderType
  <2>3. QED
    BY <1>5, <2>1, <2>2 DEF Older
<1>12. QED
  BY <1>7, <1>8, <1>9, <1>10, <1>11 DEF LockInv

(* A step that leaves the file, the history of staleness and success, the  *)
(* copies and places of the other processes alone, and takes p from one    *)
(* place to another in which it is live, or not, as before, or ends it.    *)
LEMMA LockLocal ==
    ASSUME CycleAssumption, TypeOK, LockInv, NEW p \in Proc,
           UNCHANGED <<file, stale, raced, sinceOk>>,
           \A q \in Proc \ {p} : /\ pc'[q] = pc[q] /\ mem'[q] = mem[q]
                                  /\ runAge'[q] = runAge[q],
           Live(p)' => Live(p) /\ runAge'[p] = runAge[p],
           pc'[p] \notin {"loaded", "marking"}
    PROVE  LockInv'
<1> SUFFICES ASSUME ~raced PROVE LockInv'
  BY DEF LockInv
<1>1. \A q \in Proc : Live(q)' => Live(q) /\ runAge'[q] = runAge[q]
  BY DEF Live
<1>2. \A q, r \in Proc : Live(q)' /\ Live(r)' => q = r
  BY <1>1 DEF LockInv
<1>3. LiveRecorded'
  BY <1>1 DEF LockInv, LiveRecorded
<1>4. CopyFresh'
  BY DEF LockInv, CopyFresh
<1>5. MarkFresh'
  BY <1>1 DEF LockInv, MarkFresh
<1>6. QED
  BY <1>2, <1>3, <1>4, <1>5 DEF LockInv

LEMMA LockStep ==
    ASSUME CycleAssumption, RunsShorterThanLock, TypeOK, SuccessKnown, LockInv,
           NEW p \in Proc, Step(p) \/ Crash(p)
    PROVE  LockInv'
<1> USE DEF Goto
<1>a. pc \in [Proc -> Location] /\ mem \in [Proc -> CycleState]
      /\ runAge \in [Proc -> Age(MaxRun)] /\ stale \in [Proc -> BOOLEAN]
  BY DEF TypeOK
<1>b. ASSUME NEW l \in {"idle", "done", "dead"}, End(p, l),
             UNCHANGED <<file, stale, raced, sinceOk>>
      PROVE  LockInv'
  <2>1. pc'[p] = l /\ ~Live(p)'
    BY <1>a, <1>b DEF End, Live, Marked
  <2>2. \A q \in Proc \ {p} : pc'[q] = pc[q] /\ mem'[q] = mem[q] /\ runAge'[q] = runAge[q]
    BY <1>a, <1>b DEF End
  <2>3. QED
    BY <1>b, <2>1, <2>2, LockLocal
<1>c. ASSUME NEW l \in Marked \ {"marking"}, pc'[p] = l, Live(p),
             UNCHANGED <<file, stale, raced, sinceOk, runAge>>,
             \A q \in Proc \ {p} : pc'[q] = pc[q] /\ mem'[q] = mem[q]
      PROVE  LockInv'
  BY <1>c, LockLocal DEF Marked
<1>1. CASE Load(p)
  <2> SUFFICES ASSUME ~raced PROVE LockInv'
    BY <1>1 DEF Load, LockInv
  <2>1. \A q \in Proc : Live(q)' <=> Live(q)
    BY <1>1, <1>a DEF Load, Live, Marked
  <2>2. mem'[p] = file' /\ pc'[p] = "loaded"
    BY <1>1, <1>a DEF Load
  <2>3. \A q \in Proc \ {p} : mem'[q] = mem[q] /\ pc'[q] = pc[q] /\ stale'[q] = stale[q]
    BY <1>1, <1>a DEF Load
  <2>4. LiveRecorded'
    BY <1>1, <2>1 DEF LockInv, LiveRecorded, Load
  <2>5. CopyFresh'
    BY <1>1, <2>2, <2>3 DEF LockInv, CopyFresh, Load
  <2>6. MarkFresh'
    BY <1>1, <2>1, <2>2, <2>3 DEF LockInv, MarkFresh, Load
  <2>7. QED
    BY <1>1, <2>1, <2>4, <2>5, <2>6 DEF LockInv, Load
<1>2. CASE Refuse(p)
  BY <1>2, <1>b DEF Refuse, history
<1>3. CASE GuardAndMark(p)
  <2> SUFFICES ASSUME ~raced PROVE LockInv'
    BY <1>3 DEF GuardAndMark, LockInv, history
  <2>1. \A q \in Proc : Live(q)' <=> Live(q)
    BY <1>3, <1>a DEF GuardAndMark, Live, Marked
  <2>2. \A q \in Proc \ {p} : mem'[q] = mem[q] /\ pc'[q] = pc[q]
    BY <1>3, <1>a DEF GuardAndMark
  <2>3. pc'[p] = "marking" /\ mem'[p] = MarkedState(mem[p], RunOf[p])
    BY <1>3, <1>a DEF GuardAndMark
  <2>4. /\ mem'[p].active = RunOf[p] /\ mem'[p].activeAge = 0
        /\ RunOf[p] \in Rows(mem'[p])
    BY <2>3, <1>a, MarkedType DEF CycleAssumption
  <2>5. 0 <= runAge[p]
    BY <1>a DEF Age, CycleAssumption
  <2>6. ~stale[p] => (\A q \in Proc : ~Live(q)) /\ sinceOk >= MinInterval
    BY <1>3, GuardSeesLive DEF GuardAndMark
  <2>7. UNCHANGED <<file, runAge, stale, raced, sinceOk>>
    BY <1>3 DEF GuardAndMark, history
  <2>8. LiveRecorded'
    BY <2>1, <2>7 DEF LockInv, LiveRecorded
  <2>9. CopyFresh'
    BY <2>2, <2>3, <2>7 DEF LockInv, CopyFresh
  <2>10. MarkFresh'
    <3> SUFFICES ASSUME NEW r \in Proc, pc'[r] = "marking", ~stale[r]
                 PROVE  /\ \A q \in Proc : ~Live(q)
                        /\ mem'[r].active = RunOf[r]
                        /\ mem'[r].activeAge <= runAge[r]
                        /\ RunOf[r] \in Rows(mem'[r])
                        /\ sinceOk >= MinInterval
      BY <2>1, <2>7 DEF MarkFresh
    <3>1. CASE r = p
      BY <2>4, <2>5, <2>6, <3>1
    <3>2. CASE r # p
      BY <2>2, <3>2 DEF LockInv, MarkFresh
    <3>3. QED
      BY <3>1, <3>2
  <2>11. QED
    BY <2>1, <2>7, <2>8, <2>9, <2>10 DEF LockInv
<1>4. CASE WriteMark(p)
  <2> SUFFICES ASSUME ~raced, ~stale[p] PROVE LockInv'
    BY <1>4 DEF WriteMark, LockInv
  <2>1. /\ \A q \in Proc : ~Live(q)
        /\ mem[p].active = RunOf[p] /\ mem[p].activeAge <= runAge[p]
        /\ RunOf[p] \in Rows(mem[p]) /\ sinceOk >= MinInterval
    BY <1>4 DEF WriteMark, LockInv, MarkFresh
  <2>2. \A q \in Proc : Live(q)' => q = p
    BY <1>4, <1>a, <2>1 DEF WriteMark, Live
  <2>3. file' = mem[p] /\ UNCHANGED <<mem, runAge, sinceOk>>
    BY <1>4 DEF WriteMark, WriteFile
  <2>4. \A q \in Proc : pc'[q] \in {"loaded", "marking"} => stale'[q]
    BY <1>4, <1>a DEF WriteMark, WriteFile
  <2>5. mem[p].liveAge <= sinceOk
    <3>1. mem[p].liveAge \in 0..MinInterval
      BY <1>a DEF CycleState, Age
    <3>2. sinceOk \in 0..MinInterval /\ MinInterval \in Nat
      BY DEF TypeOK, Age, CycleAssumption
    <3>3. QED
      BY <2>1, <3>1, <3>2
  <2>6. LiveRecorded'
    BY <2>1, <2>2, <2>3 DEF LiveRecorded
  <2>7. CopyFresh' /\ MarkFresh'
    BY <2>4 DEF CopyFresh, MarkFresh
  <2>8. QED
    BY <2>2, <2>3, <2>5, <2>6, <2>7 DEF LockInv
<1>5. CASE HoldBlocked(p)
  BY <1>5, <1>a, <1>c DEF HoldBlocked, history, Live, Marked
<1>6. CASE ExecRefused(p)
  BY <1>6, <1>a, <1>c DEF ExecRefused, history, Live, Marked
<1>7. CASE StartCommand(p)
  BY <1>7, <1>a, <1>c DEF StartCommand, history, Live, Marked
<1>8. CASE EndCommand(p)
  BY <1>8, <1>a, <1>c DEF EndCommand, history, Live, Marked
<1>9. CASE Report(p)
  BY <1>9, <1>a, <1>c DEF Report, Finalise, history, Live, Marked
<1>10. CASE HoldReport(p)
  <2>1. CASE Finalise(p, FALSE) /\ Goto(p, "held") /\ UNCHANGED <<ok, runAge>>
    BY <1>10, <2>1, <1>a, <1>c DEF HoldReport, Finalise, history, Live, Marked
  <2>2. CASE End(p, "dead")
    BY <1>10, <2>2, <1>b DEF HoldReport, history
  <2>3. QED
    BY <1>10, <2>1, <2>2 DEF HoldReport
<1>11. CASE WriteFinal(p)
  <2> SUFFICES ASSUME ~raced PROVE LockInv'
    BY <1>11 DEF WriteFinal, LockInv
  <2>1. Live(p) /\ \A q \in Proc : Live(q) => q = p
    BY <1>11 DEF WriteFinal, Live, Marked, LockInv
  <2>2. \A q \in Proc : ~Live(q)'
    BY <1>11, <1>a, <2>1 DEF WriteFinal, End, Live, Marked
  <2>3. \A q \in Proc : pc'[q] \in {"loaded", "marking"} => stale'[q]
    BY <1>11, <1>a DEF WriteFinal, End, WriteFile
  <2>4. file'.liveAge <= sinceOk'
    <3>1. mem[p].liveAge \in 0..MinInterval /\ mem[p].liveAge <= okAge[p]
      BY <1>a DEF CycleState, Age, SuccessKnown
    <3>2. /\ sinceOk \in 0..MinInterval /\ MinInterval \in Nat
          /\ okAge[p] \in 0..MinInterval
      BY DEF TypeOK, Age, CycleAssumption
    <3>3. file' = mem[p] /\ sinceOk' = IF okAge[p] < sinceOk THEN okAge[p] ELSE sinceOk
      BY <1>11 DEF WriteFinal, WriteFile
    <3>4. sinceOk >= MinInterval
      BY <2>1 DEF LockInv, LiveRecorded
    <3>5. QED
      BY <3>1, <3>2, <3>3, <3>4
  <2>5. LiveRecorded' /\ CopyFresh' /\ MarkFresh'
    BY <2>2, <2>3 DEF LiveRecorded, CopyFresh, MarkFresh
  <2>6. QED
    BY <2>2, <2>4, <2>5 DEF LockInv
<1>12. CASE WriteFinalFails(p)
  <2>1. CASE Finalise(p, FALSE) /\ Goto(p, "retrying") /\ UNCHANGED <<ok, runAge>>
             /\ pc[p] = "finalised"
    BY <1>12, <2>1, <1>a, <1>c DEF WriteFinalFails, Finalise, history, Live, Marked
  <2>2. CASE End(p, "dead")
    BY <1>12, <2>2, <1>b DEF WriteFinalFails, history
  <2>3. QED
    BY <1>12, <2>1, <2>2 DEF WriteFinalFails
<1>13. CASE Crash(p)
  BY <1>13, <1>b DEF Crash
<1>14. QED
  BY <1>1, <1>2, <1>3, <1>4, <1>5, <1>6, <1>7, <1>8, <1>9, <1>10, <1>11, <1>12,
     <1>13 DEF Step

-----------------------------------------------------------------------------
(* The replay rows.  A run-id whose row was not dropped has been executed  *)
(* at most once, its row is in the file once it has, and a run that is     *)
(* about to start its command is the first of its run-id.                  *)

AboutToStart(p) == pc[p] = "marked" \/ (pc[p] = "marking" /\ ~stale[p])

CommandInv ==
    ~raced => \A r \in RunId \ forgotten :
        /\ executed[r] <= 1
        /\ executed[r] >= 1 => r \in Rows(file)
        /\ \A p \in Proc : AboutToStart(p) /\ RunOf[p] = r => executed[r] = 0

(* A step that starts no command and writes no file.                       *)
LEMMA CommandLocal ==
    ASSUME CommandInv, UNCHANGED <<raced, executed, forgotten>>, Rows(file') = Rows(file),
           \A p \in Proc : AboutToStart(p)' => AboutToStart(p)
    PROVE  CommandInv'
BY DEF CommandInv

(* A write: what it drops is forgotten, and every other copy is stale.     *)
LEMMA CommandWrite ==
    ASSUME TypeOK, CommandInv, NEW p \in Proc, WriteFile(p), UNCHANGED <<executed, raced>>,
           \A q \in Proc : AboutToStart(q)' => AboutToStart(q)
    PROVE  CommandInv'
<1> SUFFICES ASSUME ~raced, NEW r \in RunId, r \notin forgotten'
             PROVE  /\ executed[r] <= 1
                    /\ executed[r] >= 1 => r \in Rows(file')
                    /\ \A q \in Proc : AboutToStart(q)' /\ RunOf[q] = r => executed[r] = 0
  BY DEF CommandInv
<1>1. r \notin forgotten /\ (r \in Rows(file) => r \in Rows(file'))
  BY DEF WriteFile
<1>2. QED
  BY <1>1 DEF CommandInv

LEMMA CommandStep ==
    ASSUME CycleAssumption, TypeOK, LockInv, CommandInv, NEW p \in Proc,
           Step(p) \/ Crash(p)
    PROVE  CommandInv'
<1> USE DEF Goto
<1>a. pc \in [Proc -> Location] /\ stale \in [Proc -> BOOLEAN]
      /\ executed \in [RunId -> Nat] /\ RunOf \in [Proc -> RunId]
  BY DEF TypeOK, CycleAssumption
<1>b. ASSUME pc' = [pc EXCEPT ![p] = pc'[p]], pc'[p] \notin {"marking", "marked"},
             stale' = [stale EXCEPT ![p] = stale'[p]],
             UNCHANGED <<file, raced, executed, forgotten>>
      PROVE  CommandInv'
  <2>1. \A q \in Proc : AboutToStart(q)' => AboutToStart(q)
    BY <1>a, <1>b DEF AboutToStart
  <2>2. QED
    BY <1>b, <2>1, CommandLocal
<1>1. CASE Load(p)
  BY <1>1, <1>a, <1>b DEF Load
<1>2. CASE Refuse(p)
  BY <1>2, <1>a, <1>b DEF Refuse, End, history
<1>3. CASE GuardAndMark(p)
  <2> SUFFICES ASSUME ~raced, NEW r \in RunId \ forgotten
               PROVE  /\ executed[r] <= 1
                      /\ executed[r] >= 1 => r \in Rows(file)
                      /\ \A q \in Proc : AboutToStart(q)' /\ RunOf[q] = r => executed[r] = 0
    BY <1>3 DEF GuardAndMark, CommandInv, history
  <2>1. /\ executed[r] <= 1
        /\ executed[r] >= 1 => r \in Rows(file)
        /\ \A q \in Proc : AboutToStart(q) /\ RunOf[q] = r => executed[r] = 0
    BY DEF CommandInv
  <2>2. ASSUME NEW q \in Proc, AboutToStart(q)', RunOf[q] = r PROVE executed[r] = 0
    <3>1. CASE q # p
      BY <1>3, <1>a, <2>1, <2>2, <3>1 DEF GuardAndMark, AboutToStart, history
    <3>2. CASE q = p
      <4>1. ~stale[p]
        BY <1>3, <1>a, <2>2, <3>2 DEF GuardAndMark, AboutToStart, history
      <4>2. mem[p] = file
        BY <1>3, <4>1 DEF GuardAndMark, LockInv, CopyFresh
      <4>3. r \notin Rows(file)
        BY <1>3, <2>2, <3>2, <4>2 DEF GuardAndMark, Blocked, Replayed
      <4>4. ~(executed[r] >= 1) /\ executed[r] \in Nat
        BY <1>a, <2>1, <4>3
      <4>5. QED
        BY <4>4
    <3>3. QED
      BY <3>1, <3>2
  <2>3. QED
    BY <2>1, <2>2
<1>4. CASE WriteMark(p)
  <2>1. CASE raced'
    BY <2>1 DEF CommandInv
  <2>2. CASE ~raced'
    <3>1. ~raced /\ ~stale[p] /\ raced' = raced /\ WriteFile(p) /\ executed' = executed
      BY <1>4, <2>2, <1>a DEF WriteMark, TypeOK
    <3>2. ASSUME NEW q \in Proc, AboutToStart(q)' PROVE AboutToStart(q)
      <4>1. CASE q = p
        BY <1>4, <3>1, <4>1 DEF WriteMark, AboutToStart
      <4>2. CASE q # p
        <5>1. pc'[q] = pc[q] /\ (pc[q] = "marking" => stale'[q])
          BY <1>4, <1>a, <4>2 DEF WriteMark, WriteFile
        <5>2. QED
          BY <3>2, <5>1 DEF AboutToStart
      <4>3. QED
        BY <4>1, <4>2
    <3>3. QED
      BY <3>1, <3>2, CommandWrite
  <2>3. QED
    BY <2>1, <2>2
<1>5. CASE HoldBlocked(p)
  BY <1>5, <1>a, <1>b DEF HoldBlocked, history
<1>6. CASE ExecRefused(p)
  BY <1>6, <1>a, <1>b DEF ExecRefused, history
<1>7. CASE StartCommand(p)
  <2> SUFFICES ASSUME ~raced, NEW r \in RunId \ forgotten
               PROVE  /\ executed'[r] <= 1
                      /\ executed'[r] >= 1 => r \in Rows(file)
                      /\ \A q \in Proc : AboutToStart(q)' /\ RunOf[q] = r => executed'[r] = 0
    BY <1>7 DEF StartCommand, CommandInv
  <2>1. /\ executed[r] <= 1
        /\ executed[r] >= 1 => r \in Rows(file)
        /\ \A q \in Proc : AboutToStart(q) /\ RunOf[q] = r => executed[r] = 0
    BY DEF CommandInv
  <2>2. Live(p) /\ AboutToStart(p)
    <3>1. pc[p] = "marked"
      BY <1>7 DEF StartCommand
    <3>2. QED
      BY <3>1 DEF Live, Marked, AboutToStart
  <2>3. \A q \in Proc : AboutToStart(q)' => q # p /\ AboutToStart(q)
    BY <1>7, <1>a DEF StartCommand, AboutToStart
  <2>4. CASE RunOf[p] = r
    <3>1. executed'[r] = 1
      BY <1>7, <1>a, <2>1, <2>2, <2>4 DEF StartCommand
    <3>2. r \in Rows(file)
      BY <2>2, <2>4 DEF LockInv, LiveRecorded
    <3>3. \A q \in Proc : ~AboutToStart(q)'
      <4> SUFFICES ASSUME NEW q \in Proc, AboutToStart(q)' PROVE FALSE
        OBVIOUS
      <4>1. q # p /\ AboutToStart(q)
        BY <2>3
      <4>2. CASE pc[q] = "marked"
        BY <2>2, <4>1, <4>2 DEF LockInv, Live, Marked
      <4>3. CASE pc[q] = "marking" /\ ~stale[q]
        BY <2>2, <4>3 DEF LockInv, MarkFresh
      <4>4. QED
        BY <4>1, <4>2, <4>3 DEF AboutToStart
    <3>4. QED
      BY <3>1, <3>2, <3>3
  <2>5. CASE RunOf[p] # r
    <3>1. executed'[r] = executed[r]
      BY <1>7, <1>a, <2>5 DEF StartCommand
    <3>2. QED
      BY <2>1, <2>3, <3>1
  <2>6. QED
    BY <2>4, <2>5
<1>8. CASE EndCommand(p)
  BY <1>8, <1>a, <1>b DEF EndCommand, history
<1>9. CASE Report(p)
  BY <1>9, <1>a, <1>b DEF Report, history
<1>10. CASE HoldReport(p)
  BY <1>10, <1>a, <1>b DEF HoldReport, End, history
<1>11. CASE WriteFinal(p)
  <2>1. ASSUME NEW q \in Proc, AboutToStart(q)' PROVE AboutToStart(q)
    <3>1. q # p /\ pc'[q] = pc[q] /\ (pc[q] = "marking" => stale'[q])
      BY <1>11, <1>a, <2>1 DEF WriteFinal, End, WriteFile, AboutToStart
    <3>2. QED
      BY <2>1, <3>1 DEF AboutToStart
  <2>2. QED
    BY <1>11, <2>1, CommandWrite DEF WriteFinal
<1>12. CASE WriteFinalFails(p)
  BY <1>12, <1>a, <1>b DEF WriteFinalFails, End, history
<1>13. CASE Crash(p)
  BY <1>13, <1>a, <1>b DEF Crash, End
<1>14. QED
  BY <1>1, <1>2, <1>3, <1>4, <1>5, <1>6, <1>7, <1>8, <1>9, <1>10, <1>11, <1>12,
     <1>13 DEF Step

LEMMA CommandTick ==
    ASSUME CycleAssumption, TypeOK, CommandInv, Tick
    PROVE  CommandInv'
<1>1. Rows(file') = Rows(file)
  <2>1. file \in CycleState /\ file' = OlderState(file)
    BY DEF TypeOK, Tick
  <2>2. QED
    BY <2>1, OlderType DEF Rows
<1>2. QED
  BY <1>1, CommandLocal DEF Tick, AboutToStart

IInv == TypeOK /\ SuccessKnown /\ LockInv /\ CommandInv

LEMMA InvariantHolds == Spec => []IInv
<1>1. Init => IInv
  <2>1. Init => CommandInv
    BY DEF Init, CommandInv, AboutToStart, CycleAssumption
  <2>2. QED
    BY <2>1, TypeInit, LockInit, SuccessInit, CycleAssumption DEF IInv
<1>2. IInv /\ [Next]_vars => IInv'
  <2> SUFFICES ASSUME IInv, [Next]_vars PROVE IInv'
    OBVIOUS
  <2> USE CycleAssumption, RunsShorterThanLock
  <2>1. CASE UNCHANGED vars
    <3>1. TypeOK'
      BY <2>1 DEF vars, history, TypeOK, IInv
    <3>2. LockInv'
      BY <2>1 DEF vars, history, IInv, LockInv, LiveRecorded, CopyFresh, MarkFresh, Live
    <3>3. CommandInv'
      BY <2>1 DEF vars, history, IInv, CommandInv, AboutToStart
    <3>4. SuccessKnown'
      BY <2>1 DEF vars, IInv, SuccessKnown
    <3>5. QED
      BY <3>1, <3>2, <3>3, <3>4 DEF IInv
  <2>2. CASE Tick
    BY <2>2, TypeTick, SuccessTick, LockTick, CommandTick DEF IInv
  <2>3. CASE \E p \in Proc : Step(p) \/ Crash(p)
    BY <2>3, TypeStep, SuccessStep, LockStep, CommandStep DEF IInv
  <2>4. QED
    BY <2>1, <2>2, <2>3 DEF Next
<1>3. QED
  BY <1>1, <1>2, PTL DEF Spec

(* Unless a process marked a run on a stale copy, at most one process is   *)
(* between its mark and its final write, and the command of a run-id whose *)
(* row was kept is started once, whatever crashes, failed writes and       *)
(* expired locks came before.                                              *)
THEOREM LockHolds == Spec => []UnracedLock
<1>1. IInv => OneLiveRun
  BY DEF IInv, LockInv, OneLiveRun
<1>2. IInv => CommandOnce
  BY DEF IInv, CommandInv, CommandOnce
<1>3. QED
  BY <1>1, <1>2, InvariantHolds, PTL DEF UnracedLock

(* Under the same condition no command is started within the minimum       *)
(* interval after a recorded success.                                      *)
THEOREM IntervalIsKept == Spec => IntervalKept
<1>1. IInv /\ [Next]_vars =>
          [\A p \in Proc : StartCommand(p) /\ ~raced => sinceOk >= MinInterval]_vars
  BY DEF IInv, LockInv, LiveRecorded, Live, Marked, StartCommand
<1>2. QED
  BY <1>1, InvariantHolds, PTL DEF Spec, IntervalKept
=============================================================================
