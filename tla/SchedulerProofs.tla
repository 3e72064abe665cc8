-------------------------- MODULE SchedulerProofs --------------------------
(***************************************************************************)
(* What holds of Scheduler for any number of workers, runs and faults.     *)
(***************************************************************************)
EXTENDS Scheduler, TLAPS, FiniteSetTheorems

---------------------------------------------------------------------------
(* The statements on collection_runs: what each does to a row. *)

Table == runs \in [Runs -> Row]

\* A row not added yet is a row.
LEMMA NoRowType == NoRow \in Row
BY DEF NoRow, Row, Sources

\* update_run_progress touches one row, and neither opens nor closes it.
LEMMA UpdateEffect ==
    ASSUME Table, NEW r \in Runs, runs' = UpdateRunProgress(r)
    PROVE  /\ Table'
           /\ \A q \in Runs : runs'[q].state = runs[q].state
           /\ \A q \in Runs \ {r} : runs'[q] = runs[q]
BY DEF Table, UpdateRunProgress, Row

\* finish_collection_run closes one row and leaves the others alone.
LEMMA FinishEffect ==
    ASSUME Table, NEW r \in Runs, runs' = FinishCollectionRun(r)
    PROVE  /\ Table'
           /\ runs'[r].state = "closed"
           /\ \A q \in Runs \ {r} : runs'[q] = runs[q]
BY DEF Table, FinishCollectionRun, Row

\* Closing as interrupted closes the rows it is given and leaves the others alone.
LEMMA InterruptEffect ==
    ASSUME Table, NEW R \in SUBSET Runs, runs' = Interrupt(R)
    PROVE  /\ Table'
           /\ \A q \in R : runs'[q].state = "closed"
           /\ \A q \in Runs \ R : runs'[q] = runs[q]
BY DEF Table, Interrupt, Row

\* Pausing touches open rows only, and leaves them open.
LEMMA PauseEffect ==
    ASSUME Table, runs' = PauseApifyRuns
    PROVE  /\ Table'
           /\ \A q \in Runs : runs'[q].state = runs[q].state
           /\ \A q \in Runs \ OpenRuns : runs'[q] = runs[q]
BY DEF Table, PauseApifyRuns, ApifyRunsLeft, OpenRuns, Open, Row

\* Adding a row opens it and leaves the others alone.
LEMMA AddEffect ==
    ASSUME Table, NEW r \in Runs,
           runs' = [runs EXCEPT ![r] = [NoRow EXCEPT !.state = "open", !.through = source]],
           source \in Sources
    PROVE  /\ Table'
           /\ runs'[r].state = "open"
           /\ \A q \in Runs \ {r} : runs'[q] = runs[q]
BY DEF Table, NoRow, Row

\* Setting one of a row's marks leaves its state and the other rows alone.
LEMMA MarkEffect ==
    ASSUME Table, NEW r \in Runs,
           \/ runs' = [runs EXCEPT ![r].stale = TRUE]
           \/ runs' = [runs EXCEPT ![r].stale = FALSE]
           \/ runs' = [runs EXCEPT ![r].actors = TRUE]
    PROVE  /\ Table'
           /\ \A q \in Runs : runs'[q].state = runs[q].state
           /\ \A q \in Runs \ {r} : runs'[q] = runs[q]
<1>1. CASE runs' = [runs EXCEPT ![r].stale = TRUE]
  BY <1>1 DEF Table, Row
<1>2. CASE runs' = [runs EXCEPT ![r].stale = FALSE]
  BY <1>2 DEF Table, Row
<1>3. CASE runs' = [runs EXCEPT ![r].actors = TRUE]
  BY <1>3 DEF Table, Row
<1> QED
  BY <1>1, <1>2, <1>3

(* A fault is counted within its bound. *)
LEMMA FaultEffect ==
    ASSUME faults \in FaultCount
    PROVE  Fault \/ Hiccup => faults' \in FaultCount
<1>1. faults.times \in 0..MaxFaults /\ faults.statement \in BOOLEAN
  BY DEF FaultCount
<1>2. ASSUME Fault PROVE faults' \in FaultCount
  BY <1>1, <1>2, SchedulerAssumption DEF Fault, FaultCount
<1>3. ASSUME Hiccup PROVE faults' \in FaultCount
  BY <1>1, <1>3, SchedulerAssumption DEF Hiccup, FaultCount
<1> QED
  BY <1>2, <1>3

---------------------------------------------------------------------------
(* Every variable keeps its type: no action, in any interleaving, takes a  *)
(* worker or a row outside the states the code has.                        *)
THEOREM TypeCorrect == Spec => []TypeOK
<1> USE SchedulerAssumption DEF TypeOK, Runs, NoRun
<1>1. Init => TypeOK
  <2> SUFFICES ASSUME Init PROVE TypeOK
    OBVIOUS
  <2>1. runs \in [Runs -> Row]
    BY NoRowType DEF Init
  <2>2. source \in Sources /\ opened \in 0..MaxRuns /\ faults \in FaultCount
    BY DEF Init, FaultCount
  <2>5. collectNow \in BOOLEAN
    BY Zenon DEF Init
  <2>3. /\ pc \in [Workers -> Places]
        /\ conn \in [Workers -> {"none", "live", "dead"}]
        /\ caller \in [Workers -> {"startup", "retake", "loop"}]
    BY DEF Init, Places
  <2>4. /\ run \in [Workers -> Runs \cup {NoRun}]
        /\ kept \in [Workers -> SUBSET Runs]
        /\ taken \in [Workers -> BOOLEAN]
    BY DEF Init
  <2> QED
    BY <2>1, <2>2, <2>3, <2>4, <2>5
<1>2. TypeOK /\ [Next]_vars => TypeOK'
  <2> SUFFICES ASSUME TypeOK, [Next]_vars PROVE TypeOK'
    OBVIOUS
  <2> USE DEF Goto, Places, Engaged, InRun, PostSteps, InLoop, Stopping, table
  <2>0. Table
    BY DEF Table
  <2>1. ASSUME NEW w \in Workers, Start(w) PROVE TypeOK'
    BY <2>1 DEF Start
  <2>2. ASSUME NEW w \in Workers, TryTake(w) PROVE TypeOK'
    BY <2>2 DEF TryTake
  <2>3. ASSUME NEW w \in Workers, LookForRun(w) PROVE TypeOK'
    BY <2>3 DEF LookForRun, ResumableRun, ApifyRunsLeft, OpenRuns
  <2>4. ASSUME NEW w \in Workers, CloseLeftRuns(w) PROVE TypeOK'
    <3>1. runs' \in [Runs -> Row]
      BY <2>0, <2>4, InterruptEffect DEF CloseLeftRuns, OpenRuns, Table
    <3> QED
      BY <2>4, <3>1, FaultEffect DEF CloseLeftRuns, AfterClearing
  <2>5. ASSUME NEW w \in Workers, OpenRun(w) PROVE TypeOK'
    <3>1. opened + 1 \in Runs
      BY <2>5 DEF OpenRun
    <3>2. runs' \in [Runs -> Row]
      BY <2>0, <2>5, <3>1, AddEffect DEF OpenRun, Table, Sources
    <3> QED
      BY <2>5, <3>1, <3>2, FaultEffect DEF OpenRun
  <2>6. ASSUME NEW w \in Workers, OpenNoRun(w) PROVE TypeOK'
    <3>1. taken' \in [Workers -> BOOLEAN]
      BY <2>6 DEF OpenNoRun
    <3>2. faults' \in FaultCount
      BY <2>6, FaultEffect DEF OpenNoRun
    <3> QED
      BY <2>6, <3>1, <3>2 DEF OpenNoRun
  <2>7. ASSUME NEW w \in Workers, ResumeRun(w) PROVE TypeOK'
    <3>1. runs' \in [Runs -> Row]
      BY <2>0, <2>7, MarkEffect DEF ResumeRun, Table
    <3> QED
      BY <2>7, <3>1 DEF ResumeRun
  <2>8. ASSUME NEW w \in Workers, CannotResume(w) PROVE TypeOK'
    <3>1. runs' \in [Runs -> Row]
      BY <2>0, <2>8, InterruptEffect DEF CannotResume, OpenRuns, Table
    <3> QED
      BY <2>8, <3>1, FaultEffect DEF CannotResume, Return, AfterRun
  <2>9. ASSUME NEW w \in Workers, StartActorRun(w) PROVE TypeOK'
    <3>1. runs' \in [Runs -> Row]
      BY <2>0, <2>9, MarkEffect DEF StartActorRun, Table
    <3> QED
      BY <2>9, <3>1 DEF StartActorRun
  <2>10. ASSUME NEW w \in Workers, Beat(w) PROVE TypeOK'
    <3>1. runs' \in [Runs -> Row]
      <4>1. CASE run[w] \in Runs
        BY <2>0, <2>10, <4>1, UpdateEffect DEF Beat, Table
      <4>2. CASE run[w] \notin Runs
        BY <2>10, <4>2 DEF Beat, UpdateRunProgress
      <4> QED
        BY <4>1, <4>2
    <3> QED
      BY <2>10, <3>1 DEF Beat
  <2>11. ASSUME NEW w \in Workers, FinishCollecting(w) PROVE TypeOK'
    BY <2>11 DEF FinishCollecting
  <2>12. ASSUME NEW w \in Workers, PostStep(w) PROVE TypeOK'
    <3>1. runs' \in [Runs -> Row]
      BY <2>0, <2>12, UpdateEffect DEF PostStep, Table
    <3> QED
      BY <2>12, <3>1 DEF PostStep, NextStep
  <2>13. ASSUME NEW w \in Workers, Finish(w) PROVE TypeOK'
    <3>1. runs' \in [Runs -> Row]
      BY <2>0, <2>13, FinishEffect DEF Finish, Table
    <3> QED
      BY <2>13, <3>1 DEF Finish, Return, AfterRun
  <2>14. ASSUME NEW w \in Workers, PostStepsBlowUp(w) PROVE TypeOK'
    BY <2>14, FaultEffect DEF PostStepsBlowUp, Return, AfterRun
  <2>15. ASSUME NEW w \in Workers, FinishAfterFailure(w) PROVE TypeOK'
    <3>1. runs' \in [Runs -> Row]
      <4>1. CASE run[w] \in Runs
        BY <2>0, <2>15, <4>1, FinishEffect DEF FinishAfterFailure, Table
      <4>2. CASE run[w] \notin Runs
        BY <2>15, <4>2 DEF FinishAfterFailure, FinishCollectionRun
      <4> QED
        BY <4>1, <4>2
    <3> QED
      BY <2>15, <3>1, FaultEffect DEF FinishAfterFailure, Return, AfterRun
  <2>16. ASSUME NEW w \in Workers, CheckLock(w) PROVE TypeOK'
    BY <2>16 DEF CheckLock
  <2>17. ASSUME NEW w \in Workers, CloseOrphans(w) PROVE TypeOK'
    <3>1. runs' \in [Runs -> Row]
      BY <2>0, <2>17, InterruptEffect DEF CloseOrphans, OpenRuns, Table
    <3> QED
      BY <2>17, <3>1, FaultEffect DEF CloseOrphans
  <2>18. ASSUME NEW w \in Workers, ConsumeCollectNow(w) PROVE TypeOK'
    BY <2>18 DEF ConsumeCollectNow
  <2>19. ASSUME NEW w \in Workers, Decide(w) PROVE TypeOK'
    BY <2>19 DEF Decide
  <2>20. ASSUME NEW w \in Workers, LoopHiccup(w) PROVE TypeOK'
    BY <2>20, FaultEffect DEF LoopHiccup
  <2>21. ASSUME NEW w \in Workers, Stop(w) PROVE TypeOK'
    <3>1. faults' \in FaultCount
      BY <2>21, FaultEffect DEF Stop
    <3>2. CASE conn[w] # "none"
      BY <2>21, <3>1, <3>2 DEF Stop
    <3>3. CASE conn[w] = "none"
      BY <2>21, <3>1, <3>3 DEF Stop, Gone
    <3> QED
      BY <3>2, <3>3
  <2>22. ASSUME NEW w \in Workers, PauseAtStop(w) PROVE TypeOK'
    <3>1. runs' \in [Runs -> Row]
      BY <2>0, <2>22, PauseEffect DEF PauseAtStop, Table
    <3> QED
      BY <2>22, <3>1 DEF PauseAtStop, ApifyRunsLeft, OpenRuns
  <2>23. ASSUME NEW w \in Workers, CloseAtStop(w) PROVE TypeOK'
    <3>1. runs' \in [Runs -> Row]
      BY <2>0, <2>23, InterruptEffect DEF CloseAtStop, OpenRuns, Table
    <3> QED
      BY <2>23, <3>1 DEF CloseAtStop, Gone
  <2>24. ASSUME NEW w \in Workers, StopGivesUp(w) PROVE TypeOK'
    BY <2>24, FaultEffect DEF StopGivesUp, Gone
  <2>25. ASSUME NEW w \in Workers, Crash(w) PROVE TypeOK'
    BY <2>25, FaultEffect DEF Crash, Gone
  <2>26. ASSUME NEW w \in Workers, KeepalivesExpire(w) PROVE TypeOK'
    BY <2>26 DEF KeepalivesExpire
  <2>27. ASSUME NEW w \in Workers, LoseLock(w) PROVE TypeOK'
    BY <2>27, FaultEffect DEF LoseLock
  <2>28. ASSUME NEW r \in Runs, GoStale(r) PROVE TypeOK'
    <3>1. runs' \in [Runs -> Row]
      BY <2>0, <2>28, MarkEffect DEF GoStale, Table
    <3> QED
      BY <2>28, <3>1 DEF GoStale
  <2>29. CASE RequestCollectNow
    BY <2>29 DEF RequestCollectNow
  <2>30. CASE UpdateCollectionSource
    BY <2>30 DEF UpdateCollectionSource
  <2>31. CASE UNCHANGED vars
    BY <2>31 DEF vars
  <2> QED
    BY <2>1, <2>2, <2>3, <2>4, <2>5, <2>6, <2>7, <2>8, <2>9, <2>10, <2>11, <2>12,
       <2>13, <2>14, <2>15, <2>16, <2>17, <2>18, <2>19, <2>20, <2>21, <2>22, <2>23,
       <2>24, <2>25, <2>26, <2>27, <2>28, <2>29, <2>30, <2>31
    DEF Next, WorkerStep, Work
<1> QED
  BY <1>1, <1>2, PTL DEF Spec

---------------------------------------------------------------------------
(* The lock.  Conn changes hands in few actions, so the steps are grouped. *)

\* A step that leaves every connection alone, and takes no worker from before the
\* lock to past it.
Calm(w) ==
    /\ conn' = conn
    /\ \A v \in Workers \ {w} : pc'[v] = pc[v]
    /\ pc'[w] \in Engaged \cup Stopping => pc[w] \in Engaged \cup Stopping

\* The steps that keep the locks as they are.
LEMMA CalmSteps ==
    ASSUME TypeOK, NEW w \in Workers,
           \/ LookForRun(w) \/ CloseLeftRuns(w) \/ OpenRun(w) \/ OpenNoRun(w)
           \/ ResumeRun(w) \/ CannotResume(w) \/ FinishCollecting(w) \/ PostStep(w)
           \/ Finish(w) \/ FinishAfterFailure(w) \/ CloseOrphans(w)
           \/ ConsumeCollectNow(w) \/ Decide(w) \/ PauseAtStop(w) \/ Start(w)
           \/ StartActorRun(w) \/ Beat(w) \/ PostStepsBlowUp(w) \/ LoopHiccup(w)
    PROVE  Calm(w)
<1> USE DEF Calm, TypeOK, Goto, Return, Places, Engaged, InRun, PostSteps, InLoop, Stopping
<1>1. CASE \/ LookForRun(w) \/ CloseLeftRuns(w) \/ OpenRun(w) \/ OpenNoRun(w)
           \/ ResumeRun(w) \/ FinishCollecting(w) \/ CloseOrphans(w)
           \/ ConsumeCollectNow(w) \/ Decide(w) \/ PauseAtStop(w) \/ Start(w)
           \/ StartActorRun(w) \/ Beat(w) \/ LoopHiccup(w)
  BY <1>1 DEF LookForRun, CloseLeftRuns, OpenRun, OpenNoRun, ResumeRun,
      FinishCollecting, CloseOrphans, ConsumeCollectNow, Decide, PauseAtStop, Start,
      StartActorRun, Beat, LoopHiccup
<1>2. CASE PostStep(w) \/ Finish(w) \/ CannotResume(w) \/ FinishAfterFailure(w)
           \/ PostStepsBlowUp(w)
  BY <1>2 DEF PostStep, Finish, CannotResume, FinishAfterFailure, PostStepsBlowUp
<1> QED
  BY <1>1, <1>2

(* Postgres gives the lock to one session at a time, and a worker past the *)
(* lock has not let go of its connection.                                  *)
THEOREM LockSafe == Spec => []LockInv
<1>1. Init => LockInv
  BY DEF Init, LockInv, Engaged, InRun, PostSteps, InLoop, Stopping
<1>2. TypeOK /\ LockInv /\ [Next]_vars => LockInv'
  <2> SUFFICES ASSUME TypeOK, LockInv, [Next]_vars PROVE LockInv'
    OBVIOUS
  <2>1. ASSUME NEW w \in Workers, Calm(w) PROVE LockInv'
    BY <2>1 DEF LockInv, Calm, TypeOK
  <2> USE DEF LockInv, TypeOK, Goto, Gone, Places, Engaged, InRun, PostSteps, InLoop, Stopping
  <2>2. ASSUME NEW w \in Workers, TryTake(w) PROVE LockInv'
    BY <2>2 DEF TryTake
  <2>3. ASSUME NEW w \in Workers, CheckLock(w) PROVE LockInv'
    BY <2>3 DEF CheckLock
  <2>4. ASSUME NEW w \in Workers, Stop(w) PROVE LockInv'
    BY <2>4 DEF Stop
  <2>5. ASSUME NEW w \in Workers, CloseAtStop(w) \/ StopGivesUp(w) PROVE LockInv'
    BY <2>5 DEF CloseAtStop, StopGivesUp
  <2>6. ASSUME NEW w \in Workers, Crash(w) PROVE LockInv'
    BY <2>6 DEF Crash
  <2>7. ASSUME NEW w \in Workers, KeepalivesExpire(w) PROVE LockInv'
    BY <2>7 DEF KeepalivesExpire
  <2>8. ASSUME NEW w \in Workers, LoseLock(w) PROVE LockInv'
    BY <2>8 DEF LoseLock
  <2>9. CASE UNCHANGED <<pc, conn>>
    BY <2>9
  <2>10. (\E r \in Runs : GoStale(r)) \/ RequestCollectNow \/ UpdateCollectionSource
           \/ UNCHANGED vars => UNCHANGED <<pc, conn>>
    BY DEF GoStale, RequestCollectNow, UpdateCollectionSource, vars
  <2> QED
    BY <2>1, <2>2, <2>3, <2>4, <2>5, <2>6, <2>7, <2>8, <2>9, <2>10, CalmSteps
    DEF Next, WorkerStep, Work
<1> QED
  BY <1>1, <1>2, TypeCorrect, PTL DEF Spec

(* Mutual exclusion: as long as no lock connection is dropped under its    *)
(* worker, no two workers are past the lock together (OneWorkerAtATime).   *)
THEOREM MutualExclusion ==
    ASSUME ~LockLoss
    PROVE  Spec => []OneWorkerAtATime
<1>1. TypeOK /\ LockInv => OneWorkerAtATime
  BY DEF TypeOK, LockInv, OneWorkerAtATime
<1> QED
  BY <1>1, TypeCorrect, LockSafe, PTL

---------------------------------------------------------------------------
(* The rows.  Without lock loss, a worker past the lock is alone there, so *)
(* whatever it closes is not under way elsewhere.                          *)

\* Who is engaged, or stopping, is the only one: the advisory lock is held.
LEMMA Alone ==
    ASSUME ~LockLoss, TypeOK, LockInv,
           NEW w \in Workers, pc[w] \in Engaged \cup Stopping
    PROVE  \A v \in Workers \ {w} : pc[v] \notin Engaged \cup Stopping
BY DEF TypeOK, LockInv

ClosedKept == \A r \in Runs : runs[r].state = "closed" => runs'[r] = runs[r]

\* Every step keeps runs and workers together, and a closed run closed.
LEMMA RunStep ==
    ASSUME ~LockLoss, TypeOK, LockInv, RunInv, [Next]_vars
    PROVE  RunInv' /\ ClosedKept
<1> USE SchedulerAssumption
    DEF RunInv, RunUnderWayIsOpen, ClosedKept, Collecting, Open, TypeOK, Goto,
        Engaged, InRun, PostSteps, InLoop, Stopping, Runs, NoRun
<1>0. Table
  BY DEF Table
<1>1. ASSUME runs' = runs, opened' = opened,
             \A v \in Workers : Collecting(v)' => Collecting(v) /\ run'[v] = run[v],
             \A v \in Workers : pc'[v] \in {"collecting", "rescuing"} =>
                                  pc[v] \in {"collecting", "rescuing"} /\ run'[v] = run[v]
      PROVE  RunInv' /\ ClosedKept
  BY <1>1
<1>2. ASSUME NEW w \in Workers,
             \/ Start(w) \/ TryTake(w) \/ LookForRun(w) \/ CheckLock(w)
             \/ ConsumeCollectNow(w) \/ Decide(w) \/ LoopHiccup(w)
             \/ KeepalivesExpire(w) \/ LoseLock(w)
      PROVE  RunInv' /\ ClosedKept
  BY <1>2, <1>1 DEF Start, TryTake, LookForRun, CheckLock, ConsumeCollectNow, Decide,
     LoopHiccup, KeepalivesExpire, LoseLock, table
<1>3. ASSUME NEW w \in Workers, CloseLeftRuns(w) PROVE RunInv' /\ ClosedKept
  <2>1. \A v \in Workers \ {w} : pc[v] \notin Engaged \cup Stopping
    BY <1>3, Alone DEF CloseLeftRuns
  <2>2. \A v \in Workers : ~Collecting(v)' /\ pc'[v] \notin {"collecting", "rescuing"}
    BY <1>3, <2>1 DEF CloseLeftRuns, AfterClearing
  <2>3. CASE runs' = Interrupt(OpenRuns \ {run[w]})
    BY <1>0, <1>3, <2>2, <2>3, InterruptEffect DEF CloseLeftRuns, OpenRuns
  <2>4. CASE runs' = runs
    BY <1>3, <2>2, <2>4 DEF CloseLeftRuns
  <2> QED
    BY <1>3, <2>3, <2>4 DEF CloseLeftRuns
<1>4. ASSUME NEW w \in Workers, OpenRun(w) PROVE RunInv' /\ ClosedKept
  <2>1. \A v \in Workers \ {w} : pc[v] \notin Engaged \cup Stopping
    BY <1>4, Alone DEF OpenRun
  <2>2. /\ opened + 1 \in Runs
        /\ runs' = [runs EXCEPT ![opened + 1] = [NoRow EXCEPT !.state = "open", !.through = source]]
    BY <1>4 DEF OpenRun
  <2>3. /\ runs'[opened + 1].state = "open"
        /\ \A q \in Runs \ {opened + 1} : runs'[q] = runs[q]
    BY <1>0, <2>2, AddEffect
  <2> QED
    BY <1>4, <2>1, <2>2, <2>3 DEF OpenRun
<1>5. ASSUME NEW w \in Workers, OpenNoRun(w) PROVE RunInv' /\ ClosedKept
  BY <1>5, <1>1 DEF OpenNoRun, table
<1>6. ASSUME NEW w \in Workers, ResumeRun(w) PROVE RunInv' /\ ClosedKept
  <2>1. \A v \in Workers \ {w} : pc[v] \notin Engaged \cup Stopping
    BY <1>6, Alone DEF ResumeRun
  <2>2. /\ \A q \in Runs : runs'[q].state = runs[q].state
        /\ \A q \in Runs \ {run[w]} : runs'[q] = runs[q]
    BY <1>0, <1>6, MarkEffect DEF ResumeRun
  <2> QED
    BY <1>6, <2>1, <2>2 DEF ResumeRun
<1>7. ASSUME NEW w \in Workers, CannotResume(w) PROVE RunInv' /\ ClosedKept
  <2>1. \A v \in Workers \ {w} : pc[v] \notin Engaged \cup Stopping
    BY <1>7, Alone DEF CannotResume
  <2>2. \A v \in Workers : ~Collecting(v)' /\ pc'[v] \notin {"collecting", "rescuing"}
    BY <1>7, <2>1 DEF CannotResume, Return, AfterRun
  <2>3. CASE runs' = Interrupt(OpenRuns)
    BY <1>0, <1>7, <2>2, <2>3, InterruptEffect DEF CannotResume, OpenRuns
  <2>4. CASE runs' = runs
    BY <1>7, <2>2, <2>4 DEF CannotResume
  <2> QED
    BY <1>7, <2>3, <2>4 DEF CannotResume
<1>8. ASSUME NEW w \in Workers, StartActorRun(w) PROVE RunInv' /\ ClosedKept
  <2>1. /\ \A q \in Runs : runs'[q].state = runs[q].state
        /\ \A q \in Runs \ {run[w]} : runs'[q] = runs[q]
    BY <1>0, <1>8, MarkEffect DEF StartActorRun
  <2> QED
    BY <1>8, <2>1 DEF StartActorRun
<1>9. ASSUME NEW w \in Workers, Beat(w) PROVE RunInv' /\ ClosedKept
  <2>1. /\ \A q \in Runs : runs'[q].state = runs[q].state
        /\ \A q \in Runs \ {run[w]} : runs'[q] = runs[q]
    BY <1>0, <1>9, UpdateEffect DEF Beat
  <2> QED
    BY <1>9, <2>1 DEF Beat
<1>10. ASSUME NEW w \in Workers, FinishCollecting(w) PROVE RunInv' /\ ClosedKept
  BY <1>10 DEF FinishCollecting, table
<1>11. ASSUME NEW w \in Workers, PostStep(w) PROVE RunInv' /\ ClosedKept
  <2>0. /\ pc'[w] \in {"linking", "titles", "finishing"}
        /\ \A v \in Workers \ {w} : pc'[v] = pc[v]
        /\ run' = run /\ opened' = opened /\ pc[w] \in PostSteps
    BY <1>11 DEF PostStep, NextStep
  <2>1. CASE run[w] = NoRun
    <3>1. runs' = runs
      BY <1>11, <2>1 DEF PostStep
    <3> QED
      BY <2>0, <2>1, <3>1
  <2>2. CASE run[w] # NoRun
    <3>1. /\ \A q \in Runs : runs'[q].state = runs[q].state
          /\ \A q \in Runs \ {run[w]} : runs'[q] = runs[q]
      BY <1>0, <1>11, <2>2, UpdateEffect DEF PostStep
    <3>2. run[w] \in Runs /\ runs[run[w]].state = "open"
      BY <2>0, <2>2
    <3>3. ClosedKept
      BY <3>1, <3>2
    <3>4. RunUnderWayIsOpen'
      <4>1. ASSUME NEW v \in Workers, Collecting(v)' PROVE Collecting(v) /\ run'[v] = run[v]
        BY <2>0, <2>2, <4>1
      <4>2. ASSUME NEW v \in Workers, Collecting(v)' PROVE run[v] \in Runs /\ Open(run[v])
        BY <4>1, <4>2
      <4> QED
        BY <3>1, <4>1, <4>2
    <3>5. \A v \in Workers : pc'[v] \in {"collecting", "rescuing"} => run'[v] # NoRun
      BY <2>0
    <3>6. \A q \in Runs : runs'[q].state = "unopened" <=> q > opened'
      BY <2>0, <3>1
    <3> QED
      BY <3>3, <3>4, <3>5, <3>6
  <2> QED
    BY <2>1, <2>2
<1>12. ASSUME NEW w \in Workers, Finish(w) \/ FinishAfterFailure(w)
       PROVE  RunInv' /\ ClosedKept
  <2>1. \A v \in Workers \ {w} : pc[v] \notin Engaged \cup Stopping
    BY <1>12, Alone DEF Finish, FinishAfterFailure
  <2>2. \A v \in Workers : ~Collecting(v)' /\ pc'[v] \notin {"collecting", "rescuing"}
    BY <1>12, <2>1 DEF Finish, FinishAfterFailure, Return, AfterRun
  <2>3. CASE runs' = runs
    BY <1>12, <2>2, <2>3 DEF Finish, FinishAfterFailure
  <2>4. CASE run[w] # NoRun /\ runs' = FinishCollectionRun(run[w])
    <3>1. /\ runs'[run[w]].state = "closed"
          /\ \A q \in Runs \ {run[w]} : runs'[q] = runs[q]
      BY <1>0, <2>4, FinishEffect
    <3>2. runs[run[w]].state = "open"
      BY <1>12, <2>4 DEF Finish, FinishAfterFailure
    <3> QED
      BY <1>12, <2>2, <2>4, <3>1, <3>2 DEF Finish, FinishAfterFailure
  <2> QED
    BY <1>12, <2>3, <2>4 DEF Finish, FinishAfterFailure
<1>13. ASSUME NEW w \in Workers, PostStepsBlowUp(w) PROVE RunInv' /\ ClosedKept
  <2>1. CASE run[w] = NoRun
    BY <1>13, <2>1, <1>1 DEF PostStepsBlowUp, Return, AfterRun, table
  <2>2. CASE run[w] # NoRun
    BY <1>13, <2>2 DEF PostStepsBlowUp, table
  <2> QED
    BY <2>1, <2>2
<1>14. ASSUME NEW w \in Workers, CloseOrphans(w) PROVE RunInv' /\ ClosedKept
  <2>1. \A v \in Workers \ {w} : pc[v] \notin Engaged \cup Stopping
    BY <1>14, Alone DEF CloseOrphans
  <2>2. \A v \in Workers : ~Collecting(v)' /\ pc'[v] \notin {"collecting", "rescuing"}
    BY <1>14, <2>1 DEF CloseOrphans
  <2>3. ASSUME NEW R \in SUBSET OpenRuns, runs' = Interrupt(R)
        PROVE  RunInv' /\ ClosedKept
    <3>1. R \in SUBSET Runs
      BY <2>3 DEF OpenRuns
    <3>2. /\ \A q \in R : runs'[q].state = "closed"
          /\ \A q \in Runs \ R : runs'[q] = runs[q]
      BY <1>0, <2>3, <3>1, InterruptEffect
    <3>3. \A q \in R : runs[q].state = "open"
      BY <2>3 DEF OpenRuns
    <3> QED
      BY <1>14, <2>2, <3>1, <3>2, <3>3 DEF CloseOrphans
  <2>4. CASE runs' = runs
    BY <1>14, <2>2, <2>4 DEF CloseOrphans
  <2> DEFINE Stale == {r \in OpenRuns : runs[r].stale}
  <2>5. Stale \in SUBSET OpenRuns
    OBVIOUS
  <2>6. runs' = runs \/ runs' = Interrupt(Stale)
    BY <1>14 DEF CloseOrphans
  <2> HIDE DEF Stale
  <2>7. CASE runs' = Interrupt(Stale)
    BY <2>3, <2>5, <2>7
  <2> QED
    BY <2>4, <2>6, <2>7
<1>15. ASSUME NEW w \in Workers, Stop(w) PROVE RunInv' /\ ClosedKept
  BY <1>15, <1>1 DEF Stop, Gone, table
<1>16. ASSUME NEW w \in Workers, PauseAtStop(w) PROVE RunInv' /\ ClosedKept
  <2>1. \A v \in Workers \ {w} : pc[v] \notin Engaged \cup Stopping
    BY <1>16, Alone DEF PauseAtStop
  <2>2. \A v \in Workers : ~Collecting(v)' /\ pc'[v] \notin {"collecting", "rescuing"}
    BY <1>16, <2>1 DEF PauseAtStop
  <2>3. /\ \A q \in Runs : runs'[q].state = runs[q].state
        /\ \A q \in Runs \ OpenRuns : runs'[q] = runs[q]
    BY <1>0, <1>16, PauseEffect DEF PauseAtStop
  <2> QED
    BY <1>16, <2>2, <2>3 DEF PauseAtStop, OpenRuns
<1>17. ASSUME NEW w \in Workers, CloseAtStop(w) PROVE RunInv' /\ ClosedKept
  <2>1. \A v \in Workers \ {w} : pc[v] \notin Engaged \cup Stopping
    BY <1>17, Alone DEF CloseAtStop
  <2>2. \A v \in Workers : ~Collecting(v)' /\ pc'[v] \notin {"collecting", "rescuing"}
    BY <1>17, <2>1 DEF CloseAtStop, Gone
  <2> QED
    BY <1>0, <1>17, <2>2, InterruptEffect DEF CloseAtStop, OpenRuns
<1>18. ASSUME NEW w \in Workers, StopGivesUp(w) \/ Crash(w) PROVE RunInv' /\ ClosedKept
  BY <1>18, <1>1 DEF StopGivesUp, Crash, Gone, table
<1>19. ASSUME NEW r \in Runs, GoStale(r) PROVE RunInv' /\ ClosedKept
  <2>1. /\ \A q \in Runs : runs'[q].state = runs[q].state
        /\ \A q \in Runs \ {r} : runs'[q] = runs[q]
    BY <1>0, <1>19, MarkEffect DEF GoStale
  <2> QED
    BY <1>19, <2>1 DEF GoStale
<1>20. CASE RequestCollectNow \/ UpdateCollectionSource \/ UNCHANGED vars
  BY <1>20, <1>1 DEF RequestCollectNow, UpdateCollectionSource, vars, table
<1> QED
  BY <1>2, <1>3, <1>4, <1>5, <1>6, <1>7, <1>8, <1>9, <1>10, <1>11, <1>12, <1>13,
     <1>14, <1>15, <1>16, <1>17, <1>18, <1>19, <1>20
  DEF Next, WorkerStep, Work

(* RunUnderWayIsOpen with what makes it inductive: only a worker that has  *)
(* a row reports to it, and rows are added in the order of their ids.      *)
THEOREM RunsSafe ==
    ASSUME ~LockLoss
    PROVE  Spec => []RunInv
<1>1. Init => RunInv
  BY SchedulerAssumption DEF Init, RunInv, RunUnderWayIsOpen, Collecting, Open, NoRow,
     InRun, PostSteps, Runs, NoRun
<1>2. TypeOK /\ LockInv /\ RunInv /\ [Next]_vars => RunInv'
  BY RunStep
<1> QED
  BY <1>1, <1>2, TypeCorrect, LockSafe, PTL DEF Spec

(* Nobody closes a run under the worker that is on it, however many others *)
(* start, stop, crash and clean up meanwhile.                              *)
THEOREM NobodyClosesARunUnderWay ==
    ASSUME ~LockLoss
    PROVE  Spec => []RunUnderWayIsOpen
<1>1. RunInv => RunUnderWayIsOpen
  BY DEF RunInv
<1> QED
  BY <1>1, RunsSafe, PTL

(* A closed run is final (ClosedForGood), although the statements that     *)
(* write a run's counters never look whether it is closed.                 *)
THEOREM ClosedRunsAreFinal ==
    ASSUME ~LockLoss
    PROVE  Spec => ClosedForGood
<1>1. TypeOK /\ LockInv /\ RunInv /\ [Next]_vars
        => [\A r \in Runs : runs[r].state = "closed" => runs'[r] = runs[r]]_vars
  BY RunStep DEF ClosedKept
<1> QED
  BY <1>1, TypeCorrect, LockSafe, RunsSafe, PTL DEF Spec, ClosedForGood

---------------------------------------------------------------------------
(* The stop handler's two commits.  Between them the worker is alone past  *)
(* the lock, so no other run gets an Actor run: what the first commit      *)
(* paused is still all there is to spare.                                  *)

PausedIsKept == \A w \in Workers : pc[w] = "closing" => ApifyRunsLeft \subseteq kept[w]

SparedAtStop ==
    \A w \in Workers : pc[w] = "closing" /\ pc'[w] = "down" =>
        \A r \in ApifyRunsLeft : Open(r)'

\* Every step keeps what the stop handler paused all there is to spare.
LEMMA PausedStep ==
    ASSUME ~LockLoss, TypeOK, LockInv, PausedIsKept, [Next]_vars
    PROVE  PausedIsKept'
<1> USE DEF PausedIsKept, TypeOK, Goto, Gone, Engaged, InRun, PostSteps, InLoop, Stopping
<1>0. Table
  BY DEF Table
\* The worker that steps is past the lock, so no other one is in its handler.
<1>1. ASSUME NEW w \in Workers, pc[w] \in Engaged \cup Stopping, pc'[w] # "closing",
             \A v \in Workers \ {w} : pc'[v] = pc[v]
      PROVE  PausedIsKept'
  <2>1. \A v \in Workers \ {w} : pc[v] \notin Engaged \cup Stopping
    BY <1>1, Alone
  <2> QED
    BY <1>1, <2>1
<1>2. ASSUME NEW w \in Workers,
             \/ LookForRun(w) \/ CloseLeftRuns(w) \/ OpenRun(w) \/ OpenNoRun(w)
             \/ ResumeRun(w) \/ FinishCollecting(w) \/ CloseOrphans(w)
             \/ ConsumeCollectNow(w) \/ Decide(w) \/ StartActorRun(w) \/ Beat(w)
             \/ LoopHiccup(w) \/ CheckLock(w)
      PROVE  PausedIsKept'
  <2>1. /\ pc[w] \in Engaged \cup Stopping
        /\ pc'[w] # "closing"
        /\ \A v \in Workers \ {w} : pc'[v] = pc[v]
    BY <1>2 DEF LookForRun, CloseLeftRuns, AfterClearing, OpenRun, OpenNoRun, ResumeRun,
       FinishCollecting, CloseOrphans, ConsumeCollectNow, Decide, StartActorRun, Beat,
       LoopHiccup, CheckLock
  <2> QED
    BY <1>1, <2>1
<1>3. ASSUME NEW w \in Workers,
             \/ CannotResume(w) \/ PostStep(w) \/ Finish(w) \/ PostStepsBlowUp(w)
             \/ FinishAfterFailure(w) \/ CloseAtStop(w) \/ StopGivesUp(w)
      PROVE  PausedIsKept'
  <2>1. /\ pc[w] \in Engaged \cup Stopping
        /\ pc'[w] # "closing"
        /\ \A v \in Workers \ {w} : pc'[v] = pc[v]
    BY <1>3 DEF CannotResume, PostStep, NextStep, Finish, PostStepsBlowUp,
       FinishAfterFailure, Return, AfterRun, CloseAtStop, StopGivesUp
  <2> QED
    BY <1>1, <2>1
<1>4. ASSUME NEW w \in Workers, PauseAtStop(w) PROVE PausedIsKept'
  <2>1. \A v \in Workers \ {w} : pc[v] \notin Engaged \cup Stopping
    BY <1>4, Alone DEF PauseAtStop
  <2>2. ApifyRunsLeft' = ApifyRunsLeft
    BY <1>4 DEF PauseAtStop, PauseApifyRuns, ApifyRunsLeft, OpenRuns, Open, Row
  <2> QED
    BY <1>4, <2>1, <2>2 DEF PauseAtStop
<1>5. ASSUME NEW w \in Workers,
             \/ Start(w) \/ TryTake(w) \/ KeepalivesExpire(w) \/ LoseLock(w)
             \/ Stop(w) \/ Crash(w)
      PROVE  PausedIsKept'
  <2>1. /\ runs' = runs
        /\ \A v \in Workers : pc'[v] = "closing" => pc[v] = "closing" /\ kept'[v] = kept[v]
    BY <1>5 DEF Start, TryTake, KeepalivesExpire, LoseLock, Stop, Crash, table
  <2> QED
    BY <2>1 DEF ApifyRunsLeft, OpenRuns, Open
<1>6. ASSUME NEW r \in Runs, GoStale(r) PROVE PausedIsKept'
  <2>1. ApifyRunsLeft' = ApifyRunsLeft
    BY <1>6 DEF GoStale, ApifyRunsLeft, OpenRuns, Open, Row
  <2> QED
    BY <1>6, <2>1 DEF GoStale
<1>7. CASE RequestCollectNow \/ UpdateCollectionSource \/ UNCHANGED vars
  BY <1>7 DEF RequestCollectNow, UpdateCollectionSource, vars, table, ApifyRunsLeft,
     OpenRuns, Open
<1> QED
  BY <1>2, <1>3, <1>4, <1>5, <1>6, <1>7 DEF Next, WorkerStep, Work

\* What is kept is not closed, and a handler that gives up closes nothing.
LEMMA StopStep ==
    ASSUME TypeOK, PausedIsKept, [Next]_vars
    PROVE  SparedAtStop
<1> SUFFICES ASSUME NEW w \in Workers, pc[w] = "closing", pc'[w] = "down"
             PROVE  \A r \in ApifyRunsLeft : Open(r)'
  BY DEF SparedAtStop
<1>0. Table
  BY DEF Table, TypeOK
<1>1. CloseAtStop(w) \/ StopGivesUp(w) \/ Crash(w)
  <2> USE DEF TypeOK, Goto, Gone, InRun, PostSteps, InLoop, Stopping
  <2>1. ASSUME NEW v \in Workers,
               \/ LookForRun(v) \/ CloseLeftRuns(v) \/ OpenRun(v) \/ OpenNoRun(v)
               \/ ResumeRun(v) \/ FinishCollecting(v) \/ CloseOrphans(v)
               \/ ConsumeCollectNow(v) \/ Decide(v) \/ StartActorRun(v) \/ Beat(v)
               \/ LoopHiccup(v) \/ CheckLock(v) \/ PauseAtStop(v)
        PROVE  FALSE
    BY <2>1 DEF LookForRun, CloseLeftRuns, OpenRun, OpenNoRun, ResumeRun,
       FinishCollecting, CloseOrphans, ConsumeCollectNow, Decide, StartActorRun, Beat,
       LoopHiccup, CheckLock, PauseAtStop
  <2>2. ASSUME NEW v \in Workers,
               \/ CannotResume(v) \/ PostStep(v) \/ Finish(v) \/ PostStepsBlowUp(v)
               \/ FinishAfterFailure(v)
        PROVE  FALSE
    BY <2>2 DEF CannotResume, PostStep, Finish, PostStepsBlowUp, FinishAfterFailure, Return
  <2>3. ASSUME NEW v \in Workers,
               \/ Start(v) \/ TryTake(v) \/ KeepalivesExpire(v) \/ LoseLock(v) \/ Stop(v)
        PROVE  FALSE
    BY <2>3 DEF Start, TryTake, KeepalivesExpire, LoseLock, Stop
  <2>4. ASSUME NEW v \in Workers, CloseAtStop(v) \/ StopGivesUp(v) \/ Crash(v)
        PROVE  v = w
    BY <2>4 DEF CloseAtStop, StopGivesUp, Crash
  <2>5. \/ \E r \in Runs : GoStale(r)
        \/ RequestCollectNow \/ UpdateCollectionSource \/ UNCHANGED vars
        => FALSE
    BY DEF GoStale, RequestCollectNow, UpdateCollectionSource, vars
  <2> QED
    BY <2>1, <2>2, <2>3, <2>4, <2>5 DEF Next, WorkerStep, Work
<1>2. CASE CloseAtStop(w)
  <2>1. \A q \in Runs \ (OpenRuns \ kept[w]) : runs'[q] = runs[q]
    BY <1>0, <1>2, InterruptEffect DEF CloseAtStop, OpenRuns
  <2> QED
    BY <2>1 DEF PausedIsKept, ApifyRunsLeft, OpenRuns, Open
<1>3. CASE StopGivesUp(w) \/ Crash(w)
  BY <1>3 DEF StopGivesUp, Crash, table, ApifyRunsLeft, OpenRuns, Open
<1> QED
  BY <1>1, <1>2, <1>3

(* A stopped worker closes no run with Actor runs on Apify: each of them   *)
(* waits for the next worker (StopSparesApifyRuns).                        *)
THEOREM StopSparesThem ==
    ASSUME ~LockLoss
    PROVE  Spec => StopSparesApifyRuns
<1>1. Init => PausedIsKept
  BY DEF Init, PausedIsKept
<1>2. TypeOK /\ LockInv /\ PausedIsKept /\ [Next]_vars => PausedIsKept'
  BY PausedStep
<1>3. TypeOK /\ PausedIsKept /\ [Next]_vars
        => [\A w \in Workers : pc[w] = "closing" /\ pc'[w] = "down" =>
               \A r \in ApifyRunsLeft : Open(r)']_vars
  BY StopStep DEF SparedAtStop
<1> QED
  BY <1>1, <1>2, <1>3, TypeCorrect, LockSafe, PTL DEF Spec, StopSparesApifyRuns

---------------------------------------------------------------------------
(* The refinement.  ActiveRun is the run of the one worker that has one.   *)

\* The active run is the one of the worker that collects.
LEMMA ActiveIs ==
    /\ \A w \in Workers : OneCollector /\ Collecting(w) => ActiveRun = run[w]
    /\ (\A w \in Workers : ~Collecting(w)) => ActiveRun = NoRun
BY DEF OneCollector, ActiveRun

\* The same after the step.
LEMMA ActiveIsNext ==
    /\ \A w \in Workers : OneCollector' /\ Collecting(w)' => ActiveRun' = run'[w]
    /\ (\A w \in Workers : ~Collecting(w)') => ActiveRun' = NoRun
BY DEF OneCollector, ActiveRun

\* A step on the rows of a set keeps the run under way or leaves it.
LEMMA SameActive ==
    ASSUME OneCollector, OneCollector',
           \A w \in Workers : Collecting(w)' <=> Collecting(w),
           \A w \in Workers : Collecting(w) => run'[w] = run[w]
    PROVE  ActiveRun' = ActiveRun
<1>1. CASE \E w \in Workers : Collecting(w)
  BY <1>1, ActiveIs, ActiveIsNext
<1>2. CASE \A w \in Workers : ~Collecting(w)
  BY <1>2, ActiveIs, ActiveIsNext
<1> QED
  BY <1>1, <1>2

\* The open runs are the same while no run changes its state.
LEMMA SameOpen ==
    ASSUME \A q \in Runs : runs'[q].state = runs[q].state
    PROVE  OpenRuns' = OpenRuns
BY DEF OpenRuns, Open

\* The lock allows one collector.
LEMMA OneCollectorFollows == TypeOK /\ LockInv /\ ~LockLoss => OneCollector
BY DEF TypeOK, LockInv, OneCollector, Collecting, Engaged

\* Every step is one of the ledger, or a stutter.
LEMMA LedgerStep ==
    ASSUME ~LockLoss, TypeOK, LockInv, RunInv, OneCollector, OneCollector', [Next]_vars
    PROVE  [Ledger!Next]_(Ledger!lvars)
<1> USE DEF Ledger!lvars, Ledger!NoRun
<1>0. Table
  BY DEF TypeOK, Table
<1>1. ASSUME runs' = runs, opened' = opened,
             \A v \in Workers : Collecting(v)' <=> Collecting(v),
             \A v \in Workers : Collecting(v) => run'[v] = run[v]
      PROVE  UNCHANGED Ledger!lvars
  BY <1>1, SameActive, SameOpen
<1>2. ASSUME NEW w \in Workers,
             \/ Start(w) \/ TryTake(w) \/ LookForRun(w) \/ CheckLock(w)
             \/ ConsumeCollectNow(w) \/ Decide(w) \/ LoopHiccup(w)
             \/ KeepalivesExpire(w) \/ LoseLock(w) \/ OpenNoRun(w)
      PROVE  UNCHANGED Ledger!lvars
  BY <1>2, <1>1 DEF TypeOK, Goto, Collecting, InRun, PostSteps, Start, TryTake, LookForRun,
     CheckLock, ConsumeCollectNow, Decide, LoopHiccup, KeepalivesExpire, LoseLock, OpenNoRun,
     table
<1>3. ASSUME opened' = opened, NEW R \in SUBSET Runs, runs' = Interrupt(R) \/ runs' = runs,
             \A v \in Workers : ~Collecting(v) /\ ~Collecting(v)'
      PROVE  [Ledger!Next]_(Ledger!lvars)
  <2>1. ActiveRun = NoRun /\ ActiveRun' = NoRun
    BY <1>3, ActiveIs, ActiveIsNext
  <2>2. OpenRuns' \in SUBSET OpenRuns
    <3>1. CASE runs' = runs
      BY <3>1 DEF OpenRuns, Open
    <3>2. CASE runs' = Interrupt(R)
      BY <1>0, <1>3, <3>2, InterruptEffect DEF OpenRuns, Open
    <3> QED
      BY <1>3, <3>1, <3>2
  <2> QED
    BY <1>3, <2>1, <2>2 DEF Ledger!Next, Ledger!Interrupt, NoRun
<1> DEFINE Cleaning(w) ==
      CloseLeftRuns(w) \/ CannotResume(w) \/ CloseOrphans(w) \/ CloseAtStop(w)
<1>4. ASSUME NEW w \in Workers, Cleaning(w) PROVE [Ledger!Next]_(Ledger!lvars)
  <2>1. \A v \in Workers \ {w} : pc[v] \notin Engaged \cup Stopping
    BY <1>4, Alone DEF CloseLeftRuns, CannotResume, CloseOrphans, CloseAtStop, Engaged,
       InRun, InLoop, Stopping
  <2>2. \A v \in Workers : ~Collecting(v)
    BY <1>4, <2>1 DEF CloseLeftRuns, CannotResume, CloseOrphans, CloseAtStop, Collecting,
       Engaged, InRun, PostSteps
  <2>3. opened' = opened /\ \A v \in Workers : ~Collecting(v)'
    BY <1>4, <2>1 DEF CloseLeftRuns, CannotResume, CloseOrphans, CloseAtStop, Collecting,
       Engaged, InRun, InLoop, PostSteps, Return, AfterRun, AfterClearing, Gone, Goto, TypeOK
  <2> DEFINE Stale == {r \in OpenRuns : runs[r].stale}
  <2>4. /\ Stale \in SUBSET Runs
        /\ OpenRuns \in SUBSET Runs
        /\ OpenRuns \ {run[w]} \in SUBSET Runs
        /\ OpenRuns \ kept[w] \in SUBSET Runs
    BY DEF OpenRuns
  <2>5. \/ runs' = runs \/ runs' = Interrupt(OpenRuns \ {run[w]})
        \/ runs' = Interrupt(OpenRuns) \/ runs' = Interrupt(Stale)
        \/ runs' = Interrupt(OpenRuns \ kept[w])
    BY <1>4 DEF CloseLeftRuns, CannotResume, CloseOrphans, CloseAtStop
  <2> HIDE DEF Stale
  <2> QED
    BY <1>3, <2>2, <2>3, <2>4, <2>5
<1>5. ASSUME NEW w \in Workers, OpenRun(w) PROVE Ledger!Next
  <2>1. \A v \in Workers \ {w} : pc[v] \notin Engaged \cup Stopping
    BY <1>5, Alone DEF OpenRun, Engaged, InRun
  <2>2. \A v \in Workers : ~Collecting(v)
    BY <1>5, <2>1 DEF OpenRun, Collecting, Engaged, InRun, PostSteps
  <2>3. /\ opened < MaxRuns /\ opened + 1 \in Runs /\ opened' = opened + 1
        /\ runs' = [runs EXCEPT ![opened + 1] = [NoRow EXCEPT !.state = "open", !.through = source]]
    BY <1>5, SchedulerAssumption DEF OpenRun, TypeOK, Runs
  <2>4. Collecting(w)' /\ run'[w] = opened + 1
    BY <1>5, <2>3 DEF OpenRun, Collecting, TypeOK, Goto, InRun, PostSteps, NoRun, Runs
  <2>5. ActiveRun = NoRun /\ ActiveRun' = opened + 1
    BY <2>2, <2>4, ActiveIs, ActiveIsNext
  <2>6. /\ runs'[opened + 1].state = "open"
        /\ \A q \in Runs \ {opened + 1} : runs'[q] = runs[q]
    BY <1>0, <2>3, AddEffect DEF TypeOK
  <2>7. OpenRuns' = OpenRuns \cup {opened + 1}
    BY <2>3, <2>6 DEF OpenRuns, Open
  <2> QED
    BY <2>3, <2>5, <2>7 DEF Ledger!Next, Ledger!Begin, NoRun
<1>6. ASSUME NEW w \in Workers, ResumeRun(w) PROVE Ledger!Next
  <2>1. \A v \in Workers \ {w} : pc[v] \notin Engaged \cup Stopping
    BY <1>6, Alone DEF ResumeRun, Engaged, InRun
  <2>2. \A v \in Workers : ~Collecting(v)
    BY <1>6, <2>1 DEF ResumeRun, Collecting, Engaged, InRun, PostSteps
  <2>3. /\ run[w] \in Runs /\ Open(run[w]) /\ opened' = opened
        /\ runs' = [runs EXCEPT ![run[w]].stale = FALSE]
    BY <1>6 DEF ResumeRun, TypeOK, NoRun
  <2>4. Collecting(w)' /\ run'[w] = run[w]
    BY <1>6 DEF ResumeRun, Collecting, TypeOK, Goto, InRun
  <2>5. ActiveRun = NoRun /\ ActiveRun' = run[w]
    BY <2>2, <2>4, ActiveIs, ActiveIsNext
  <2>6. OpenRuns' = OpenRuns
    BY <1>0, <2>3, MarkEffect, SameOpen
  <2> QED
    BY <2>3, <2>5, <2>6 DEF Ledger!Next, Ledger!Resume, NoRun, OpenRuns
<1>7. ASSUME opened' = opened, \A q \in Runs : runs'[q].state = runs[q].state,
             \A v \in Workers : Collecting(v)' <=> Collecting(v),
             \A v \in Workers : Collecting(v) => run'[v] = run[v]
      PROVE  UNCHANGED Ledger!lvars
  BY <1>7, SameActive, SameOpen
<1>8. ASSUME NEW w \in Workers, StartActorRun(w) \/ Beat(w) \/ FinishCollecting(w)
      PROVE  UNCHANGED Ledger!lvars
  <2>1. \A q \in Runs : runs'[q].state = runs[q].state
    <3>1. run[w] \in Runs
      BY <1>8 DEF StartActorRun, Beat, FinishCollecting, RunInv, TypeOK, NoRun
    <3> QED
      BY <1>0, <1>8, <3>1, MarkEffect, UpdateEffect DEF StartActorRun, Beat, FinishCollecting, table
  <2> QED
    BY <1>8, <2>1, <1>7 DEF StartActorRun, Beat, FinishCollecting, TypeOK, Goto, Collecting,
       InRun, PostSteps, table
<1>9. ASSUME NEW w \in Workers, PostStep(w) PROVE UNCHANGED Ledger!lvars
  <2>1. \A q \in Runs : runs'[q].state = runs[q].state
    BY <1>0, <1>9, UpdateEffect DEF PostStep, TypeOK, NoRun
  <2>2. /\ pc[w] \in PostSteps /\ pc'[w] \in {"linking", "titles", "finishing"}
        /\ \A v \in Workers \ {w} : pc'[v] = pc[v]
        /\ run' = run /\ opened' = opened
    BY <1>9 DEF PostStep, NextStep, PostSteps, TypeOK, Goto
  <2> QED
    BY <2>1, <2>2, <1>7 DEF Collecting, InRun, PostSteps
<1>10. ASSUME NEW w \in Workers, PauseAtStop(w) PROVE UNCHANGED Ledger!lvars
  BY <1>0, <1>10, PauseEffect, <1>7 DEF PauseAtStop, Collecting, TypeOK, Goto, InRun, PostSteps
<1>11. ASSUME NEW r \in Runs, GoStale(r) PROVE UNCHANGED Ledger!lvars
  BY <1>0, <1>11, MarkEffect, <1>7 DEF GoStale, Collecting
<1>12. CASE RequestCollectNow \/ UpdateCollectionSource \/ UNCHANGED vars
  BY <1>12, <1>1 DEF RequestCollectNow, UpdateCollectionSource, vars, table, Collecting
<1>13. ASSUME NEW w \in Workers, Collecting(w), runs' = runs, opened' = opened,
              \A v \in Workers : ~Collecting(v)'
       PROVE  Ledger!Next
  <2>1. ActiveRun = run[w] /\ ActiveRun' = NoRun /\ run[w] # NoRun
    BY <1>13, ActiveIs, ActiveIsNext DEF Collecting
  <2> QED
    BY <1>13, <2>1 DEF Ledger!Next, Ledger!Leave, NoRun, OpenRuns, Open
<1>14. ASSUME NEW w \in Workers, Collecting(w), runs' = FinishCollectionRun(run[w]),
              opened' = opened, \A v \in Workers : ~Collecting(v)'
       PROVE  Ledger!Next
  <2>1. ActiveRun = run[w] /\ ActiveRun' = NoRun
    BY <1>14, ActiveIs, ActiveIsNext
  <2>2. run[w] \in Runs /\ Open(run[w])
    BY <1>14 DEF RunInv, RunUnderWayIsOpen, TypeOK, Collecting, NoRun
  <2>3. /\ runs'[run[w]].state = "closed"
        /\ \A q \in Runs \ {run[w]} : runs'[q] = runs[q]
    BY <1>0, <1>14, <2>2, FinishEffect
  <2>4. OpenRuns' = OpenRuns \ {run[w]}
    BY <2>3 DEF OpenRuns, Open
  <2> QED
    BY <1>14, <2>1, <2>2, <2>4 DEF Ledger!Next, Ledger!Finish, NoRun, OpenRuns
<1>15. ASSUME NEW w \in Workers, Finish(w) \/ FinishAfterFailure(w) \/ PostStepsBlowUp(w)
       PROVE  [Ledger!Next]_(Ledger!lvars)
  <2>1. \A v \in Workers \ {w} : pc[v] \notin Engaged \cup Stopping
    BY <1>15, Alone DEF Finish, FinishAfterFailure, PostStepsBlowUp, Engaged, InRun, PostSteps
  <2>2. opened' = opened /\ \A v \in Workers \ {w} : ~Collecting(v) /\ ~Collecting(v)'
    BY <1>15, <2>1 DEF Finish, FinishAfterFailure, PostStepsBlowUp, Return, AfterRun, Goto,
       TypeOK, Collecting, Engaged, InRun, table
  <2>3. Collecting(w) <=> run[w] # NoRun
    BY <1>15 DEF Finish, FinishAfterFailure, PostStepsBlowUp, Collecting, InRun, PostSteps
  <2>4. \/ ~Collecting(w)'
        \/ PostStepsBlowUp(w) /\ run[w] # NoRun /\ Collecting(w)' /\ run' = run
    BY <1>15 DEF Finish, FinishAfterFailure, PostStepsBlowUp, Return, AfterRun, Goto,
       TypeOK, Collecting, InRun, PostSteps
  <2>5. CASE PostStepsBlowUp(w) /\ run[w] # NoRun /\ Collecting(w)' /\ run' = run
    BY <2>2, <2>3, <2>5, <1>1 DEF PostStepsBlowUp, table
  <2>6. CASE ~Collecting(w)' /\ run[w] # NoRun
    BY <1>13, <1>14, <1>15, <2>2, <2>3, <2>6
    DEF Finish, FinishAfterFailure, PostStepsBlowUp, table
  <2>7. CASE ~Collecting(w)' /\ run[w] = NoRun
    <3>1. runs' = runs
      BY <1>15, <2>7 DEF Finish, FinishAfterFailure, PostStepsBlowUp, RunInv, table
    <3> QED
      BY <2>2, <2>3, <2>7, <3>1, <1>1
  <2> QED
    BY <2>4, <2>5, <2>6, <2>7
<1>16. ASSUME NEW w \in Workers, Stop(w) \/ StopGivesUp(w) \/ Crash(w)
       PROVE  [Ledger!Next]_(Ledger!lvars)
  <2>1. /\ runs' = runs /\ opened' = opened
        /\ ~Collecting(w)'
        /\ \A v \in Workers \ {w} : (Collecting(v)' <=> Collecting(v)) /\ run'[v] = run[v]
    BY <1>16 DEF Stop, StopGivesUp, Crash, Gone, Goto, TypeOK, Collecting, InRun, PostSteps, table
  <2>2. CASE Collecting(w)
    <3>1. \A v \in Workers : ~Collecting(v)'
      BY <2>1, <2>2 DEF OneCollector
    <3> QED
      BY <1>13, <2>1, <2>2, <3>1
  <2>3. CASE ~Collecting(w)
    BY <1>1, <2>1, <2>3
  <2> QED
    BY <2>2, <2>3
<1> QED
  BY <1>2, <1>4, <1>5, <1>6, <1>8, <1>9, <1>10, <1>11, <1>12, <1>15, <1>16
  DEF Next, WorkerStep, Work

(* Scheduler implements RunLedger: whatever workers crash, stop, restart   *)
(* or fail to write, everyone else sees rows added in order, at most one   *)
(* under way, and none closed under its worker.                            *)
THEOREM LedgerImplemented ==
    ASSUME ~LockLoss
    PROVE  Spec => LedgerSpec
<1>1. Init => Ledger!Init
  <2> SUFFICES ASSUME Init PROVE Ledger!Init
    OBVIOUS
  <2>1. OpenRuns = {}
    BY DEF Init, OpenRuns, Open, NoRow
  <2>2. ActiveRun = NoRun
    BY ActiveIs DEF Init, Collecting, InRun, PostSteps
  <2> QED
    BY <2>1, <2>2 DEF Init, Ledger!Init, Ledger!NoRun, NoRun
<1>2. TypeOK /\ LockInv => OneCollector
  BY OneCollectorFollows
<1>3. TypeOK /\ LockInv /\ RunInv /\ OneCollector /\ OneCollector' /\ [Next]_vars
        => [Ledger!Next]_(Ledger!lvars)
  BY LedgerStep
<1> QED
  BY <1>1, <1>2, <1>3, TypeCorrect, LockSafe, RunsSafe, PTL DEF Spec, LedgerSpec, Ledger!Spec

---------------------------------------------------------------------------
(* The rows that are open.  As long as every statement works, whoever is   *)
(* about to open a run has closed, or resumes, what was open before.       *)

\* What makes AtMostOneOpenRun inductive: past the clean-up of the start, the only open
\* run is the worker's own.
SoleOpen ==
    ~faults.statement =>
       /\ \A w \in Workers : pc[w] \in InRun \cup InLoop => OpenRuns \subseteq {run[w]}
       /\ \A q, r \in OpenRuns : q = r

\* A step that fails no statement leaves faults.statement; one that does sets it.
LEMMA StatementKept ==
    ASSUME TypeOK
    PROVE  /\ Fault => faults'.statement = faults.statement
           /\ Hiccup => faults'.statement
BY DEF TypeOK, FaultCount, Fault, Hiccup

\* Runs are only closed, and whoever is past the clean-up was so before, on the same run.
LEMMA NoNewRun ==
    ASSUME SoleOpen, faults'.statement = faults.statement, OpenRuns' \subseteq OpenRuns,
           \A v \in Workers : pc'[v] \in InRun \cup InLoop =>
               pc[v] \in InRun \cup InLoop /\ run'[v] = run[v]
    PROVE  SoleOpen'
BY DEF SoleOpen

\* Nothing is open any more.
LEMMA NothingOpen ==
    ASSUME OpenRuns' = {}
    PROVE  SoleOpen'
BY DEF SoleOpen

\* What a step leaves open is one run, which the only worker past the lock is on.
LEMMA OneLeft ==
    ASSUME NEW w \in Workers, \A v \in Workers \ {w} : pc'[v] \notin Engaged \cup Stopping,
           OpenRuns' \subseteq {run'[w]}
    PROVE  SoleOpen'
BY DEF SoleOpen, Engaged

\* Every step keeps the one open run the only one.
LEMMA SoleOpenStep ==
    ASSUME ~LockLoss, TypeOK, LockInv, RunInv, SoleOpen, [Next]_vars
    PROVE  SoleOpen'
<1> USE DEF TypeOK, Goto
<1>0. Table
  BY DEF Table
<1>1. ASSUME NEW w \in Workers, pc[w] \in Engaged \cup Stopping,
             \A v \in Workers \ {w} : pc'[v] = pc[v]
      PROVE  \A v \in Workers \ {w} : pc'[v] \notin Engaged \cup Stopping
  BY <1>1, Alone
<1>2. ASSUME UNCHANGED <<runs, run>>, faults'.statement = faults.statement,
             \A v \in Workers : pc'[v] \in InRun \cup InLoop => pc[v] \in InRun \cup InLoop
      PROVE  SoleOpen'
  BY <1>2, NoNewRun DEF OpenRuns, Open
<1>3. ASSUME Hiccup PROVE SoleOpen'
  BY <1>3, StatementKept DEF SoleOpen
<1>4. ASSUME NEW w \in Workers,
             \/ Start(w) \/ TryTake(w) \/ LookForRun(w) \/ FinishCollecting(w) \/ CheckLock(w)
             \/ ConsumeCollectNow(w) \/ Decide(w) \/ LoopHiccup(w) \/ KeepalivesExpire(w)
             \/ LoseLock(w)
      PROVE  SoleOpen'
  <2> USE DEF InRun, InLoop, PostSteps
  <2>1. CASE LookForRun(w)
    <3>1. \A v \in Workers : pc'[v] \in InRun \cup InLoop =>
              pc[v] \in InRun \cup InLoop /\ run'[v] = run[v]
      BY <2>1 DEF LookForRun
    <3> QED
      BY <2>1, <3>1, NoNewRun DEF LookForRun, OpenRuns, Open, table
  <2>2. CASE LoopHiccup(w)
    BY <2>2, <1>3 DEF LoopHiccup
  <2>3. CASE LoseLock(w)
    BY <2>3, <1>2, StatementKept DEF LoseLock, table
  <2>4. CASE \/ Start(w) \/ TryTake(w) \/ FinishCollecting(w) \/ CheckLock(w)
             \/ ConsumeCollectNow(w) \/ Decide(w) \/ KeepalivesExpire(w)
    BY <2>4, <1>2 DEF Start, TryTake, FinishCollecting, CheckLock, ConsumeCollectNow, Decide,
       KeepalivesExpire, table
  <2> QED
    BY <1>4, <2>1, <2>2, <2>3, <2>4
<1>5. ASSUME NEW w \in Workers, CloseLeftRuns(w) PROVE SoleOpen'
  <2>1. CASE runs' = Interrupt(OpenRuns \ {run[w]})
    <3>1. OpenRuns' \subseteq {run'[w]}
      BY <1>0, <1>5, <2>1, InterruptEffect DEF CloseLeftRuns, OpenRuns, Open
    <3>2. \A v \in Workers \ {w} : pc'[v] \notin Engaged \cup Stopping
      BY <1>1, <1>5 DEF CloseLeftRuns, Engaged
    <3> QED
      BY <3>1, <3>2, OneLeft
  <2> QED
    BY <1>3, <1>5, <2>1 DEF CloseLeftRuns
<1>6. ASSUME NEW w \in Workers, OpenRun(w) PROVE SoleOpen'
  <2>1. \A v \in Workers \ {w} : pc'[v] \notin Engaged \cup Stopping
    BY <1>1, <1>6 DEF OpenRun, Engaged, InRun
  <2>2. opened + 1 \in Runs /\ NoRun \notin Runs
    BY <1>6, SchedulerAssumption DEF OpenRun, Runs, NoRun
  <2>3. \A q \in Runs \ {opened + 1} : runs'[q] = runs[q]
    BY <1>0, <1>6, <2>2, AddEffect DEF OpenRun
  <2>4. CASE faults.statement
    <3>1. faults'.statement
      BY <1>6, <2>4, StatementKept DEF OpenRun
    <3> QED
      BY <3>1 DEF SoleOpen
  <2>5. CASE ~faults.statement
    <3>1. OpenRuns = {}
      BY <1>6, <2>2, <2>5 DEF OpenRun, SoleOpen, OpenRuns, InRun
    <3>2. OpenRuns' \subseteq {opened + 1}
      BY <2>3, <3>1 DEF OpenRuns, Open
    <3> QED
      BY <1>6, <2>1, <3>2, OneLeft DEF OpenRun
  <2> QED
    BY <2>4, <2>5
<1>7. ASSUME NEW w \in Workers, OpenNoRun(w) PROVE SoleOpen'
  BY <1>2, <1>3, <1>7 DEF OpenNoRun, table, InRun, PostSteps
<1>8. ASSUME NEW w \in Workers,
             \/ ResumeRun(w) \/ StartActorRun(w) \/ Beat(w) \/ PostStep(w)
      PROVE  SoleOpen'
  <2>1. \A q \in Runs : runs'[q].state = runs[q].state
    <3>1. CASE ResumeRun(w)
      BY <1>0, <3>1, MarkEffect DEF ResumeRun
    <3>2. CASE StartActorRun(w)
      BY <1>0, <3>2, MarkEffect DEF StartActorRun, RunInv
    <3>3. CASE Beat(w)
      BY <1>0, <3>3, UpdateEffect DEF Beat, RunInv
    <3>4. CASE PostStep(w)
      BY <1>0, <3>4, UpdateEffect DEF PostStep
    <3> QED
      BY <1>8, <3>1, <3>2, <3>3, <3>4
  <2>2. OpenRuns' = OpenRuns
    BY <2>1 DEF OpenRuns, Open
  <2>3. faults' = faults /\ run' = run
    BY <1>8 DEF ResumeRun, StartActorRun, Beat, PostStep
  <2>4. \A v \in Workers : pc'[v] \in InRun \cup InLoop => pc[v] \in InRun \cup InLoop
    BY <1>8 DEF ResumeRun, StartActorRun, Beat, PostStep, InRun, PostSteps
  <2> QED
    BY <2>2, <2>3, <2>4, NoNewRun
<1>9. ASSUME NEW w \in Workers, CannotResume(w) PROVE SoleOpen'
  <2>1. CASE ~Open(run[w]) /\ runs' = Interrupt(OpenRuns)
    <3>1. OpenRuns' = {}
      BY <1>0, <2>1, InterruptEffect DEF OpenRuns, Open
    <3> QED
      BY <3>1, NothingOpen
  <2> QED
    BY <1>3, <1>9, <2>1 DEF CannotResume
<1>10. ASSUME NEW w \in Workers, Finish(w) \/ FinishAfterFailure(w) PROVE SoleOpen'
  <2>1. CASE Hiccup
    BY <1>3, <2>1
  <2>2. CASE ~Hiccup
    <3>1. /\ faults' = faults /\ pc[w] \in InRun
          /\ runs' = IF run[w] = NoRun THEN runs ELSE FinishCollectionRun(run[w])
      BY <1>10, <2>2 DEF Finish, FinishAfterFailure, RunInv, InRun
    <3>2. CASE faults.statement
      BY <3>1, <3>2 DEF SoleOpen
    <3>3. CASE ~faults.statement
      <4>1. OpenRuns \subseteq {run[w]}
        BY <3>1, <3>3 DEF SoleOpen
      <4>2. CASE run[w] = NoRun
        BY <3>1, <4>1, <4>2, NothingOpen DEF OpenRuns, Open, Runs, NoRun
      <4>3. CASE run[w] # NoRun
        <5>1. /\ runs'[run[w]].state = "closed"
              /\ \A q \in Runs \ {run[w]} : runs'[q] = runs[q]
          BY <1>0, <3>1, <4>3, FinishEffect
        <5> QED
          BY <4>1, <5>1, NothingOpen DEF OpenRuns, Open
      <4> QED
        BY <4>2, <4>3
    <3> QED
      BY <3>2, <3>3
  <2> QED
    BY <2>1, <2>2
<1>11. ASSUME NEW w \in Workers, PostStepsBlowUp(w) \/ StopGivesUp(w) PROVE SoleOpen'
  BY <1>3, <1>11 DEF PostStepsBlowUp, StopGivesUp
<1>12. ASSUME NEW w \in Workers, CloseOrphans(w) PROVE SoleOpen'
  <2>1. CASE Hiccup
    BY <1>3, <2>1
  <2>2. CASE runs' = Interrupt({r \in OpenRuns : runs[r].stale}) /\ UNCHANGED faults
    <3>1. OpenRuns' \subseteq OpenRuns
      BY <1>0, <2>2, InterruptEffect DEF OpenRuns, Open
    <3>2. \A v \in Workers : pc'[v] \in InRun \cup InLoop =>
              pc[v] \in InRun \cup InLoop /\ run'[v] = run[v]
      BY <1>12 DEF CloseOrphans, InLoop
    <3> QED
      BY <2>2, <3>1, <3>2, NoNewRun
  <2> QED
    BY <1>12, <2>1, <2>2 DEF CloseOrphans
<1>13. ASSUME NEW w \in Workers, Stop(w) \/ Crash(w) PROVE SoleOpen'
  <2>1. /\ runs' = runs /\ faults'.statement = faults.statement
        /\ pc'[w] \notin InRun \cup InLoop
        /\ \A v \in Workers \ {w} : pc'[v] = pc[v] /\ run'[v] = run[v]
    BY <1>13, StatementKept DEF Stop, Crash, Gone, table, InRun, InLoop, PostSteps
  <2>2. OpenRuns' \subseteq OpenRuns
    BY <2>1 DEF OpenRuns, Open
  <2> QED
    BY <2>1, <2>2, NoNewRun
<1>14. ASSUME NEW w \in Workers, PauseAtStop(w) PROVE SoleOpen'
  <2>1. OpenRuns' \subseteq OpenRuns
    BY <1>0, <1>14, PauseEffect DEF PauseAtStop, OpenRuns, Open
  <2>2. /\ faults' = faults /\ run' = run
        /\ \A v \in Workers : pc'[v] \in InRun \cup InLoop => pc[v] \in InRun \cup InLoop
    BY <1>14 DEF PauseAtStop, InRun, InLoop, PostSteps
  <2> QED
    BY <2>1, <2>2, NoNewRun
<1>15. ASSUME NEW w \in Workers, CloseAtStop(w) PROVE SoleOpen'
  <2>1. OpenRuns' \subseteq OpenRuns
    BY <1>0, <1>15, InterruptEffect DEF CloseAtStop, OpenRuns, Open
  <2>2. /\ faults' = faults /\ pc'[w] = "down"
        /\ \A v \in Workers \ {w} : pc'[v] = pc[v] /\ run'[v] = run[v]
    BY <1>15 DEF CloseAtStop, Gone
  <2> QED
    BY <2>1, <2>2, NoNewRun DEF InRun, InLoop, PostSteps
<1>16. ASSUME NEW r \in Runs, GoStale(r) PROVE SoleOpen'
  <2>1. OpenRuns' = OpenRuns
    BY <1>0, <1>16, MarkEffect DEF GoStale, OpenRuns, Open
  <2> QED
    BY <1>16, <2>1, NoNewRun DEF GoStale
<1>17. CASE RequestCollectNow \/ UpdateCollectionSource \/ UNCHANGED vars
  BY <1>2, <1>17 DEF RequestCollectNow, UpdateCollectionSource, vars, table
<1> QED
  BY <1>4, <1>5, <1>6, <1>7, <1>8, <1>9, <1>10, <1>11, <1>12, <1>13, <1>14, <1>15, <1>16, <1>17
  DEF Next, WorkerStep, Work

(* A worker never opens a run beside another open one, whatever a crash, a *)
(* stop or a paused run left (AtMostOneOpenRun).                           *)
THEOREM OneOpenRun ==
    ASSUME ~LockLoss
    PROVE  Spec => []AtMostOneOpenRun
<1>1. Init => SoleOpen
  BY DEF Init, SoleOpen, OpenRuns, Open, NoRow
<1>2. TypeOK /\ LockInv /\ RunInv /\ SoleOpen /\ [Next]_vars => SoleOpen'
  BY SoleOpenStep
<1>3. SoleOpen => AtMostOneOpenRun
  <2> SUFFICES ASSUME SoleOpen, ~faults.statement PROVE Cardinality(OpenRuns) <= 1
    BY DEF AtMostOneOpenRun
  <2>1. CASE OpenRuns = {}
    BY <2>1, FS_EmptySet
  <2>2. CASE OpenRuns # {}
    <3>1. PICK r \in OpenRuns : OpenRuns = {r}
      BY <2>2 DEF SoleOpen
    <3> QED
      BY <3>1, FS_Singleton
  <2> QED
    BY <2>1, <2>2
<1> QED
  BY <1>1, <1>2, <1>3, TypeCorrect, LockSafe, RunsSafe, PTL DEF Spec

---------------------------------------------------------------------------
(* "Collect now". *)

\* Where a consumed request is until it has its run: with a worker that decides on it, that
\* starts the run for it, or that was stopped meanwhile.  No run is resumed in between.
RequestInv ==
    /\ \A w \in Workers : pc[w] \in InLoop => run[w] = NoRun
    /\ ~faults.statement =>
         \A w \in Workers : taken[w] =>
            \/ pc[w] \in {"deciding", "pausing", "closing"}
            \/ pc[w] = "starting" /\ run[w] = NoRun

\* Every step keeps the request until a run takes it.
LEMMA RequestStep ==
    ASSUME TypeOK, RequestInv, [Next]_vars
    PROVE  RequestInv'
<1> USE DEF TypeOK, RequestInv, Goto, InLoop
<1>1. ASSUME NEW w \in Workers,
             \A v \in Workers \ {w} : pc'[v] = pc[v] /\ run'[v] = run[v] /\ taken'[v] = taken[v],
             pc'[w] \in InLoop => run'[w] = NoRun,
             faults'.statement \/ faults'.statement = faults.statement,
             ~faults'.statement /\ taken'[w] =>
                 \/ pc'[w] \in {"deciding", "pausing", "closing"}
                 \/ pc'[w] = "starting" /\ run'[w] = NoRun
      PROVE  RequestInv'
  BY <1>1
<1>2. ASSUME UNCHANGED <<pc, run, taken, faults>> PROVE RequestInv'
  BY <1>2
<1>3. ASSUME NEW w \in Workers,
             \/ Start(w) \/ TryTake(w) \/ LookForRun(w) \/ CloseLeftRuns(w)
             \/ FinishCollecting(w) \/ CheckLock(w) \/ PostStep(w)
      PROVE  RequestInv'
  BY <1>1, <1>3, StatementKept DEF Start, TryTake, LookForRun, CloseLeftRuns, AfterClearing,
     FinishCollecting, CheckLock, PostStep, PostSteps, NextStep
<1>4. ASSUME NEW w \in Workers, OpenRun(w) \/ OpenNoRun(w) \/ ResumeRun(w) PROVE RequestInv'
  BY <1>1, <1>4, StatementKept DEF OpenRun, OpenNoRun, ResumeRun
<1>5. ASSUME NEW w \in Workers,
             CannotResume(w) \/ Finish(w) \/ FinishAfterFailure(w) \/ PostStepsBlowUp(w)
      PROVE  RequestInv'
  BY <1>1, <1>5, StatementKept DEF CannotResume, Finish, FinishAfterFailure, PostStepsBlowUp,
     Return, AfterRun, PostSteps
<1>6. ASSUME NEW w \in Workers,
             CloseOrphans(w) \/ ConsumeCollectNow(w) \/ Decide(w) \/ LoopHiccup(w)
      PROVE  RequestInv'
  BY <1>1, <1>6, StatementKept DEF CloseOrphans, ConsumeCollectNow, Decide, LoopHiccup
<1>7. ASSUME NEW w \in Workers,
             Stop(w) \/ PauseAtStop(w) \/ CloseAtStop(w) \/ StopGivesUp(w) \/ Crash(w)
      PROVE  RequestInv'
  BY <1>1, <1>7, StatementKept DEF Stop, PauseAtStop, CloseAtStop, StopGivesUp, Crash, Gone,
     Stopping
<1>8. ASSUME NEW w \in Workers, StartActorRun(w) \/ Beat(w) \/ KeepalivesExpire(w)
      PROVE  RequestInv'
  BY <1>2, <1>8 DEF StartActorRun, Beat, KeepalivesExpire
<1>9. ASSUME NEW w \in Workers, LoseLock(w) PROVE RequestInv'
  BY <1>9, StatementKept DEF LoseLock
<1>10. CASE \/ \E r \in Runs : GoStale(r)
            \/ RequestCollectNow \/ UpdateCollectionSource \/ UNCHANGED vars
  BY <1>2, <1>10 DEF GoStale, RequestCollectNow, UpdateCollectionSource, vars
<1> QED
  BY <1>3, <1>4, <1>5, <1>6, <1>7, <1>8, <1>9, <1>10 DEF Next, WorkerStep, Work

(* A consumed request never vanishes, as long as every statement works     *)
(* (RequestGetsARun); with or without lock loss.                           *)
THEOREM RequestsAreServed == Spec => []RequestGetsARun
<1>1. Init => RequestInv
  BY DEF Init, RequestInv, InLoop
<1>2. TypeOK /\ RequestInv /\ [Next]_vars => RequestInv'
  BY RequestStep
<1>3. RequestInv => RequestGetsARun
  BY DEF RequestInv, RequestGetsARun, RequestNeverVanishes
<1> QED
  BY <1>1, <1>2, <1>3, TypeCorrect, PTL DEF Spec
=============================================================================
