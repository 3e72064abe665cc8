----------------------------- MODULE Scheduler -----------------------------
(***************************************************************************)
(* The worker process (tracker/worker/scheduler.py): the worker lock, the  *)
(* runs a worker opens, works on and closes, what it does with the runs a  *)
(* worker that is gone left open, the "collect now" flag, and what happens *)
(* to all of it when a worker crashes, is stopped, loses its lock          *)
(* connection or meets a database statement that fails.                    *)
(*                                                                         *)
(* The Postgres advisory lock belongs to a session: conn[w] is what became *)
(* of the connection worker w took it on.  A "live" connection is one the  *)
(* server still has open, so it holds the lock; a "dead" one is gone on    *)
(* the server but the worker has not noticed yet.                          *)
(***************************************************************************)
EXTENDS Integers, FiniteSets

CONSTANTS
    Workers,    \* worker processes (a second one is a deploy, or a scaled service)
    MaxRuns,    \* bound: rows of collection_runs a behaviour may add
    MaxFaults,  \* bound: crashes, stops, lost connections and failed statements
    LockLoss    \* can the server drop a lock connection under a running worker?

ASSUME SchedulerAssumption ==
    /\ IsFiniteSet(Workers) /\ Workers # {}
    /\ MaxRuns \in Nat \ {0}
    /\ MaxFaults \in Nat
    /\ LockLoss \in BOOLEAN

Runs  == 1..MaxRuns     \* ids, in the order the rows are started
NoRun == 0
Sources == {"self_hosted", "apify"}

VARIABLES
    pc,        \* where each worker is
    conn,      \* WorkerLock._conn of each worker
    run,       \* the run each worker works on, or is about to resume
    caller,    \* who called _run_once: the startup, the retake or the loop
    kept,      \* the runs a stop handler has paused, and will not close
    taken,     \* a "collect now" the worker consumed and has no run for yet
    opened,    \* how many rows collection_runs has
    runs,      \* the rows of collection_runs
    source,    \* app_settings.collect_source
    collectNow,\* app_settings.collect_now
    faults     \* faults so far (bound), and whether a statement was among them

table == <<opened, runs>>
vars == <<pc, conn, run, caller, kept, taken, table, source, collectNow, faults>>

PostSteps == {"media", "linking", "titles"}
InRun     == {"starting", "collecting", "finishing", "rescuing"} \cup PostSteps
InLoop    == {"idle", "orphans", "consume", "deciding"}
Stopping  == {"pausing", "closing"}
Engaged   == {"looking", "clearing"} \cup InRun \cup InLoop
Places    == {"down", "taking"} \cup Engaged \cup Stopping

Row == [state: {"unopened", "open", "closed"}, through: Sources,
        actors: BOOLEAN, stale: BOOLEAN, interrupted: BOOLEAN]
NoRow == [state |-> "unopened", through |-> "self_hosted",
          actors |-> FALSE, stale |-> FALSE, interrupted |-> FALSE]

FaultCount == [times: 0..MaxFaults, statement: BOOLEAN]

\* In _run_once, with a row.
Collecting(w) == pc[w] \in InRun \ {"starting"} /\ run[w] # NoRun

Open(r) == runs[r].state = "open"
OpenRuns == {r \in Runs : Open(r)}

---------------------------------------------------------------------------
(* Statements on collection_runs (tracker/worker/persist.py). *)

\* UPDATE ... WHERE id = run_id: no guard on finished_at.
UpdateRunProgress(r) ==
    [runs EXCEPT ![r].stale = FALSE, ![r].interrupted = FALSE]

FinishCollectionRun(r) ==
    [runs EXCEPT ![r].stale = FALSE, ![r].interrupted = FALSE, ![r].state = "closed"]

\* Close the runs of R as interrupted.
Interrupt(R) ==
    [r \in Runs |-> IF r \in R
                    THEN [runs[r] EXCEPT !.state = "closed", !.interrupted = TRUE]
                    ELSE runs[r]]

\* Mutation: the statement forgets WHERE finished_at IS NULL.
MutEveryApifyRun == {r \in Runs : runs[r].actors}

\* The unfinished runs that started Actor runs.
ApifyRunsLeft == {r \in OpenRuns : runs[r].actors}

PauseApifyRuns ==
    [r \in Runs |-> IF r \in ApifyRunsLeft THEN [runs[r] EXCEPT !.stale = FALSE]
                    ELSE runs[r]]

\* The latest of them (rows are started in id order), if there is one.
ResumableRun == {r \in ApifyRunsLeft : \A s \in ApifyRunsLeft : s <= r}

---------------------------------------------------------------------------
Init ==
    /\ pc = [w \in Workers |-> "down"]
    /\ conn = [w \in Workers |-> "none"]
    /\ run = [w \in Workers |-> NoRun]
    /\ caller = [w \in Workers |-> "startup"]
    /\ kept = [w \in Workers |-> {}]
    /\ taken = [w \in Workers |-> FALSE]
    /\ opened = 0
    /\ runs = [r \in Runs |-> NoRow]
    /\ source \in Sources
    /\ collectNow = FALSE
    /\ faults = [times |-> 0, statement |-> FALSE]

Goto(w, place) == pc' = [pc EXCEPT ![w] = place]

\* A crash, a stop or a lost connection; and a database statement that fails.
Fault ==
    /\ faults.times < MaxFaults
    /\ faults' = [faults EXCEPT !.times = @ + 1]
Hiccup ==
    /\ faults.times < MaxFaults
    /\ faults' = [times |-> faults.times + 1, statement |-> TRUE]

\* A process that is gone: nothing it had in memory is left.
Gone(w) ==
    /\ Goto(w, "down")
    /\ run' = [run EXCEPT ![w] = NoRun]
    /\ caller' = [caller EXCEPT ![w] = "startup"]
    /\ kept' = [kept EXCEPT ![w] = {}]
    /\ taken' = [taken EXCEPT ![w] = FALSE]

---------------------------------------------------------------------------
(* Taking the lock, and the runs a worker that is gone left open. *)

\* The container starts (or Docker restarts it).
Start(w) ==
    /\ pc[w] = "down" /\ conn[w] = "none"
    /\ Goto(w, "taking")
    /\ UNCHANGED <<conn, run, caller, kept, taken, table, source, collectNow, faults>>

\* Mutation: the answer of pg_try_advisory_lock is not looked at.
MutTakeAnyway(w) ==
    /\ pc[w] = "taking"
    /\ conn' = [conn EXCEPT ![w] = "live"]
    /\ Goto(w, "looking")
    /\ UNCHANGED <<run, caller, kept, taken, table, source, collectNow, faults>>

\* pg_try_advisory_lock succeeds while no live session holds it; otherwise the
\* worker sleeps and tries again.
TryTake(w) ==
    /\ pc[w] = "taking"
    /\ \A v \in Workers : conn[v] # "live"
    /\ conn' = [conn EXCEPT ![w] = "live"]
    /\ Goto(w, "looking")
    /\ UNCHANGED <<run, caller, kept, taken, table, source, collectNow, faults>>

\* _resumable_run: none when ads are no longer read through Apify, when the run
\* started too long ago, or when looking fails.
LookForRun(w) ==
    /\ pc[w] = "looking"
    /\ \E r \in {NoRun} \cup (IF source = "apify" THEN ResumableRun ELSE {}) :
            run' = [run EXCEPT ![w] = r]
    /\ Goto(w, "clearing")
    /\ UNCHANGED <<conn, caller, kept, taken, table, source, collectNow, faults>>

\* After _take_the_lock, the startup always runs a collection, the retake in the
\* loop only resumes one.
AfterClearing(w) ==
    IF caller[w] = "retake" /\ run[w] = NoRun THEN "orphans" ELSE "starting"

\* Mutation: clears up before it has the lock, too.
MutCloseBeforeTheLock(w) ==
    /\ pc[w] \in {"taking", "clearing"}
    /\ runs' = Interrupt(OpenRuns \ {run[w]})
    /\ pc' = IF pc[w] = "clearing" THEN [pc EXCEPT ![w] = AfterClearing(w)] ELSE pc
    /\ UNCHANGED <<conn, run, caller, kept, taken, opened, source, collectNow, faults>>

\* Mutation: only runs that stopped beating are closed, as in the loop.
MutCloseStaleRunsOnly(w) ==
    /\ pc[w] = "clearing"
    /\ runs' = Interrupt({r \in OpenRuns \ {run[w]} : runs[r].stale})
    /\ Goto(w, AfterClearing(w))
    /\ UNCHANGED <<conn, run, caller, kept, taken, opened, source, collectNow, faults>>

CloseLeftRuns(w) ==
    /\ pc[w] = "clearing"
    /\ \/ runs' = Interrupt(OpenRuns \ {run[w]}) /\ UNCHANGED faults
       \/ Hiccup /\ UNCHANGED runs
    /\ Goto(w, AfterClearing(w))
    /\ UNCHANGED <<conn, run, caller, kept, taken, opened, source, collectNow>>

---------------------------------------------------------------------------
(* _run_once: collect, the post-collection steps, close the run. *)

\* Where main goes on once _run_once returns.
AfterRun(w) == IF caller[w] = "retake" THEN "orphans" ELSE "idle"

Return(w) ==
    /\ Goto(w, AfterRun(w))
    /\ run' = [run EXCEPT ![w] = NoRun]
    /\ caller' = [caller EXCEPT ![w] = "loop"]

\* A new run: start_collection_run, by the collector, or by _open_run when the
\* collector failed before it had opened one (then no collection follows).
OpenRun(w) ==
    /\ pc[w] = "starting" /\ run[w] = NoRun
    /\ opened < MaxRuns
    /\ opened' = opened + 1
    /\ runs' = [runs EXCEPT ![opened + 1] =
                  [NoRow EXCEPT !.state = "open", !.through = source]]
    /\ run' = [run EXCEPT ![w] = opened + 1]
    /\ taken' = [taken EXCEPT ![w] = FALSE]
    /\ \/ Goto(w, "collecting") /\ UNCHANGED faults
       \/ Goto(w, "media") /\ Hiccup
    /\ UNCHANGED <<conn, caller, kept, source, collectNow>>

\* Neither the collector nor _open_run could add the row (at the bound on rows
\* this stands for any later run): the post-collection steps run without one.
OpenNoRun(w) ==
    /\ pc[w] = "starting" /\ run[w] = NoRun
    /\ \/ /\ opened = MaxRuns
          /\ taken' = [taken EXCEPT ![w] = FALSE]
          /\ UNCHANGED faults
       \/ /\ opened < MaxRuns
          /\ Hiccup
          /\ UNCHANGED taken
    /\ Goto(w, "media")
    /\ UNCHANGED <<conn, run, caller, kept, table, source, collectNow>>

\* resume_collection_run: UPDATE ... WHERE id = run_id AND finished_at IS NULL.
ResumeRun(w) ==
    /\ pc[w] = "starting" /\ run[w] # NoRun
    /\ Open(run[w])
    /\ runs' = [runs EXCEPT ![run[w]].stale = FALSE]
    /\ Goto(w, "collecting")
    /\ UNCHANGED <<conn, run, caller, kept, taken, opened, source, collectNow, faults>>

\* It is not open any more, or a statement failed: every open run is closed
\* (if that statement works) and _run_once returns.
CannotResume(w) ==
    /\ pc[w] = "starting" /\ run[w] # NoRun
    /\ \/ ~Open(run[w]) /\ runs' = Interrupt(OpenRuns) /\ UNCHANGED faults
       \/ Hiccup /\ runs' \in {Interrupt(OpenRuns), runs}
    /\ Return(w)
    /\ UNCHANGED <<conn, kept, taken, opened, source, collectNow>>

\* record_actor_run: the run has an Actor run on Apify from now on.
StartActorRun(w) ==
    /\ pc[w] = "collecting"
    /\ runs[run[w]].through = "apify"
    /\ ~runs[run[w]].actors
    /\ runs' = [runs EXCEPT ![run[w]].actors = TRUE]
    /\ UNCHANGED <<pc, conn, run, caller, kept, taken, opened, source, collectNow, faults>>

\* beat: after every ad, and on every check of an Actor run.
Beat(w) ==
    /\ pc[w] = "collecting"
    /\ runs' = UpdateRunProgress(run[w])
    /\ UNCHANGED <<pc, conn, run, caller, kept, taken, opened, source, collectNow, faults>>

\* run_collection returns (once the run is open, nothing in it may raise).
FinishCollecting(w) ==
    /\ pc[w] = "collecting"
    /\ Goto(w, "media")
    /\ UNCHANGED <<conn, run, caller, kept, taken, table, source, collectNow, faults>>

\* Mutation: a place main does not know.
MutNextStep == [media |-> "linking", linking |-> "titles", titles |-> "done"]

NextStep == [media |-> "linking", linking |-> "titles", titles |-> "finishing"]

\* One post-collection step: it reports itself and its failure to the run's row,
\* if there is one.
PostStep(w) ==
    /\ pc[w] \in PostSteps
    /\ runs' = IF run[w] = NoRun THEN runs ELSE UpdateRunProgress(run[w])
    /\ Goto(w, NextStep[pc[w]])
    /\ UNCHANGED <<conn, run, caller, kept, taken, opened, source, collectNow, faults>>

Finish(w) ==
    /\ pc[w] = "finishing"
    /\ runs' = IF run[w] = NoRun THEN runs ELSE FinishCollectionRun(run[w])
    /\ Return(w)
    /\ UNCHANGED <<conn, kept, taken, opened, source, collectNow, faults>>

\* The steps' connection fails, in a step's report or in the final statement.
PostStepsBlowUp(w) ==
    /\ pc[w] \in PostSteps \cup {"finishing"}
    /\ Hiccup
    /\ IF run[w] = NoRun
       THEN Return(w)
       ELSE Goto(w, "rescuing") /\ UNCHANGED <<run, caller>>
    /\ UNCHANGED <<conn, kept, taken, table, source, collectNow>>

\* _finish_after_failure: on a fresh connection; if that fails too the row stays open.
FinishAfterFailure(w) ==
    /\ pc[w] = "rescuing"
    /\ \/ runs' = FinishCollectionRun(run[w]) /\ UNCHANGED faults
       \/ Hiccup /\ UNCHANGED runs
    /\ Return(w)
    /\ UNCHANGED <<conn, kept, taken, opened, source, collectNow>>

---------------------------------------------------------------------------
(* The loop of main. *)

\* still_held: a dead connection is noticed, dropped, and the lock taken again.
CheckLock(w) ==
    /\ pc[w] = "idle"
    /\ \/ /\ conn[w] = "live"
          /\ Goto(w, "orphans")
          /\ UNCHANGED <<conn, caller>>
       \/ /\ conn[w] # "live"
          /\ conn' = [conn EXCEPT ![w] = "none"]
          /\ caller' = [caller EXCEPT ![w] = "retake"]
          /\ Goto(w, "taking")
    /\ UNCHANGED <<run, kept, taken, table, source, collectNow, faults>>

\* Mutation: runs with Actor runs are left for a resume that never comes.
MutSpareApifyRuns(w) ==
    /\ pc[w] = "orphans"
    /\ runs' = Interrupt({r \in OpenRuns : runs[r].stale /\ ~runs[r].actors})
    /\ caller' = [caller EXCEPT ![w] = "loop"]
    /\ Goto(w, "consume")
    /\ UNCHANGED <<conn, run, kept, taken, opened, source, collectNow, faults>>

\* _close_orphan_runs: the runs with no heartbeat for STALE_MINUTES.
CloseOrphans(w) ==
    /\ pc[w] = "orphans"
    /\ \/ runs' = Interrupt({r \in OpenRuns : runs[r].stale}) /\ UNCHANGED faults
       \/ Hiccup /\ UNCHANGED runs
    /\ caller' = [caller EXCEPT ![w] = "loop"]
    /\ Goto(w, "consume")
    /\ UNCHANGED <<conn, run, kept, taken, opened, source, collectNow>>

\* Mutation: the flag is read, not reset.
MutReadCollectNow(w) ==
    /\ pc[w] = "consume"
    /\ taken' = [taken EXCEPT ![w] = collectNow]
    /\ Goto(w, "deciding")
    /\ UNCHANGED <<conn, run, caller, kept, table, source, collectNow, faults>>

ConsumeCollectNow(w) ==
    /\ pc[w] = "consume"
    /\ taken' = [taken EXCEPT ![w] = collectNow]
    /\ collectNow' = FALSE
    /\ Goto(w, "deciding")
    /\ UNCHANGED <<conn, run, caller, kept, table, source, faults>>

\* Mutation: only the interval counts.
MutDecideBySchedule(w) ==
    /\ pc[w] = "deciding"
    /\ \/ opened < MaxRuns /\ Goto(w, "starting")
       \/ Goto(w, "idle")
    /\ UNCHANGED <<conn, run, caller, kept, taken, table, source, collectNow, faults>>

\* _should_run: requested, or the interval elapsed (any time may have passed).
Decide(w) ==
    /\ pc[w] = "deciding"
    /\ \/ (taken[w] \/ opened < MaxRuns) /\ Goto(w, "starting")
       \/ ~taken[w] /\ Goto(w, "idle")
    /\ UNCHANGED <<conn, run, caller, kept, taken, table, source, collectNow, faults>>

\* A statement of the loop fails (consume_collect_now, or the read of the
\* interval): main logs it and goes on with its next round.
LoopHiccup(w) ==
    /\ pc[w] \in {"consume", "deciding"}
    /\ Hiccup
    /\ Goto(w, "idle")
    /\ UNCHANGED <<conn, run, caller, kept, taken, table, source, collectNow>>

---------------------------------------------------------------------------
(* Stops, crashes, and the rest of the world. *)

\* SIGTERM.  The handler runs in the worker's only thread, so the worker takes no
\* other step; without the lock it exits at once.
Stop(w) ==
    /\ pc[w] \notin {"down"} \cup Stopping
    /\ Fault
    /\ IF conn[w] # "none"
       THEN Goto(w, "pausing") /\ UNCHANGED <<conn, run, caller, kept, taken>>
       ELSE Gone(w) /\ UNCHANGED conn
    /\ UNCHANGED <<table, source, collectNow>>

\* The handler's first commit: pause_apify_runs.
PauseAtStop(w) ==
    /\ pc[w] = "pausing"
    /\ runs' = PauseApifyRuns
    /\ kept' = [kept EXCEPT ![w] = ApifyRunsLeft]
    /\ Goto(w, "closing")
    /\ UNCHANGED <<conn, run, caller, taken, opened, source, collectNow, faults>>

\* Mutation: what the first commit paused is not kept.
MutCloseAll(w) ==
    /\ pc[w] = "closing"
    /\ runs' = Interrupt(OpenRuns)
    /\ Gone(w)
    /\ conn' = [conn EXCEPT ![w] = "none"]
    /\ UNCHANGED <<opened, source, collectNow, faults>>

\* Its second: close_orphan_runs of the others; then os._exit.
CloseAtStop(w) ==
    /\ pc[w] = "closing"
    /\ runs' = Interrupt(OpenRuns \ kept[w])
    /\ Gone(w)
    /\ conn' = [conn EXCEPT ![w] = "none"]
    /\ UNCHANGED <<opened, source, collectNow, faults>>

\* A statement of the handler fails, or waits for a row lock beyond its timeout.
StopGivesUp(w) ==
    /\ pc[w] \in Stopping
    /\ Hiccup
    /\ Gone(w)
    /\ conn' = [conn EXCEPT ![w] = "none"]
    /\ UNCHANGED <<table, source, collectNow>>

\* Killed.  The server sees the connection close, or, when the whole machine is
\* gone, only once its keepalives go unanswered (KeepalivesExpire).
Crash(w) ==
    /\ pc[w] # "down"
    /\ Fault
    /\ Gone(w)
    /\ conn' \in {[conn EXCEPT ![w] = "none"],
                  [conn EXCEPT ![w] = IF @ = "live" THEN "live" ELSE "none"]}
    /\ UNCHANGED <<table, source, collectNow>>

\* Mutation: keepalives so short that a live worker misses them.
MutKeepalivesTooShort(w) ==
    /\ conn[w] = "live"
    /\ conn' = [conn EXCEPT ![w] = "none"]
    /\ UNCHANGED <<pc, run, caller, kept, taken, table, source, collectNow, faults>>

KeepalivesExpire(w) ==
    /\ pc[w] = "down" /\ conn[w] = "live"
    /\ conn' = [conn EXCEPT ![w] = "none"]
    /\ UNCHANGED <<pc, run, caller, kept, taken, table, source, collectNow, faults>>

\* The database restarts: the lock's connection is dropped, and the lock with it.
LoseLock(w) ==
    /\ LockLoss /\ Fault
    /\ pc[w] # "down" /\ conn[w] = "live"
    /\ conn' = [conn EXCEPT ![w] = "dead"]
    /\ UNCHANGED <<pc, run, caller, kept, taken, table, source, collectNow>>

\* STALE_MINUTES pass with no heartbeat of an open run.
GoStale(r) ==
    /\ Open(r) /\ ~runs[r].stale
    /\ runs' = [runs EXCEPT ![r].stale = TRUE]
    /\ UNCHANGED <<pc, conn, run, caller, kept, taken, opened, source, collectNow, faults>>

\* The admin presses "Collect now": refused while a request waits or a run is in
\* flight (CollectNow has the whole statement, with the clock it needs).
RequestCollectNow ==
    /\ ~collectNow
    /\ \A r \in OpenRuns : runs[r].stale
    /\ opened < MaxRuns
    /\ collectNow' = TRUE
    /\ UNCHANGED <<pc, conn, run, caller, kept, taken, table, source, faults>>

\* The admin changes where ads are read from.
UpdateCollectionSource ==
    /\ source' \in Sources \ {source}
    /\ UNCHANGED <<pc, conn, run, caller, kept, taken, table, collectNow, faults>>

---------------------------------------------------------------------------
\* What a worker does of its own accord.
Work(w) ==
    \/ TryTake(w) \/ LookForRun(w) \/ CloseLeftRuns(w)
    \/ OpenRun(w) \/ OpenNoRun(w) \/ ResumeRun(w) \/ CannotResume(w)
    \/ FinishCollecting(w) \/ PostStep(w) \/ Finish(w) \/ FinishAfterFailure(w)
    \/ CheckLock(w) \/ CloseOrphans(w) \/ ConsumeCollectNow(w) \/ Decide(w)
    \/ PauseAtStop(w) \/ CloseAtStop(w)

WorkerStep(w) ==
    \/ Work(w) \/ Start(w)
    \/ StartActorRun(w) \/ Beat(w)
    \/ PostStepsBlowUp(w) \/ LoopHiccup(w)
    \/ Stop(w) \/ StopGivesUp(w) \/ Crash(w) \/ KeepalivesExpire(w) \/ LoseLock(w)

Next ==
    \/ \E w \in Workers : WorkerStep(w)
    \/ \E r \in Runs : GoStale(r)
    \/ RequestCollectNow
    \/ UpdateCollectionSource

Spec == Init /\ [][Next]_vars

\* A running worker goes on, a container that is down is restarted (restart:
\* unless-stopped), an unanswered keepalive is noticed, and time passes.
Fairness ==
    /\ \A w \in Workers : WF_vars(Work(w)) /\ WF_vars(Start(w)) /\ WF_vars(KeepalivesExpire(w))
    /\ \A r \in Runs : WF_vars(GoStale(r) /\ \A w \in Workers : run[w] # r)

FairSpec == Spec /\ Fairness

---------------------------------------------------------------------------
\* Every variable has the values the code gives it; a worker is in no place of main that
\* does not exist.
TypeOK ==
    /\ pc \in [Workers -> Places]
    /\ conn \in [Workers -> {"none", "live", "dead"}]
    /\ run \in [Workers -> Runs \cup {NoRun}]
    /\ caller \in [Workers -> {"startup", "retake", "loop"}]
    /\ kept \in [Workers -> SUBSET Runs]
    /\ taken \in [Workers -> BOOLEAN]
    /\ opened \in 0..MaxRuns
    /\ runs \in [Runs -> Row]
    /\ source \in Sources
    /\ collectNow \in BOOLEAN
    /\ faults \in FaultCount

\* Postgres gives the lock to one session; a worker past the lock keeps the
\* connection it took it on, dead or alive, until it notices or is gone.
LockInv ==
    /\ \A w, v \in Workers : conn[w] = "live" /\ conn[v] = "live" => w = v
    /\ \A w \in Workers : pc[w] \in Engaged \cup Stopping => conn[w] # "none"
    /\ ~LockLoss => \A w \in Workers : conn[w] # "dead"

\* Nobody else is at work while a worker is past the lock, be it clearing up what
\* others left, in a run, in the loop or in its stop handler (WorkerLock: whoever
\* gets the lock knows no other worker is collecting).  Needs ~LockLoss.
OneWorkerAtATime ==
    \A w, v \in Workers :
        pc[w] \in Engaged \cup Stopping /\ pc[v] \in Engaged \cup Stopping => w = v

\* The same for runs only: no two workers have a run under way together (the
\* module's first promise, "Only one worker collects at a time").  Lock loss
\* breaks it.
OneCollector == \A w, v \in Workers : Collecting(w) /\ Collecting(v) => w = v

\* Nobody closes a run under the worker that is on it, whatever the other workers
\* clean up: clearing, stopping and the orphan check close other runs only.  Needs
\* ~LockLoss.
RunUnderWayIsOpen == \A w \in Workers : Collecting(w) => Open(run[w])

\* With the rows added in order, what makes it inductive.
RunInv ==
    /\ RunUnderWayIsOpen
    /\ \A w \in Workers : pc[w] \in {"collecting", "rescuing"} => run[w] # NoRun
    /\ \A r \in Runs : runs[r].state = "unopened" <=> r > opened

\* As long as every statement works, a worker never opens a run beside another open one:
\* whatever a crash, a stop or a paused run left was resumed or closed before.
AtMostOneOpenRun == ~faults.statement => Cardinality(OpenRuns) <= 1

\* _run_once on its last resort: a failed collection shows "instead of the request just
\* vanishing".  A consumed request has its run by the time the worker is idle again.
RequestNeverVanishes == \A w \in Workers : pc[w] = "idle" => ~taken[w]

\* It holds as long as every statement works: whether the run was due anyway, another
\* was resumed first or the worker had to take its lock again.
RequestGetsARun == ~faults.statement => RequestNeverVanishes

\* A run that was closed is never written again: its counters and the reason it
\* was closed for are final, although update_run_progress and
\* finish_collection_run do not look at finished_at.  Needs ~LockLoss.
ClosedForGood == [][\A r \in Runs : runs[r].state = "closed" => runs'[r] = runs[r]]_vars

\* A stopped worker's second commit closes nothing its first one paused, nor any
\* other run with Actor runs on Apify: those wait for the next worker.
StopSparesApifyRuns ==
    [][\A w \in Workers : pc[w] = "closing" /\ pc'[w] = "down" =>
           \A r \in ApifyRunsLeft : Open(r)']_vars

\* No run shows as running for ever: whoever left it, it is finished, resumed and
\* finished, or closed as interrupted.
EveryRunGetsClosed == \A r \in Runs : Open(r) ~> ~Open(r)

\* A "collect now" request is picked up.
RequestGetsTaken == collectNow ~> ~collectNow

---------------------------------------------------------------------------
(* What the rest of the system relies on: RunLedger.  The run being worked *)
(* on is the one of the worker in _run_once.                               *)
ActiveRun ==
    IF \E w \in Workers : Collecting(w)
    THEN run[CHOOSE w \in Workers : Collecting(w)]
    ELSE NoRun

Ledger == INSTANCE RunLedger WITH open <- OpenRuns, active <- ActiveRun

LedgerSpec == Ledger!Spec
=============================================================================
